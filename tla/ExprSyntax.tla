----------------------------- MODULE ExprSyntax -----------------------------
(***************************************************************************)
(* The expression parser of kaitai/expr: precedence climbing with one      *)
(* token of lookahead and, where an operator has two characters, two.  The *)
(* text is a sequence of tokens: an operator character, an identifier, a   *)
(* keyword, a number or a quoted string; white space, which the code skips *)
(* before each of them, is left out.  A syntax tree is a record whose      *)
(* field k names the Go node type.                                         *)
(***************************************************************************)
EXTENDS Integers, Sequences

CONSTANTS Idents,        \* identifier tokens
          NumValue,      \* number token -> its value
          StrValue       \* quoted token -> its characters

IdentNode(n)       == [k |-> "id", name |-> n]
IntNode(i)         == [k |-> "int", int |-> i]
BoolNode(b)        == [k |-> "bool", bool |-> b]
StringNode(s)      == [k |-> "str", str |-> s]
ArrayNode(items)   == [k |-> "arr", items |-> items]
FStringNode(parts) == [k |-> "fstr", items |-> parts]
UnaryNode(op, a)   == [k |-> "un", op |-> op, a |-> a]
BinaryNode(op, a, b)  == [k |-> "bin", op |-> op, a |-> a, b |-> b]
TernaryNode(a, b, c)  == [k |-> "tern", a |-> a, b |-> b, c |-> c]
MemberNode(a, p)      == [k |-> "mem", a |-> a, prop |-> p]
SubscriptNode(a, b)   == [k |-> "sub", a |-> a, b |-> b]
CallNode(a, args)     == [k |-> "call", a |-> a, items |-> args]
CastNode(a, t)        == [k |-> "cast", a |-> a, type |-> t]
ScopeNode(a, t)       == [k |-> "scope", a |-> a, type |-> t]
SizeofNode(f, t)      == [k |-> f, type |-> t]
NoNode                == [k |-> "none"]

MultOps    == {"*", "/", "%"}
AddOps     == {"+", "-"}
ShiftOps   == {"<<", ">>"}
CompareOps == {"==", "!=", "<", "<=", ">", ">="}
BinaryOps  == MultOps \cup AddOps \cup ShiftOps \cup CompareOps \cup {"&", "^", "|", "and", "or"}

\* The depth constants, lowest precedence first.
depthTernary == 0
depthOr == 1
depthAnd == 2
depthCompare == 3
depthBitOr == 4
depthBitXor == 5
depthBitAnd == 6
depthShift == 7
depthAdd == 8
depthMult == 9
depthMember == 10

\* A parse in progress: the node so far and the text left; ok is FALSE once
\* the code has panicked.
At(n, rest)  == [n |-> n, rest |-> rest, ok |-> TRUE]
Panic        == [n |-> NoNode, rest |-> <<>>, ok |-> FALSE]
peek(s)      == IF s = <<>> THEN "" ELSE s[1]
peek2(s)     == IF Len(s) < 2 THEN "" ELSE s[2]
advance(s, n) == SubSeq(s, n + 1, Len(s))
\* token(isident): the word the text starts with, empty when it starts with none.
Words        == Idents \cup {"not", "true", "false", "and", "or", "as", "sizeof", "bitsizeof"}
word(s)      == IF peek(s) \in Words THEN s[1] ELSE ""
skipWord(s)  == IF peek(s) \in Words THEN advance(s, 1) ELSE s
Expect(p, tok) == IF p.ok /\ peek(p.rest) = tok THEN [p EXCEPT !.rest = advance(@, 1)] ELSE Panic
\* The node f makes of p's, when p did not panic.
Wrapped(p, n)  == IF p.ok THEN [p EXCEPT !.n = n] ELSE Panic

\* The operator the text starts with: its name and its length in characters.
OperatorAt(s) ==
  LET c == peek(s)  d == peek2(s) IN
  CASE c = "<" /\ d = "<" -> << "<<", 2 >>   [] c = ">" /\ d = ">" -> << ">>", 2 >>
    [] c = "<" /\ d = "=" -> << "<=", 2 >>   [] c = ">" /\ d = "=" -> << ">=", 2 >>
    [] c = "=" /\ d = "=" -> << "==", 2 >>   [] c = "!" /\ d = "=" -> << "!=", 2 >>
    [] c \in {"*", "/", "%", "+", "-", "<", ">", "&", "^", "|", "and", "or"} -> << c, 1 >>
    [] OTHER -> << "", 0 >>

\* Faulty variant: a subtraction takes what follows it.
RightDepthLoose(op) ==
  CASE op \in MultOps -> depthMember   [] op \in AddOps -> depthAdd
    [] op \in ShiftOps -> depthAdd     [] op = "&" -> depthShift
    [] op = "^" -> depthBitAnd         [] op = "|" -> depthBitXor
    [] op \in CompareOps -> depthBitOr [] op = "and" -> depthCompare
    [] op = "or" -> depthAnd

\* The depth an operator's right operand is parsed at; the operator itself is
\* taken at every lower depth.
RightDepth(op) ==
  CASE op \in MultOps -> depthMember   [] op \in AddOps -> depthMult
    [] op \in ShiftOps -> depthAdd     [] op = "&" -> depthShift
    [] op = "^" -> depthBitAnd         [] op = "|" -> depthBitXor
    [] op \in CompareOps -> depthBitOr [] op = "and" -> depthCompare
    [] op = "or" -> depthAnd

RECURSIVE ParseAt(_, _), Climb(_, _, _), Items(_, _, _, _), FString(_, _), Strings(_, _)

\* arraylit and the argument list of a call: expressions between commas up to
\* the closing token; only an array may end in a comma.
Items(s, close, acc, trailing) ==
  LET p == ParseAt(s, 0)  all == Append(acc, p.n) IN
  IF peek(s) = close /\ (acc = <<>> \/ trailing) THEN At(acc, advance(s, 1))
  ELSE IF ~p.ok THEN Panic
  ELSE IF peek(p.rest) = "," THEN Items(advance(p.rest, 1), close, all, close = "]")
  ELSE Wrapped(Expect(p, close), all)

\* fstrlit: the parts are quoted text and expressions in braces.
FString(s, parts) ==
  CASE peek(s) = "f-end" -> At(FStringNode(parts), advance(s, 1))
    [] peek(s) = "{" -> LET p == Expect(ParseAt(advance(s, 1), 0), "}") IN
                        IF p.ok THEN FString(p.rest, Append(parts, p.n)) ELSE Panic
    [] peek(s) \in DOMAIN StrValue ->
         FString(advance(s, 1), Append(parts, StringNode(StrValue[s[1]])))
    [] OTHER -> Panic

\* Adjacent string literals are one literal.
Strings(s, acc) == IF peek(s) \in DOMAIN StrValue
                   THEN Strings(advance(s, 1), acc \o StrValue[s[1]]) ELSE At(StringNode(acc), s)

\* `< type >` after sizeof, bitsizeof and .as
TypeArgument(s) == Expect(At(peek2(s), advance(s, 2)), ">")

\* The primary expression expr starts with.
Primary(s) ==
  LET c == peek(s)  r == advance(s, 1)
      Operand(depth) == ParseAt(r, depth) IN
  CASE c = "f-string" -> FString(r, <<>>)
    [] c = "not" -> LET p == Operand(depthCompare) IN Wrapped(p, UnaryNode("not", p.n))
    [] c \in {"true", "false"} -> At(BoolNode(c = "true"), r)
    [] c \in {"sizeof", "bitsizeof"} /\ peek(r) = "<" ->
         LET t == TypeArgument(r) IN Wrapped(t, SizeofNode(c, t.n))
    [] c \in Idents \cup {"sizeof", "bitsizeof"} -> At(IdentNode(c), r)
    [] c \in DOMAIN NumValue -> At(IntNode(NumValue[c]), r)
    [] c \in DOMAIN StrValue -> Strings(s, <<>>)
    [] c = "(" -> Expect(Operand(0), ")")
    [] c = "[" -> LET p == Items(r, "]", <<>>, FALSE) IN Wrapped(p, ArrayNode(p.n))
    [] c \in {"-", "~"} -> LET p == Operand(depthMember) IN Wrapped(p, UnaryNode(c, p.n))
    [] c = "+" -> Operand(depthMember)
    [] OTHER -> Panic

\* The loop of expr: apply operators to p.n while they bind tighter than depth.
Climb(p, depth, sawCompare) ==
  LET s == p.rest  c == peek(s)  r == advance(s, 1)
      op == OperatorAt(s)
      Next(q) == IF q.ok THEN Climb(q, depth, sawCompare) ELSE Panic IN
  CASE ~p.ok -> Panic
    [] p.ok /\ c = ":" /\ peek2(s) = ":" -> Next(At(ScopeNode(p.n, word(advance(r, 1))), skipWord(advance(r, 1))))
    [] p.ok /\ c = "." /\ peek(r) = "as" /\ peek2(r) = "<" ->
         LET t == TypeArgument(advance(r, 1)) IN Next(Wrapped(t, CastNode(p.n, t.n)))
    [] p.ok /\ c = "." /\ ~(peek(r) = "as" /\ peek2(r) = "<") ->
         Next(At(MemberNode(p.n, word(r)), skipWord(r)))
    [] p.ok /\ c = "(" -> LET q == Items(r, ")", <<>>, FALSE) IN Next(Wrapped(q, CallNode(p.n, q.n)))
    [] p.ok /\ c = "[" -> LET q == Expect(ParseAt(r, 0), "]") IN Next(Wrapped(q, SubscriptNode(p.n, q.n)))
    [] p.ok /\ op[1] # "" /\ depth < RightDepth(op[1]) /\ ~(op[1] \in CompareOps /\ sawCompare) ->
         LET q == ParseAt(advance(s, op[2]), RightDepth(op[1])) IN
         IF q.ok THEN Climb(Wrapped(q, BinaryNode(op[1], p.n, q.n)), depth, sawCompare \/ op[1] \in CompareOps)
         ELSE Panic
    [] p.ok /\ c = "?" /\ depth < depthOr ->
         LET b == Expect(ParseAt(r, 0), ":")
             e == IF b.ok THEN ParseAt(b.rest, 0) ELSE Panic IN
         Wrapped(e, TernaryNode(p.n, b.n, e.n))
    [] OTHER -> p

\* expr(depth)
ParseAt(s, depth) == Climb(Primary(s), depth, FALSE)

\* ParseExpr: the root, or NoNode for an error; text left over is an error.
ParseExpr(s) == LET p == ParseAt(s, 0) IN IF p.ok /\ p.rest = <<>> THEN p.n ELSE NoNode
=============================================================================
