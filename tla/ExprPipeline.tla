---------------------------- MODULE ExprPipeline ----------------------------
(***************************************************************************)
(* One expression on its way through the program: it is parsed, typed by   *)
(* the engine, evaluated by the viewer and compiled to Go and to C.  A     *)
(* behaviour builds the expression one operator at a time; every           *)
(* expression it passes through is one a format description may hold.      *)
(***************************************************************************)
EXTENDS GoExpr, CExpr

CONSTANTS Leaves,      \* bound: Leaves[d] are the operands joined to an expression of depth d - 1
          Binaries,    \* bound: Binaries[d] are the operators joining them
          Envs,        \* runtime values of the fields
          ShiftBound   \* bound: the largest shift count evaluated
VARIABLES node, compat

vars == << node, compat >>

\* The operands of a node.
Parts(n) == CASE n.k \in {"un", "mem", "cast"} -> << n.a >> [] n.k \in {"bin", "sub"} -> << n.a, n.b >>
              [] n.k = "tern" -> << n.a, n.b, n.c >> [] OTHER -> <<>>
RECURSIVE Depth(_)
Depth(n) == IF Parts(n) = <<>> THEN 0 ELSE 1 + Max({ Depth(Parts(n)[i]) : i \in DOMAIN Parts(n) })

\* The expressions a description may hold: operands of the sorts an operator takes.
RECURSIVE Sort(_)
Sort(n) ==
  LET s == Sort(n.a)  t == Sort(n.b) IN
  CASE n.k = "id"  -> IF Fields[n.name] = "Bytes" THEN "bytes" ELSE "int"
    [] n.k = "int" -> "int"
    [] n.k = "bool" -> "bool"
    [] n.k = "arr" -> "bytes"
    [] n.k = "un"  -> IF s = (IF n.op = "not" THEN "bool" ELSE "int") THEN s ELSE "bad"
    [] n.k = "mem" -> IF s = (IF n.prop = "to_i" THEN "bool" ELSE "bytes") THEN "int" ELSE "bad"
    [] n.k = "sub" -> IF s = "bytes" /\ t = "int" THEN "int" ELSE "bad"
    [] n.k = "cast" -> IF s = "int" THEN "int" ELSE "bad"
    [] n.k = "tern" -> IF s = "bool" /\ t = Sort(n.c) THEN t ELSE "bad"
    [] n.k = "bin" /\ n.op \in {"and", "or"} -> IF s = "bool" /\ t = "bool" THEN "bool" ELSE "bad"
    [] n.k = "bin" /\ n.op \in {"==", "!="} -> IF s = t /\ "arr" \notin {n.a.k} THEN "bool" ELSE "bad"
    [] n.k = "bin" /\ n.op \in CompareOps \ {"==", "!="} -> IF s = t /\ s # "bool" /\ "arr" \notin {n.a.k} THEN "bool" ELSE "bad"
    [] OTHER -> IF s = "int" /\ t = "int" THEN "int" ELSE "bad"

\* Shifts by counts past the bound are not evaluated.
ShiftsBounded(n) ==
  n.k = "bin" /\ n.op \in ShiftOps =>
    \A env \in Envs : LET c == EvalNode(n.b, env, compat) IN c.k = "Integer" => Magnitude(c.i) <= ShiftBound

Init == node \in Leaves[1] /\ compat \in BOOLEAN
Joined == Depth(node) + 1
Extend(n) == Sort(n) # "bad" /\ ShiftsBounded(n) /\ node' = n /\ UNCHANGED compat
Grows == Joined <= Len(Leaves)

ApplyUnary  == Grows /\ \E op \in {"-", "~", "not"} : Extend(UnaryNode(op, node))
ApplyBinary == Grows /\ \E op \in Binaries[Joined], x \in Leaves[Joined] :
                          Extend(BinaryNode(op, node, x)) \/ Extend(BinaryNode(op, x, node))
ApplyMember == Grows /\ \E p \in {"size", "first", "max", "to_i"} : Extend(MemberNode(node, p))
ApplySubscript == Grows /\ \E x \in Leaves[Joined] : Extend(SubscriptNode(node, x)) \/ Extend(SubscriptNode(x, node))
ApplyCast    == Grows /\ \E t \in {"u1", "s4", "u8"} : Extend(CastNode(node, t))
ApplyTernary == Grows /\ \E x, y \in Leaves[Joined] :
                           Extend(TernaryNode(node, x, y)) \/ Extend(TernaryNode(x, node, y))
Next == ApplyUnary \/ ApplyBinary \/ ApplyMember \/ ApplySubscript \/ ApplyCast \/ ApplyTernary
Spec == Init /\ [][Next]_vars

----------------------------------------------------------------------------
\* The grammar the parser is to accept: an expression written with no more
\* parentheses than precedence and left association call for.
Precedence == << {"or"}, {"and"}, CompareOps, {"|"}, {"^"}, {"&"}, ShiftOps, AddOps, MultOps >>
Level(n) == CASE n.k = "tern" -> 0
              [] n.k = "un" -> IF n.op = "not" THEN 3 ELSE 10
              [] n.k = "bin" -> CHOOSE l \in DOMAIN Precedence : n.op \in Precedence[l]
              [] OTHER -> 11
Token(n) == CASE n.k = "int" -> CHOOSE t \in DOMAIN NumValue : NumValue[t] = n.int
              [] n.k = "bool" -> IF n.bool THEN "true" ELSE "false"
              [] n.k = "id" -> n.name
Chars(op) == CASE op = "<<" -> << "<", "<" >> [] op = ">>" -> << ">", ">" >>
               [] op = "<=" -> << "<", "=" >> [] op = ">=" -> << ">", "=" >>
               [] op = "==" -> << "=", "=" >> [] op = "!=" -> << "!", "=" >> [] OTHER -> << op >>
RECURSIVE Written(_, _)
Written(n, level) ==
  LET own == Level(n)
      text ==
        CASE n.k \in {"int", "bool", "id"} -> << Token(n) >>
          [] n.k = "arr"  -> << "[" >> \o FlattenSeq([i \in DOMAIN n.items |->
                                 (IF i = 1 THEN <<>> ELSE << "," >>) \o Written(n.items[i], 0)]) \o << "]" >>
          [] n.k = "un"   -> << n.op >> \o Written(n.a, own)
          [] n.k = "bin"  -> Written(n.a, IF n.op \in CompareOps THEN own + 1 ELSE own)
                               \o Chars(n.op) \o Written(n.b, own + 1)
          [] n.k = "tern" -> Written(n.a, 1) \o << "?" >> \o Written(n.b, 0) \o << ":" >> \o Written(n.c, 0)
          [] n.k = "mem"  -> Written(n.a, 11) \o << ".", n.prop >>
          [] n.k = "cast" -> Written(n.a, 11) \o << ".", "as", "<", n.type, ">" >>
          [] n.k = "sub"  -> Written(n.a, 11) \o << "[" >> \o Written(n.b, 0) \o << "]" >>
  IN IF own < level THEN << "(" >> \o text \o << ")" >> ELSE text

\* The parser gives back the tree an expression was written from, whatever its
\* operators' precedence, association and shared first characters; and no
\* comparison follows another unparenthesised (expr.go, the climbing loop).
ParserInverts ==
  /\ ParseExpr(Written(node, 0)) = node
  /\ node.k = "bin" /\ node.op \in CompareOps =>
       ParseExpr(Written(node, 0) \o << "<", Token(IntNode(0)) >>) = NoNode

\* The engine's type of an expression tells the kind of every value the
\* evaluator gives it: code generated from the type handles the value.  Two
\* forms are left out, and what contains them: the subscript of a bytes field,
\* typed as bytes, and a method's result promoted to another operand's kind,
\* which has no type because the method has none to cast.
RECURSIVE Mistyped(_)
Mistyped(n) ==
  CASE n.k = "sub" -> n.a.k = "id" \/ Mistyped(n.b)
    [] n.k \in {"un", "mem", "cast"} -> Mistyped(n.a)
    [] n.k = "bin" -> \/ Mistyped(n.a) \/ Mistyped(n.b)
                      \/ ResultTypeOf(n.a).e = "Method" /\ ResultTypeOf(n) = NoType
    [] n.k = "tern" -> Mistyped(n.a) \/ Mistyped(n.b) \/ Mistyped(n.c)
    [] OTHER -> FALSE
KindOfType(t) == CASE t \in IntKinds -> {"Integer"} [] t = "UntypedBool" -> {"Boolean"}
                   [] t = "Bytes" -> {"ByteArray", "Array"} [] OTHER -> {}
TypeTellsValue ==
  ~Mistyped(node) =>
    \A env \in Envs : LET v == EvalNode(node, env, compat) IN
      Fails(v) \/ v.k \in KindOfType(Resolved(ResultTypeOf(node)).t)

\* The type a language holds a node's value in, and the type it brings the
\* operands of a binary operator to; a constant of Go ends in an int.
HeldIn(lang, n) == CASE lang = "c" -> CType(n, compat)
                     [] lang = "go" /\ GoType(n, compat) = "const" -> "UntypedInt"
                     [] OTHER -> GoType(n, compat)
Meeting(lang, n) == IF lang = "go" THEN PromotionBinary(n) ELSE CommonType(n, compat)

\* Under the 0.11 compatibility mode the evaluator truncates every binary
\* result; Go only those the engine types as int, C those of ~ as well.
TruncatedAlike(n, v, lang) ==
  \/ v.k # "Integer"
  \/ lang = "go" /\ (n.k = "bin" => WrapsResult(n, compat))
  \/ lang = "c" /\ (n.k = "un" => Fits(v.i, "S4"))

\* "well-formed KSY requires B and C to share a type" (value.go): inside an
\* expression, a conditional's type is its first branch's.
Uniform(n) == n.k = "tern" => TypeKind(ResultTypeOf(n.b)) = TypeKind(ResultTypeOf(n.c))

\* In Go a quotient is an int, the engine gives it its operands' kind: beside a
\* field of that kind Go refuses it.
IntQuotient(n) == n.k = "bin" /\ n.op \in {"/", "%"} => TypeKind(ResultTypeOf(n)) = "UntypedInt"

\* Whether a value and its operands' fit the types that hold them and the one
\* they meet in, the divisor is positive and a shift shorter than the operand.
In(v, t) == v.k = "Integer" /\ t \in IntKinds => Fits(v.i, t)
FitsTypes(n, v, vs, held, meeting) ==
  /\ In(v, held)
  /\ n.k = "bin" =>
       CASE n.op \in ShiftOps -> vs[2].k = "Integer" => vs[2].i \in 0 .. Width("S4") - 1
         [] n.op \in {"/", "%"} ->
              vs[2].k = "Integer" /\ vs[2].i > 0 /\ \A i \in 1 .. 2 : In(vs[i], "S8") /\ In(vs[i], meeting)
         [] OTHER -> \A i \in 1 .. 2 : In(vs[i], meeting)

\* Whether every value on the way fits the types the generated code holds it in.
RECURSIVE Representable(_, _, _)
Representable(n, env, lang) ==
  /\ \A i \in DOMAIN Parts(n) :
       LET x == Parts(n)[i] IN Representable(x, env, lang) /\ Uniform(x) /\ (lang = "go" => IntQuotient(x))
  /\ FitsTypes(n, EvalNode(n, env, compat), [i \in DOMAIN Parts(n) |-> EvalNode(Parts(n)[i], env, compat)],
               HeldIn(lang, n), Meeting(lang, n))
  /\ compat /\ n.k \in {"bin", "un"} => TruncatedAlike(n, EvalNode(n, env, compat), lang)

\* Fields, literals that an int64 holds, and operators.
RECURSIVE OverFields(_)
OverFields(n) ==
  CASE n.k \in {"id", "bool", "arr"} -> TRUE
    [] n.k = "int" -> n.int <= MaxInt64
    [] n.k = "un" -> OverFields(n.a) /\ IntQuotient(n.a)
    [] n.k = "bin" -> \A x \in {n.a, n.b} : OverFields(x) /\ IntQuotient(x)
    [] OTHER -> FALSE

\* Go computes a constant expression when it compiles it, and refuses one that
\* an int does not hold and a constant shift count below zero.
CountBelowZero(n) == IF GoType(n, compat) = "const" THEN ~Takes(n, "U8") ELSE Constant(n) /\ ConstantOf(n) < 0
RECURSIVE RefusedConstant(_)
RefusedConstant(n) ==
  \/ Constant(n) /\ ~Fits(ConstantOf(n), "UntypedInt")
  \/ n.k = "bin" /\ n.op \in ShiftOps /\ CountBelowZero(n.b)
  \/ \E i \in DOMAIN Parts(n) : RefusedConstant(Parts(n)[i])

\* An expression over fields and literals is compiled to Go that Go accepts,
\* unless one of its constants is refused: the conversions the emitter writes
\* bring every pair of operands to one type.
GoCompiles == OverFields(node) /\ ~compat /\ ~RefusedConstant(node) => GoType(node, compat) # "none"

\* Every failure is one to who waits for the value.
Shown(v) == IF Fails(v) THEN Error ELSE v

\* An array literal of bytes is a byte string.
AsBytesOrSelf(v) == IF v.k = "Array" THEN AsBytes(v) ELSE v

\* Left out of the C: a conditional whose branches differ in kind, which the
\* engine does not expect; a negated or inverted operand of a fixed width, which
\* is declared in the operand's type; and what an int64_t does not hold.
KeptByC(n, v) ==
  /\ Uniform(n)
  /\ n.k = "un" /\ n.op # "not" => inferValueType(n) = "S8"
  /\ v.k = "Integer" => Fits(v.i, "S8")

\* Where nothing overflows, the Go written for a value instance returns the
\* value the viewer shows of it, and fails where the viewer does.
GoComputes ==
  GoType(node, compat) # "none" =>
    \A env \in Envs : Representable(node, env, "go") =>
      LET v == Shown(AsBytesOrSelf(EvalNode(node, env, compat))) IN
      IF Sort(node) = "bytes" THEN GoValue(node, env, compat) = v ELSE GoInstance(node, env, compat) = v

\* The viewer shows a value, and the C does nothing undefined: a min or max that
\* it writes ahead has a byte to begin with even where it is not needed.
DefinedInC(n, env) ==
  /\ ~Fails(EvalNode(n, env, compat))
  /\ \A x \in Hoisted(n) : ~Fails(EvalNode(x, env, compat))

\* The C computes what the viewer shows, where that is a value; where the
\* viewer fails nothing is claimed of the C, which does not check.
CComputes ==
  CType(node, compat) # "none" =>
    \A env \in Envs :
      LET v == AsInt(AsBytesOrSelf(EvalNode(node, env, compat))) IN
      Representable(node, env, "c") /\ KeptByC(node, v) /\ DefinedInC(node, env) =>
        IF Sort(node) = "bytes" THEN CValue(node, env, compat) = v ELSE CInstance(node, env, compat) = v
=============================================================================
