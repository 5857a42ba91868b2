------------------------------- MODULE GoExpr -------------------------------
(***************************************************************************)
(* What kaitai/emitter/golang/expression.go makes of an expression: the    *)
(* static type of the Go it writes, where it compiles, and the value that  *)
(* Go computes.  A Go type is the kind with its width, "UntypedInt" for    *)
(* int, "UntypedBool" for bool, "Bytes" for []byte, "const" for an integer *)
(* constant or a shift of one that has no type yet, "any", or "none" when  *)
(* the Go is rejected.                                                     *)
(***************************************************************************)
EXTENDS ExprEngine

MaxInt64 == HiOf(TRUE, 8 * ByteBits)

\* calcPromotionNode: the kind both operands are converted to, "" for none.
\* A method has no value type, so it is left as it is.
PromotionNode(a, b) ==
  LET ka == TypeKind(ResultTypeOf(a))  kb == TypeKind(ResultTypeOf(b)) IN
  IF "none" \in {ka, kb} \/ ka = kb \/ {"UntypedBool", "Bits"} \cap {ka, kb} # {} THEN ""
  ELSE Base[PromotePair(ka, kb)]
\* Faulty variant: comparisons are left out.
PromotionArithmetic(n) == IF n.op \in ShiftOps \cup CompareOps \cup {"and", "or"} THEN "" ELSE PromotionNode(n.a, n.b)
PromotionBinary(n) == IF n.op \in ShiftOps \cup {"and", "or"} THEN "" ELSE PromotionNode(n.a, n.b)

\* declType of the engine's type; a method has none.
DeclType(ty) == IF HasValueType(ty) THEN Base[ty.t] ELSE ""

isNodeByteArray(n) == n.k = "arr" \/ ResultTypeOf(n).t = "Bytes"
isByteArrayComparison(n) == n.op \in CompareOps /\ isNodeByteArray(n.a) /\ isNodeByteArray(n.b)

RECURSIVE nodeHasUint64Literal(_)
nodeHasUint64Literal(n) == CASE n.k = "int" -> n.int > MaxInt64
                             [] n.k = "cast" -> nodeHasUint64Literal(n.a)
                             [] n.k = "tern" -> nodeHasUint64Literal(n.b) \/ nodeHasUint64Literal(n.c)
                             [] OTHER -> FALSE

\* exprTernaryNode: the result type of the function literal, from what the
\* branches promote to and their declared types.
TernaryKind(p, tb, tc) ==
  CASE p \notin {"", "Bytes"} -> p
    [] p \in {"", "Bytes"} /\ tb # "" /\ tc # "" /\ tb # tc -> "any"
    [] p \in {"", "Bytes"} /\ tb # "" /\ (tc = "" \/ tb = tc) -> tb
    [] p \in {"", "Bytes"} /\ tb = "" /\ tc # "" -> tc
    [] OTHER -> "any"
Uint64Result(t, n) == IF t = "UntypedInt" /\ (nodeHasUint64Literal(n.b) \/ nodeHasUint64Literal(n.c)) THEN "U8" ELSE t
TernaryType(n) ==
  Uint64Result(TernaryKind(PromotionNode(n.b, n.c), DeclType(ResultTypeOf(n.b)), DeclType(ResultTypeOf(n.c))), n)

\* wrapCalcIntResult: only a result the engine types as int is truncated.
WrapsResult(n, compat) == compat /\ DeclType(ResultTypeOf(n)) = "UntypedInt"

GoInts == {"U1", "U2", "U4", "U8", "S1", "S2", "S4", "S8", "UntypedInt"}

\* The constant expressions of Go, typed or not, and their values; a quotient
\* is a call.
RECURSIVE Constant(_)
Constant(n) == CASE n.k = "int" -> TRUE
                 [] n.k \in {"un", "cast"} -> Constant(n.a)
                 [] n.k = "bin" -> n.op \notin CompareOps \cup {"and", "or", "/", "%"} /\ Constant(n.a) /\ Constant(n.b)
                 [] OTHER -> FALSE
ConstantOf(n) == EvalNode(n, [none |-> Error], FALSE).i
ConstantFits(n, t) == Constant(n) => Fits(ConstantOf(n), t)

\* What has no type yet can take t: all its constants must be representable.
RECURSIVE Takes(_, _)
Takes(n, t) == CASE Constant(n) -> Fits(ConstantOf(n), t)
                 [] ~Constant(n) /\ (n.k = "un" \/ n.op \in ShiftOps) -> Takes(n.a, t)
                 [] OTHER -> Takes(n.a, t) /\ Takes(n.b, t)

\* The type of T(x): a constant must be representable, "" converts nothing.
Conversion(to, t, n) ==
  CASE t = "none" -> "none"
    [] t # "none" /\ to = "" -> t
    [] t # "none" /\ to = "any" -> IF t = "const" /\ ~Takes(n, "UntypedInt") THEN "none" ELSE to
    [] t # "none" /\ to = t -> to
    [] t = "const" /\ to \in GoInts -> IF Takes(n, to) THEN to ELSE "none"
    [] t \in GoInts \ {to} /\ to \in GoInts -> IF ConstantFits(n, to) THEN to ELSE "none"
    [] OTHER -> "none"
\* A shift count or an index, of the type t: not a negative constant, and with no
\* type of its own it becomes an as.
Countable(n, t, as) == /\ t \in GoInts \cup {"const"}
                       /\ Constant(n) => ConstantOf(n) >= 0
                       /\ t = "const" => Takes(n, as)
\* The type of `x op y`: equal types, or a constant that takes the other's type.
Operands(ta, na, tb, nb) ==
  CASE ta = tb -> ta
    [] ta = "const" /\ tb \in GoInts -> Conversion(tb, ta, na)
    [] tb = "const" /\ ta \in GoInts -> Conversion(ta, tb, nb)
    [] OTHER -> "none"

MethodGoType(t, p) == CASE p \in {"first", "last"} -> "U1"
                        [] t = "Bytes" /\ p \notin {"first", "last"} -> "UntypedInt"
                        [] p = "to_i" -> "UntypedInt"
                        [] OTHER -> "none"

\* exprBinaryNode, statically: ta and tb are the operands' types, ca and cb what
\* the conversions make of them, common the type the operator meets them in.
BinaryOnTypes(n, ta, tb, ca, cb, common) ==
  CASE "none" \in {ta, tb} -> "none"
    [] n.op \in {"and", "or"} -> IF ta = "UntypedBool" /\ tb = "UntypedBool" THEN ta ELSE "none"
    [] isByteArrayComparison(n) -> IF ta = "Bytes" /\ tb = "Bytes" THEN "UntypedBool" ELSE "none"
    [] n.op \in CompareOps /\ ~isByteArrayComparison(n) ->
         IF common \in GoInts \cup {"const"} \/ (common = "UntypedBool" /\ n.op \in {"==", "!="})
         THEN "UntypedBool" ELSE "none"
    [] n.op \in {"/", "%"} ->
         IF {Conversion("UntypedInt", ca, n.a), Conversion("UntypedInt", cb, n.b)} = {"UntypedInt"}
         THEN "UntypedInt" ELSE "none"
    [] n.op \in ShiftOps -> IF ta \in GoInts \cup {"const"} /\ Countable(n.b, tb, "U8") THEN ta ELSE "none"
    [] OTHER -> IF common \in GoInts \cup {"const"} THEN common ELSE "none"
Meet(n, ta, tb, ca, cb) == BinaryOnTypes(n, ta, tb, ca, cb, Operands(ca, n.a, cb, n.b))
Converted(n, ta, tb, cast) == Meet(n, ta, tb, Conversion(cast, ta, n.a), Conversion(cast, tb, n.b))
CalcInt(n, t, compat) == IF t \in GoInts \cup {"const"} /\ WrapsResult(n, compat)
                         THEN Conversion("UntypedInt", Conversion("S4", t, n), n) ELSE t
BinaryGoType(n, ta, tb, compat) == CalcInt(n, Converted(n, ta, tb, PromotionBinary(n)), compat)

\* exprNode, statically, from the types of the operands.
TernaryGoType(n, ta, tb, tc, t) ==
  IF ta = "UntypedBool" /\ "none" \notin {Conversion(t, tb, n.b), Conversion(t, tc, n.c)} THEN t ELSE "none"
GoTypeOver(n, ta, tb, tc, compat) ==
  CASE n.k = "id"   -> IF n.name \in DOMAIN Fields THEN Base[Fields[n.name]] ELSE "none"
    [] n.k = "int"  -> IF n.int > MaxInt64 THEN "U8" ELSE "const"
    [] n.k = "bool" -> "UntypedBool"
    [] n.k = "arr"  -> IF \A i \in DOMAIN n.items : n.items[i].k = "int" /\ Fits(n.items[i].int, "U1")
                       THEN "Bytes" ELSE "none"
    [] n.k = "mem"  -> IF ta = "none" THEN "none" ELSE MethodGoType(ta, n.prop)
    [] n.k = "sub"  -> IF ta = "Bytes" /\ Countable(n.b, tb, "UntypedInt") THEN "U1" ELSE "none"
    [] n.k = "cast" -> IF n.type \in DOMAIN CastKind THEN Conversion(CastKind[n.type], ta, n.a) ELSE "none"
    [] n.k = "un" /\ n.op = "~" -> Conversion("UntypedInt", ta, n.a)
    [] n.k = "un" /\ n.op = "not" -> IF ta = "UntypedBool" THEN ta ELSE "none"
    [] n.k = "un" /\ n.op = "-" -> IF ta \in GoInts \cup {"const"} THEN ta ELSE "none"
    [] n.k = "bin"  -> BinaryGoType(n, ta, tb, compat)
    [] n.k = "tern" -> TernaryGoType(n, ta, tb, tc, TernaryType(n))
    [] OTHER -> "none"
\* A constant that its type does not hold is refused.
Accepted(n, t) == IF t \in GoInts /\ ~ConstantFits(n, t) THEN "none" ELSE t
RECURSIVE GoType(_, _)
GoType(n, compat) ==
  LET T(x) == GoType(x, compat) IN Accepted(n, GoTypeOver(n, T(n.a), T(n.b), T(n.c), compat))

----------------------------------------------------------------------------
\* A value in the representation of a Go type.
Held(v, t) == IF v.k = "Integer" /\ t \in GoInts THEN Integer(Wrap(v.i, t)) ELSE v

\* The function literals written for / and %: int division, rounded down.
\* Faulty variant: the quotient of Go as it is.
DivTruncated(a, b) == IF b = 0 THEN Error ELSE Integer(Quo(a, b))
DivLiteral(a, b) == IF b = 0 THEN Error
                    ELSE Integer(IF Rem(a, b) # 0 /\ OppositeSigns(a, b) THEN Quo(a, b) - 1 ELSE Quo(a, b))
ModLiteral(a, b) == IF b = 0 THEN Error ELSE Integer(a - b * DivLiteral(a, b).i)

\* A shift by the width or more leaves nothing but the sign; a negative count panics.
ShiftLiteral(op, a, c, type) ==
  CASE c < 0 -> Error
    [] c >= 0 /\ type # "const" /\ c >= Width(type) -> Integer(IF op = ">>" /\ a < 0 THEN -1 ELSE 0)
    [] OTHER -> IntegerOp(op, a, c)

\* exprBinaryNode at run time, on operands that did not panic.
BinaryGoValue(n, a, b, type) ==
  LET cast == PromotionBinary(n)
      x == Held(a, cast)  y == Held(b, cast)
      int(v) == Wrap(v.i, "UntypedInt") IN
  CASE n.op = "/" -> DivLiteral(int(x), int(y))
    [] n.op = "%" -> ModLiteral(int(x), int(y))
    [] n.op \in ShiftOps -> ShiftLiteral(n.op, a.i, b.i, type)
    [] OTHER -> BinaryOp(n.op, x, y)

\* A panic, which the generated methods return as an error.
Recovered(v) == IF v = Panicked THEN Error ELSE v

\* exprNode at run time: a, b and c are the operands' values, t the type of n.
GoStep(n, a, b, c, t, env, compat) ==
  CASE n.k \in {"id", "int", "bool"} -> EvalNode(n, env, FALSE)
    [] n.k = "arr"  -> AsBytes(EvalNode(n, env, FALSE))
    [] n.k = "mem"  -> IF a = Error THEN a ELSE Recovered(Invoke(a, n.prop))
    [] n.k = "sub"  -> Element(a, b)
    [] n.k = "cast" -> a
    [] n.k = "un"   -> UnaryOp(n.op, IF n.op = "~" THEN Held(a, "UntypedInt") ELSE a)
    [] n.k = "tern" -> IF a = Error THEN Error ELSE IF a.b THEN b ELSE c
    [] n.k = "bin" /\ n.op \in {"and", "or"} -> IF a = Error \/ a.b = (n.op = "or") THEN a ELSE b
    [] n.k = "bin" /\ n.op \notin {"and", "or"} ->
         CASE a = Error \/ b = Error -> Error
           [] WrapsResult(n, compat) -> Held(Held(BinaryGoValue(n, a, b, t), t), "S4")
           [] OTHER -> BinaryGoValue(n, a, b, t)
GoHeld(n, a, b, c, t, env, compat) == Held(GoStep(n, a, b, c, t, env, compat), t)
RECURSIVE GoValue(_, _, _)
GoValue(n, env, compat) ==
  LET V(x) == GoValue(x, env, compat) IN
  GoHeld(n, V(n.a), V(n.b), V(n.c), GoType(n, compat), env, compat)

----------------------------------------------------------------------------
\* inferInstanceType: the Go type of a value instance without a type of its
\* own, from the engine's type of its expression, else from its syntax.
DeclaredBySyntax(n) ==
  CASE n.k \in {"bin", "un"} -> IF n.op \in CompareOps \cup {"and", "or", "not"} THEN "UntypedBool" ELSE "UntypedInt"
    [] n.k = "arr" -> IF \A i \in DOMAIN n.items : n.items[i].k = "int" /\ Fits(n.items[i].int, "U1")
                      THEN "Bytes" ELSE "none"
    [] n.k \in {"tern", "cast"} -> "Bytes"
    [] OTHER -> "UntypedInt"
inferInstanceType(n) ==
  LET kept(t) == t \notin {"", "Bytes"}
      b == DeclType(ResultTypeOf(n.b))  c == DeclType(ResultTypeOf(n.c))
      result == IF ResultTypeOf(n) = NoType THEN "" ELSE Base[ResultTypeOf(n).t] IN
  CASE n.k = "tern" /\ kept(b) /\ kept(c) -> IF b = c THEN b ELSE "any"
    [] n.k = "tern" /\ kept(b) # kept(c) -> IF kept(b) THEN b ELSE c
    [] OTHER -> IF ~kept(result) THEN DeclaredBySyntax(n)
                ELSE IF n.k = "int" /\ n.int > MaxInt64 THEN "U8" ELSE result

\* instanceGetter of a value instance: the expression, converted to that type.
GoInstance(n, env, compat) == Held(GoValue(n, env, compat), inferInstanceType(n))
=============================================================================
