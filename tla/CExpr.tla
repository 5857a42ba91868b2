------------------------------- MODULE CExpr -------------------------------
(***************************************************************************)
(* What kaitai/emitter/c/expression.go makes of an expression: the type of *)
(* the C it writes and the value that C computes.  A C type is the kind    *)
(* with its width and sign: "S4" for int, "U8" for size_t, "Bytes" for     *)
(* zb_bytes_t.  A truth value is an int, as in C.                          *)
(***************************************************************************)
EXTENDS ExprEngine

CInt == "S4"
CInts == {"U1", "U2", "U4", "U8", "S1", "S2", "S4", "S8"}

\* C11 6.3.1: promotion to int, then the usual arithmetic conversions.
IntPromotion(t) == IF Width(t) < Width(CInt) THEN CInt ELSE t
UsualConversion(ta, tb) ==
  LET a == IntPromotion(ta)  b == IntPromotion(tb)
      u == IF a \in Unsigned THEN a ELSE b  s == IF a \in Unsigned THEN b ELSE a IN
  IF (a \in Unsigned) = (b \in Unsigned) THEN (IF Width(a) >= Width(b) THEN a ELSE b)
  ELSE IF Width(u) >= Width(s) THEN u ELSE s

\* needsInt64Widening: the operands' kinds mix signs.
isSignedKind(k) == k \in Signed \cup {"UntypedInt"}
needsInt64Widening(n) ==
  LET ks == {TypeKind(ResultTypeOf(n.a)), TypeKind(ResultTypeOf(n.b))} IN
  (\E k \in ks : isSignedKind(k)) /\ (\E k \in ks : k \in Unsigned)

\* isNodeByteArray: array literals of bytes, and what the engine types as bytes.
BytesOver(n, ty, both) ==
  CASE n.k = "arr" -> \A i \in DOMAIN n.items : n.items[i].k = "int" /\ Fits(n.items[i].int, "U1")
    [] n.k = "bin" /\ ty.e # "ByteArray" -> n.op = "+" /\ ty # NoType /\ both
    [] OTHER -> ty.t = "Bytes"
RECURSIVE isBytes(_)
isBytes(n) == BytesOver(n, ResultTypeOf(n), isBytes(n.a) /\ isBytes(n.b))
isByteArrayBinary(n) == isBytes(n.a) /\ isBytes(n.b)

\* exprIs64Bit
exprIs64Bit(n) == TypeKind(ResultTypeOf(n)) \in {"U8", "U8le", "U8be", "S8", "S8le", "S8be"}

\* exprNode's integer literal: an int, an INT64_C or a uint64_t.
LiteralCType(i) == IF Fits(i, "S4") THEN CInt ELSE IF Fits(i, "S8") THEN "S8" ELSE "U8"

\* exprMethod on bytes and truth values.
MethodCType(t, p) == CASE t = "Bytes" /\ p \in {"size", "length"} -> "U8"
                       [] t = "Bytes" /\ p \notin {"size", "length"} -> "U1"
                       [] OTHER -> CInt

\* exprBinary, the type; the operands' types are ta and tb.
BinaryCType(n, ta, tb, compat) ==
  LET t == CASE n.op \in CompareOps \cup {"and", "or"} -> CInt
             [] n.op \in {"/", "%"} -> "S8"
             [] n.op \in ShiftOps -> IntPromotion(ta)
             [] n.op \in {"+", "-", "*"} /\ needsInt64Widening(n) -> "S8"
             [] OTHER -> UsualConversion(ta, tb) IN
  IF compat /\ n.op \notin CompareOps \cup {"and", "or"} THEN "S8" ELSE t

\* exprNode, the type, from its operands'; "none" where the C is rejected.
ByteBinary(n, bytes) == n.op \in CompareOps \cup {"+"} /\ bytes
CTypeOver(n, ta, tb, tc, bytes, compat) ==
  CASE n.k = "id"   -> IF n.name \in DOMAIN Fields THEN Base[Fields[n.name]] ELSE "none"
    [] n.k = "int"  -> LiteralCType(n.int)
    [] n.k = "bool" -> CInt
    [] n.k = "arr"  -> IF bytes THEN "Bytes" ELSE "none"
    [] n.k = "mem"  -> IF ta = "none" THEN "none" ELSE MethodCType(ta, n.prop)
    [] n.k = "sub"  -> IF ta = "Bytes" /\ tb \in CInts THEN "U1" ELSE "none"
    [] n.k = "cast" -> IF n.type \in DOMAIN CastKind /\ ta \in CInts THEN CastKind[n.type] ELSE "none"
    [] n.k = "un"   -> CASE ta \notin CInts -> "none"
                         [] ta \in CInts /\ n.op = "not" -> CInt
                         [] ta \in CInts /\ n.op = "-" -> IntPromotion(ta)
                         [] OTHER -> "S8"
    [] n.k = "bin" /\ ByteBinary(n, bytes) ->
         IF {ta, tb} # {"Bytes"} THEN "none" ELSE IF n.op = "+" THEN "Bytes" ELSE CInt
    [] n.k = "bin" /\ ~ByteBinary(n, bytes) ->
         IF {ta, tb} \subseteq CInts THEN BinaryCType(n, ta, tb, compat) ELSE "none"
    [] n.k = "tern" -> IF ta \notin CInts THEN "none"
                       ELSE IF {tb, tc} \subseteq CInts THEN UsualConversion(tb, tc)
                       ELSE IF tb = tc THEN tb ELSE "none"
    [] OTHER -> "none"
RECURSIVE CType(_, _)
CType(n, compat) ==
  LET T(x) == CType(x, compat) IN
  CTypeOver(n, T(n.a), T(n.b), T(n.c), IF n.k = "arr" THEN isBytes(n) ELSE isByteArrayBinary(n), compat)

----------------------------------------------------------------------------
\* A truth value as the int it is, and a value in the representation of a type.
AsInt(v) == IF v.k = "Boolean" THEN Integer(IF v.b THEN 1 ELSE 0) ELSE v
Stored(v, t) == IF v.k = "Integer" /\ t \in CInts THEN Integer(Wrap(v.i, t)) ELSE v
Truth(v) == v.k = "Integer" /\ v.i # 0

\* The C checks neither a subscript nor that there is a first byte, a greatest
\* one or a divisor: what it does then is undefined, and so is all it does later.
Undefined == [k |-> "Undefined"]
Unchecked(v) == IF Fails(v) THEN Undefined ELSE v

\* zb_div_floor and zb_mod_floor of the runtime, on int64_t.
zb_div_floor(a, b) == IF b = 0 THEN Undefined
                      ELSE Integer(IF Rem(a, b) # 0 /\ OppositeSigns(a, b) THEN Quo(a, b) - 1 ELSE Quo(a, b))
\* Faulty variant: the remainder of C as it is.
zb_mod_trunc(a, b) == IF b = 0 THEN Undefined ELSE Integer(Rem(a, b))
zb_mod_floor(a, b) == IF b = 0 THEN Undefined
                      ELSE Integer(IF Rem(a, b) # 0 /\ OppositeSigns(a, b) THEN Rem(a, b) + b ELSE Rem(a, b))

\* What trunc wraps around the result, under the 0.11 compatibility mode.
Int32Truncated(v, compat) == IF compat THEN Stored(v, "S4") ELSE v

\* exprBinary, the value; common is the type the operands are converted to.
BinaryCValue(n, a, b, common, compat) ==
  LET x == Stored(a, common)  y == Stored(b, common)
      i64(v) == Wrap(v.i, "S8") IN
  CASE n.op \in CompareOps -> AsInt(Compare(n.op, x, y))
    [] common = "Bytes" -> ByteArray(a.y \o b.y)
    [] n.op = "/" -> Int32Truncated(zb_div_floor(i64(a), i64(b)), compat)
    [] n.op = "%" -> Int32Truncated(zb_mod_floor(i64(a), i64(b)), compat)
    [] n.op \in ShiftOps -> Int32Truncated(Stored(IntegerOp(n.op, a.i, b.i), common), compat)
    [] OTHER -> Int32Truncated(Stored(IntegerOp(n.op, x.i, y.i), common), compat)

\* The type a binary operator's operands, of the types ta and tb, are converted to.
CommonOf(n, ta, tb) ==
  CASE isByteArrayBinary(n) -> "Bytes"
    [] n.op \in ShiftOps -> IntPromotion(ta)
    [] n.op \in {"+", "-", "*"} /\ needsInt64Widening(n) -> "S8"
    [] OTHER -> UsualConversion(ta, tb)
CommonType(n, compat) == CommonOf(n, CType(n.a, compat), CType(n.b, compat))

\* exprNode at run time: a, b and c are the operands' values.
CStep(n, a, b, c, env, compat) ==
  CASE n.k \in {"id", "int", "bool"} -> AsInt(EvalNode(n, env, FALSE))
    [] n.k = "arr"  -> AsBytes(EvalNode(n, env, FALSE))
    [] n.k = "mem"  -> IF a.k = "ByteArray" THEN Unchecked(Invoke(a, n.prop)) ELSE a
    [] n.k = "sub"  -> IF Undefined \in {a, b} THEN Undefined ELSE Unchecked(Element(a, b))
    [] n.k = "cast" -> a
    [] n.k = "un" /\ n.op = "not" -> IF a = Undefined THEN a ELSE AsInt(Boolean(~Truth(a)))
    [] n.k = "un" /\ n.op = "-" -> IF a = Undefined THEN a ELSE UnaryOp("-", a)
    [] n.k = "un" /\ n.op = "~" ->
         IF a = Undefined THEN a ELSE Int32Truncated(UnaryOp("~", Stored(a, "S8")), compat /\ ~exprIs64Bit(n.a))
    [] n.k = "tern" -> IF a = Undefined THEN a ELSE IF Truth(a) THEN b ELSE c
    [] n.k = "bin" /\ n.op \in {"and", "or"} ->
         CASE a = Undefined -> a
           [] a # Undefined /\ Truth(a) = (n.op = "or") -> AsInt(Boolean(n.op = "or"))
           [] OTHER -> IF b = Undefined THEN b ELSE AsInt(Boolean(Truth(b)))
    [] n.k = "bin" /\ n.op \notin {"and", "or"} ->
         IF Undefined \in {a, b} THEN Undefined ELSE BinaryCValue(n, a, b, CommonType(n, compat), compat)

\* exprMethod writes min and max as statements before the expression: they run
\* also where the operand they stand in is not needed.
RECURSIVE Hoisted(_)
Hoisted(n) ==
  CASE n.k \in {"un", "cast"} -> Hoisted(n.a)
    [] n.k = "mem" -> Hoisted(n.a) \cup (IF n.prop \in {"min", "max"} THEN {n} ELSE {})
    [] n.k \in {"bin", "sub"} -> Hoisted(n.a) \cup Hoisted(n.b)
    [] n.k = "tern" -> Hoisted(n.a) \cup Hoisted(n.b) \cup Hoisted(n.c)
    [] OTHER -> {}

RECURSIVE CValue(_, _, _)
CValue(n, env, compat) ==
  LET V(x) == CValue(x, env, compat) IN
  IF \E x \in Hoisted(n) \ {n} : V(x) = Undefined THEN Undefined
  ELSE Stored(CStep(n, V(n.a), V(n.b), V(n.c), env, compat), CType(n, compat))

----------------------------------------------------------------------------
\* engineResolveType: the C type of what the engine makes of a node.
ResolvedType(ty) ==
  CASE ty.e = "Integer" -> "S8"
    [] ty.e # "Integer" /\ HasValueType(ty) -> IF ty.t = "UntypedInt" THEN "" ELSE Base[ty.t]
    [] OTHER -> ""
engineResolveType(n) == ResolvedType(ResultTypeOf(n))

\* inferValueTypeFromNode, "" where the syntax does not tell the type; ta is
\* that of the operand, b and c what is known of the others.
FirstTold(x, y) == IF x # "" THEN x ELSE y
TypeBySyntax(n, ta, a, b, c, bytes) ==
  CASE n.k = "int"  -> "S8"
    [] n.k = "bool" -> "UntypedBool"
    [] n.k = "un"   -> IF n.op = "not" THEN "UntypedBool" ELSE ta
    [] n.k = "bin"  -> CASE n.op \in CompareOps \cup {"and", "or"} -> "UntypedBool"
                         [] n.op = "+" /\ "Bytes" \in {a, b} -> "Bytes"
                         [] OTHER -> "S8"
    [] n.k = "tern" -> FirstTold(b, c)
    [] n.k = "cast" -> CastKind[n.type]
    [] n.k = "mem" /\ n.prop = "reverse" -> "Bytes"
    [] n.k = "mem" /\ n.prop \in {"length", "size"} -> "S8"
    [] n.k = "arr" /\ bytes -> "Bytes"
    [] OTHER -> ""
RECURSIVE inferValueTypeFromNode(_)
inferValueTypeFromNode(n) ==
  LET Told(x) == FirstTold(inferValueTypeFromNode(x), engineResolveType(x)) IN
  TypeBySyntax(n, inferValueTypeFromNode(n.a), Told(n.a), Told(n.b), Told(n.c), isBytes(n))

\* inferValueType: what the syntax does not tell the engine does; bytes it does
\* not, and an int64_t is declared.
ByEngine(ty) == IF HasValueType(ty) /\ ty.t \notin {"UntypedInt", "Bytes"} THEN Base[ty.t] ELSE "S8"
inferValueType(n) == FirstTold(inferValueTypeFromNode(n), ByEngine(ResultTypeOf(n)))

\* emitValueInstanceGetter: the expression, converted to that type.
CInstance(n, env, compat) == Stored(CValue(n, env, compat), inferValueType(n))
=============================================================================
