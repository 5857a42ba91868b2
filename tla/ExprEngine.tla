----------------------------- MODULE ExprEngine -----------------------------
(***************************************************************************)
(* kaitai/expr/engine on the scalar and byte-array part of the language:   *)
(* the type it gives a node (value.go, context.go), which both emitters    *)
(* build on, and the value the evaluator computes (evaluate.go,            *)
(* builtin.go) in unbounded integers.  Fields names the fields in scope    *)
(* and their kinds; an environment gives each its runtime value.           *)
(***************************************************************************)
EXTENDS ExprSyntax, Kinds, FiniteSets, SequencesExt

CONSTANT Fields          \* field name -> kind of its TypeRef

\* A bitwise operation on two's complement integers of any size.
BitPair(op, x, y) == CASE op = "&" -> x * y [] op = "|" -> x + y - x * y [] op = "^" -> (x + y) % 2
RECURSIVE Bitwise2(_, _, _)
Bitwise2(op, a, b) == IF {a, b} \subseteq {0, -1} THEN 0 - BitPair(op, 0 - a, 0 - b)
                      ELSE BitPair(op, a % 2, b % 2) + 2 * Bitwise2(op, a \div 2, b \div 2)

----------------------------------------------------------------------------
\* The type of a node: the ExprKind and the kind of its value type.
Ty(e, t)    == [e |-> e, t |-> t]
NoType      == Ty("nil", "none")
IntegerTy   == Ty("Integer", "UntypedInt")
BooleanTy   == Ty("Boolean", "UntypedBool")
ByteArrayTy == Ty("ByteArray", "Bytes")
StringTy    == Ty("String", "String")

\* ValueType: methods have none of their own.
HasValueType(ty) == ty.e \notin {"nil", "Method"}
TypeKind(ty)     == IF HasValueType(ty) THEN ty.t ELSE "none"

\* The symbol tables of the value kinds: method -> kind of its result.
SymbolTable(t) ==
  CASE t = "Bytes" -> [size |-> "UntypedInt", length |-> "UntypedInt", first |-> "UntypedInt",
                       last |-> "UntypedInt", min |-> "UntypedInt", max |-> "UntypedInt",
                       reverse |-> "Bytes"]
    [] t = "String" -> [length |-> "UntypedInt", reverse |-> "String"]
    [] t = "UntypedBool" -> [to_i |-> "UntypedInt"]
    [] OTHER -> [none |-> "none"]
Method(t, p) == IF p \in DOMAIN SymbolTable(t) THEN Ty("Method", SymbolTable(t)[p]) ELSE NoType

\* NewValueOfType: the value a type reference stands for.
NewValueOfType(t) == CASE t \in IntKinds -> IntegerTy [] t = "Bytes" -> ByteArrayTy
                       [] t = "String" -> StringTy [] t = "UntypedBool" -> BooleanTy
                       [] OTHER -> NoType
\* Faulty variant: a method is taken as it is.
Unresolved(ty) == ty
\* A method counts as the value it returns.
Resolved(ty) == IF ty.e = "Method" THEN NewValueOfType(ty.t) ELSE ty

CastKind == [u1 |-> "U1", u2 |-> "U2", u4 |-> "U4", u8 |-> "U8",
             s1 |-> "S1", s2 |-> "S2", s4 |-> "S4", s8 |-> "S8"]

\* The arithmetic case: the left operand's type when the kinds are equal, else
\* a cast to the promoted kind; an unresolved operand counts as an integer.
ArithmeticType(a, b) ==
  LET ra == Resolved(a)  rb == Resolved(b) IN
  IF a = NoType \/ b = NoType THEN IntegerTy
  ELSE IF ~HasValueType(ra) \/ ~HasValueType(rb) THEN NoType
  ELSE IF ra.t = rb.t THEN a
  ELSE IF ~HasValueType(a) THEN NoType
  ELSE Ty("Casted", PromotePair(ra.t, rb.t))

RECURSIVE ResultTypeOf(_)
ResultTypeOf(n) ==
  CASE n.k = "id"   -> IF n.name \in DOMAIN Fields THEN Ty("Attr", Fields[n.name]) ELSE NoType
    [] n.k = "int"  -> IntegerTy
    [] n.k = "bool" -> BooleanTy
    [] n.k = "str"  -> StringTy
    [] n.k = "arr"  -> LET first == ResultTypeOf(n.items[1]) IN
                       IF n.items = <<>> \/ first.e \in {"Integer", "ByteArray", "nil"} THEN ByteArrayTy
                       ELSE Ty("Array", first.t)
    [] n.k = "mem"  -> Method(Resolved(ResultTypeOf(n.a)).t, n.prop)
    [] n.k = "un"   -> IF n.op = "~" THEN IntegerTy ELSE ResultTypeOf(n.a)
    [] n.k = "bin" /\ n.op \in CompareOps \cup {"and", "or"} -> BooleanTy
    [] n.k = "bin" /\ n.op \in ShiftOps -> ResultTypeOf(n.a)
    [] n.k = "bin" /\ n.op \notin CompareOps \cup {"and", "or"} \cup ShiftOps ->
         ArithmeticType(ResultTypeOf(n.a), ResultTypeOf(n.b))
    [] n.k = "tern" -> ResultTypeOf(n.b)
    [] n.k = "cast" -> IF n.type \notin DOMAIN CastKind THEN ResultTypeOf(n.a)
                       ELSE IF HasValueType(ResultTypeOf(n.a)) THEN Ty("Casted", CastKind[n.type])
                       ELSE Ty("Attr", CastKind[n.type])
    [] n.k = "sub"  -> LET a == ResultTypeOf(n.a) IN
                       CASE a.e = "Attr" -> NewValueOfType(a.t)
                         [] a.e = "ByteArray" -> IntegerTy
                         [] OTHER -> NoType
    [] OTHER -> NoType

----------------------------------------------------------------------------
\* Runtime values, and the two ways to have none: the evaluator returns an
\* error, or it panics.
Integer(i)   == [k |-> "Integer", i |-> i]
Boolean(b)   == [k |-> "Boolean", b |-> b]
ByteArray(y) == [k |-> "ByteArray", y |-> y]
Array(items) == [k |-> "Array", items |-> items]
Str(s)       == [k |-> "String", s |-> s]
Error        == [k |-> "Error"]
Panicked     == [k |-> "Panicked"]
Fails(v)     == v \in {Error, Panicked}
OfKind(k, a, b) == a.k = k /\ b.k = k

\* big.Int.Div and Mod: Euclidean, the remainder is never negative.
EuclidMod(a, b) == a % Magnitude(b)
EuclidDiv(a, b) == Quo(a - EuclidMod(a, b), b)

\* newSignedInt32IntegerValue, under the 0.11 compatibility mode.
Truncated(compat, v) == IF compat /\ v.k = "Integer" THEN Integer(Wrap(v.i, "S4")) ELSE v

IntegerOp(op, a, b) ==
  CASE op = "+" -> Integer(a + b)
    [] op = "-" -> Integer(a - b)
    [] op = "*" -> Integer(a * b)
    [] op = "/" -> IF b = 0 THEN Error ELSE Integer(EuclidDiv(a, b))
    [] op = "%" -> IF b = 0 THEN Error ELSE Integer(EuclidMod(a, b))
    \* Uint64 of a negative count is its magnitude
    [] op = "<<" -> Integer(a * 2^Magnitude(b))
    [] op = ">>" -> Integer(a \div 2^Magnitude(b))
    [] op \in {"&", "|", "^"} -> Integer(Bitwise2(op, a, b))
    [] OTHER -> Error

\* bytes.Compare and big.Int.Cmp: -1, 0 or 1.
CmpInt(a, b) == IF a < b THEN -1 ELSE IF a = b THEN 0 ELSE 1
RECURSIVE CmpBytes(_, _)
CmpBytes(a, b) == CASE a = <<>> \/ b = <<>> -> CmpInt(Len(a), Len(b))
                    [] a # <<>> /\ b # <<>> /\ a[1] # b[1] -> CmpInt(a[1], b[1])
                    [] OTHER -> CmpBytes(Tail(a), Tail(b))
\* cmpResultToMode: the operators a comparison result satisfies.
Satisfies(op, c) == CASE c = -1 -> op \in {"<", "<=", "!="} [] c = 0 -> op \in {"==", "<=", ">="}
                      [] c = 1 -> op \in {">", ">=", "!="}

\* The bytes of a string, or of a byte array.
Text(v) == IF v.k = "String" THEN v.s ELSE v.y

\* arrayOfIntsToBytes; a value that is no byte string gives Error.
AsBytes(v) == IF v.k = "ByteArray" THEN v
              ELSE IF v.k = "Array" /\ \A i \in DOMAIN v.items :
                                          v.items[i].k = "Integer" /\ Fits(v.items[i].i, "U1")
              THEN ByteArray([i \in DOMAIN v.items |-> v.items[i].i]) ELSE Error

Compare(op, a, b) ==
  LET x == AsBytes(a)  y == AsBytes(b) IN
  CASE OfKind("Integer", a, b) -> Boolean(Satisfies(op, CmpInt(a.i, b.i)))
    [] OfKind("Boolean", a, b) -> IF op \in {"==", "!="} THEN Boolean((a.b = b.b) = (op = "==")) ELSE Error
    [] {a.k, b.k} \subseteq {"String", "ByteArray"} -> Boolean(Satisfies(op, CmpBytes(Text(a), Text(b))))
    [] {a.k, b.k} = {"Array", "ByteArray"} /\ OfKind("ByteArray", x, y) -> Boolean(Satisfies(op, CmpBytes(x.y, y.y)))
    [] OTHER -> Error

\* Property-style methods: invoked as soon as the member is named.  The first
\* and the last of nothing are nil, on which whoever asks for them panics.
Invoke(v, p) ==
  LET seq == IF v.k = "ByteArray" THEN [i \in DOMAIN v.y |-> Integer(v.y[i])] ELSE v.items
      least == CHOOSE x \in Range(seq) : \A z \in Range(seq) : x.i <= z.i
      most  == CHOOSE x \in Range(seq) : \A z \in Range(seq) : x.i >= z.i IN
  CASE v.k \in {"ByteArray", "Array"} /\ p = "size" -> Integer(Len(seq))
    [] v.k \in {"ByteArray", "Array"} /\ p \in {"first", "last", "min", "max"} ->
         IF seq = <<>> THEN IF p \in {"first", "last"} THEN Panicked ELSE Error
         ELSE (CASE p = "first" -> seq[1] [] p = "last" -> seq[Len(seq)] [] p = "min" -> least [] p = "max" -> most)
    [] v.k = "ByteArray" /\ p = "length" -> Integer(Len(v.y))
    [] v.k = "String" /\ p = "length" -> Integer(Len(v.s))
    [] v.k = "String" /\ p = "reverse" -> Str(Reverse(v.s))
    [] v.k = "ByteArray" /\ p = "reverse" -> ByteArray(Reverse(v.y))
    [] v.k = "Boolean" /\ p = "to_i" -> Integer(IF v.b THEN 1 ELSE 0)
    [] OTHER -> Error

UnaryOp(op, v) ==
  CASE Fails(v) -> v
    [] op = "not" /\ v.k = "Boolean" -> Boolean(~v.b)
    [] op = "-" /\ v.k = "Integer" -> Integer(0 - v.i)
    [] op = "~" /\ v.k = "Integer" -> Integer(0 - v.i - 1)
    [] OTHER -> Error

BinaryOp(op, a, b) ==
  CASE Fails(a) -> a
    [] ~Fails(a) /\ Fails(b) -> b
    [] op \in CompareOps -> Compare(op, a, b)
    [] op \in {"and", "or"} ->
         IF OfKind("Boolean", a, b) THEN Boolean(IF op = "and" THEN a.b /\ b.b ELSE a.b \/ b.b) ELSE Error
    [] op \notin CompareOps \cup {"and", "or"} ->
         CASE OfKind("Integer", a, b) -> IntegerOp(op, a.i, b.i)
           [] OfKind("String", a, b) /\ op = "+" -> Str(a.s \o b.s)
           [] OTHER -> Error

Element(a, i) ==
  CASE Fails(i) -> i
    [] ~Fails(i) /\ i.k # "Integer" -> Error
    [] i.k = "Integer" /\ a.k = "Array" -> IF i.i \in 0 .. Len(a.items) - 1 THEN a.items[i.i + 1] ELSE Error
    [] i.k = "Integer" /\ a.k = "ByteArray" -> IF i.i \in 0 .. Len(a.y) - 1 THEN Integer(a.y[i.i + 1]) ELSE Error
    [] OTHER -> Error

\* evalNode; a cast only changes the type, and the operand an and, an or or a
\* conditional does not need is never evaluated.
RECURSIVE EvalNode(_, _, _)
EvalNode(n, env, compat) ==
  LET V(x) == EvalNode(x, env, compat) IN
  CASE n.k = "id"   -> IF n.name \in DOMAIN env THEN env[n.name] ELSE Error
    [] n.k = "int"  -> Integer(n.int)
    [] n.k = "bool" -> Boolean(n.bool)
    [] n.k = "str"  -> Str(n.str)
    [] n.k = "arr"  -> LET vs == [i \in DOMAIN n.items |-> V(n.items[i])]
                           bad == {i \in DOMAIN vs : Fails(vs[i]) \/ vs[i].k # vs[1].k} IN
                       IF bad = {} THEN Array(vs) ELSE IF Fails(vs[Min(bad)]) THEN vs[Min(bad)] ELSE Error
    [] n.k = "mem"  -> LET a == V(n.a) IN IF Fails(a) THEN a ELSE Invoke(a, n.prop)
    [] n.k = "sub"  -> LET a == V(n.a) IN IF Fails(a) THEN a ELSE Element(a, V(n.b))
    [] n.k = "cast" -> V(n.a)
    [] n.k = "un"   -> UnaryOp(n.op, V(n.a))
    [] n.k = "tern" -> LET c == V(n.a) IN
                       IF Fails(c) THEN c ELSE IF c.k # "Boolean" THEN Error ELSE IF c.b THEN V(n.b) ELSE V(n.c)
    [] n.k = "bin"  -> LET a == V(n.a) IN
                       CASE Fails(a) -> a
                         [] a.k = "Boolean" /\ n.op = "and" /\ ~a.b -> Boolean(FALSE)
                         [] a.k = "Boolean" /\ n.op = "or" /\ a.b -> Boolean(TRUE)
                         [] OTHER -> Truncated(compat, BinaryOp(n.op, a, V(n.b)))
    [] OTHER -> Error
=============================================================================
