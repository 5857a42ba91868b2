------------------------------ MODULE MCCodec ------------------------------
(***************************************************************************)
(* The formats of the run Codec: every attribute alone, and followed by    *)
(* bit fields or by the bytes left, over files of up to three bytes.  A    *)
(* byte has three bits; 0 terminates and 1 pads.                           *)
(***************************************************************************)
EXTENDS CodecPipeline

\* An attribute, and its keys.
Of(type) == [Attr0 EXCEPT !.type = type]
Bits(width, le) == [Of("Bits") EXCEPT !.width = width, !.le = le, !.metaLe = le]
OfSize(a, n) == [a EXCEPT !.size = n]
ToEnd(a) == [a EXCEPT !.eos = TRUE]
UpTo(a, include, consume, eosError) ==
  [a EXCEPT !.term = 0, !.include = include, !.consume = consume, !.eosError = eosError]
Padded(a) == [a EXCEPT !.pad = 1]
By(a, p) == [a EXCEPT !.process = p]
User(body) == [Of("User") EXCEPT !.body = body]
Expr(a, n) == [a EXCEPT !.repeat = "expr", !.count = n]
Eos(a) == [a EXCEPT !.repeat = "eos"]
Until(a, n) == [a EXCEPT !.repeat = "until", !.count = n]
Only(a, v) == [a EXCEPT !.must = << v >>]
If(a, c) == [a EXCEPT !.when = c]
Switch(on, cases) == [Of("Switch") EXCEPT !.on = on, !.cases = cases]
Case(v, ref) == [value |-> v, ref |-> ref]

\* Numbers, runs of bits, and bytes and strings of every extent.
Plain == { Of("U1"), Of("S1"), Of("U2le"), Of("S2be"), Only(Of("U1"), Number(1)) }
BitFields == { Bits(w, le) : w \in {1, 2, 4}, le \in BOOLEAN }
Extents(t) == { OfSize(Of(t), 2), ToEnd(Of(t)) }
Stripping(as) == as \cup { UpTo(a, i, TRUE, "unset") : a \in as, i \in BOOLEAN } \cup { Padded(a) : a \in as }
                    \cup { Padded(UpTo(a, FALSE, TRUE, "unset")) : a \in as }
Ended(a, es) == { UpTo(a, FALSE, TRUE, e) : e \in es } \cup { UpTo(a, FALSE, FALSE, e) : e \in es } \cup { UpTo(a, TRUE, TRUE, e) : e \in es }
Processed(as) == as \cup { By(a, p) : a \in as, p \in {"xor", "rol"} }
ByteFields == UNION { Processed(Stripping(Extents(t)) \cup Ended(Of(t), {"unset", "no"})) : t \in {"Bytes", "String"} }
               \cup { Only(OfSize(Of("Bytes"), 1), <<1>>) }

Sealed(as) == as \cup { By(a, "xor") : a \in as }
\* Objects of a byte or of two bits, of every extent.
Bodies == { << Of("U1") >>, << Bits(2, FALSE) >> }
Users == UNION { { User(b) } \cup Sealed(Stripping({ OfSize(User(b), 2) }) \cup { ToEnd(User(b)) } \cup
   Ended(User(b), {"unset", "yes", "no"})) : b \in Bodies }

\* Repetitions, and attributes with a condition.
Repeated(as) == { Expr(a, 2) : a \in as } \cup { Eos(a) : a \in as }
ByteElements == Sealed(Stripping({ OfSize(Of("Bytes"), 1) }))
Elements1 == { Of("U1"), Of("U2le"), Bits(1, FALSE), Bits(2, TRUE) } \cup { User(b) : b \in Bodies }
             \cup ByteElements \cup Sealed(Stripping({ OfSize(User(<< Of("U1") >>), 1) }))
             \cup Sealed(Ended(Of("String"), {"unset"})) \cup Sealed(Ended(User(<< Of("U1") >>), {"yes"}))
             \cup { Only(Of("U1"), Number(1)) }
Untils == { Until(a, 1) : a \in { Of("U1"), Bits(2, TRUE) } } \cup { Until(a, 1) : a \in ByteElements }
Conditional == { If(a, c) : a \in { Of("U1"), Bits(2, FALSE), OfSize(User(<< Of("U1") >>), 2) }, c \in {"true", "false"} }

\* Switches on a constant or on the index: of numbers and of objects, of one type and
\* of several, with and without a default, a size, or the case looked for.
Object1(type) == User(<< Of(type) >>)
CaseLists == { << Case(1, Of("U1")) >>, << Case(1, Of("U1")), Case(-1, Of("U2le")) >>,
               << Case(2, Of("U1")), Case(-1, Of("U2le")) >>, << Case(2, Of("U1")), Case(3, Of("U2le")) >>,
               << Case(1, Object1("U1")) >>, << Case(2, Object1("U1")) >>, << Case(1, Object1("U1")), Case(0, Object1("U2le")) >>,
               << Case(2, Object1("U1")), Case(3, Object1("U2le")) >>, << Case(1, Object1("U1")), Case(-1, Of("U2le")) >> }
Switches == { Switch(1, c) : c \in CaseLists } \cup { OfSize(Switch(1, c), 2) : c \in CaseLists }
SwitchesOnIndex == { Switch(-1, c) : c \in CaseLists } \cup { OfSize(Switch(-1, c), 1) : c \in CaseLists }

MCAttributes ==
  << Plain \cup BitFields \cup ByteFields \cup Users \cup Repeated(Elements1 \cup SwitchesOnIndex)
       \cup Untils \cup Conditional \cup Switches,
     { Bits(2, FALSE), ToEnd(Of("Bytes")) } >>
=============================================================================
