------------------------------- MODULE Kinds -------------------------------
(***************************************************************************)
(* The primitive kinds of kaitai/types, the promotion rule the engine and  *)
(* the emitters share, and the integers a kind holds.  A byte has ByteBits *)
(* bits: 8 in the code, fewer in the checked instances, so that every      *)
(* boundary of every width stays within reach.                             *)
(***************************************************************************)
EXTENDS Integers, Sequences

CONSTANT ByteBits
ASSUME ByteBitsAssumption == ByteBits \in Nat \ {0}

\* types.Kind, in the order of its iota: promotion compares and adds ranks.
KindOrder == << "U1", "U2", "U2le", "U2be", "U4", "U4le", "U4be", "U8", "U8le", "U8be",
                "S1", "S2", "S2le", "S2be", "S4", "S4le", "S4be", "S8", "S8le", "S8be",
                "Bits", "F4", "F4le", "F4be", "F8", "F8le", "F8be",
                "Bytes", "String", "User", "UntypedInt", "UntypedFloat", "UntypedBool" >>
AllKinds == { KindOrder[i] : i \in DOMAIN KindOrder }
Rank == [k \in AllKinds |-> CHOOSE i \in DOMAIN KindOrder : KindOrder[i] = k]

Unsigned == {"U1", "U2", "U2le", "U2be", "U4", "U4le", "U4be", "U8", "U8le", "U8be"}
Signed   == {"S1", "S2", "S2le", "S2be", "S4", "S4le", "S4be", "S8", "S8le", "S8be"}
Floats   == {"F4", "F4le", "F4be", "F8", "F8le", "F8be"}
Untyped  == {"UntypedInt", "UntypedFloat"}
IntKinds == Unsigned \cup Signed \cup {"UntypedInt"}

\* The kind without its byte order, the bytes it takes, its place in its group.
Base == [k \in AllKinds |->
           CASE k \in {"U2le", "U2be"} -> "U2" [] k \in {"U4le", "U4be"} -> "U4" [] k \in {"U8le", "U8be"} -> "U8"
             [] k \in {"S2le", "S2be"} -> "S2" [] k \in {"S4le", "S4be"} -> "S4" [] k \in {"S8le", "S8be"} -> "S8"
             [] k \in {"F4le", "F4be"} -> "F4" [] k \in {"F8le", "F8be"} -> "F8" [] OTHER -> k]
ByteSize == [k \in AllKinds |->
           CASE k \in {"U1", "S1"} -> 1
             [] k \in {"U2", "U2le", "U2be", "S2", "S2le", "S2be"} -> 2
             [] k \in {"U4", "U4le", "U4be", "S4", "S4le", "S4be", "F4", "F4le", "F4be"} -> 4
             [] OTHER -> 8]
ByteOrder(k) == Rank[k] - Rank[Base[k]]      \* 0 undecided, 1 little, 2 big

\* Kind.Promote.  It expects k to rank no higher than k2: an unsigned kind
\* beside another group becomes the signed kind of its width, then the wider
\* kind of a group wins and keeps the narrower one's byte order.
ToSigned(k, k2) == IF k \in Unsigned /\ k2 \in Signed \cup Floats \cup Untyped
                   THEN KindOrder[Rank[k] + Rank["S1"] - Rank["U1"]] ELSE k
SameGroup(k, k2) == {k, k2} \subseteq Unsigned \/ {k, k2} \subseteq Signed \/ {k, k2} \subseteq Floats
PromoteSigned(k, k2) ==
  CASE (SameGroup(k, k2) /\ ByteSize[k] < ByteSize[k2]) \/ (k \in Signed /\ k2 \in Floats) ->
         KindOrder[Rank[Base[k2]] + ByteOrder(k)]
    [] k \in Signed /\ k2 \in Untyped -> k2
    [] OTHER -> k
Promote(k, k2) == IF k = "UntypedInt" /\ k2 = "UntypedFloat" THEN k2 ELSE PromoteSigned(ToSigned(k, k2), k2)

\* What the callers of Promote do first: the lower rank goes left.
PromotePair(a, b) == Promote(IF Rank[a] > Rank[b] THEN b ELSE a, IF Rank[a] > Rank[b] THEN a ELSE b)

\* The integers of a width, and the conversion to it.
Width(k) == ByteSize[k] * ByteBits
LoOf(signed, w) == IF signed THEN 0 - 2^(w - 1) ELSE 0
HiOf(signed, w) == IF signed THEN 2^(w - 1) - 1 ELSE 2^w - 1
WrapTo(signed, w, n) == IF signed THEN ((n + 2^(w - 1)) % 2^w) - 2^(w - 1) ELSE n % 2^w
IsSigned(k) == k \notin Unsigned
Fits(n, k) == n >= LoOf(IsSigned(k), Width(k)) /\ n <= HiOf(IsSigned(k), Width(k))
Wrap(n, k) == WrapTo(IsSigned(k), Width(k), n)

\* The / and % of Go and of C: towards zero, the remainder has a's sign.
Magnitude(n) == IF n < 0 THEN 0 - n ELSE n
OppositeSigns(a, b) == (a < 0) # (b < 0)
Quo(a, b) == LET q == Magnitude(a) \div Magnitude(b) IN IF OppositeSigns(a, b) THEN 0 - q ELSE q
Rem(a, b) == a - b * Quo(a, b)
=============================================================================
