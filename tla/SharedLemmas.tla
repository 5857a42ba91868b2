---------------------------- MODULE SharedLemmas ----------------------------
(***************************************************************************)
(* Lemmas that the proofs of several components cite: which elements the   *)
(* operators of ByteEdits leave where (web/src/buffer/pieceTable.ts:       *)
(* 142-203), and functions defined by recursion over numbers.              *)
(***************************************************************************)
EXTENDS ByteEdits, SequenceTheorems, FiniteSetTheorems, WellFoundedInduction, TLAPS


\* A part of a sequence, by its elements.
LEMMA Slice ==
    ASSUME NEW S, NEW s \in Seq(S), NEW m \in 1 .. Len(s) + 1, NEW n \in m - 1 .. Len(s)
    PROVE  /\ SubSeq(s, m, n) \in Seq(S) /\ Len(SubSeq(s, m, n)) = n - m + 1
           /\ \A i \in 1 .. n - m + 1 : SubSeq(s, m, n)[i] = s[m + i - 1]
<1>1. \A i \in m .. n : s[i] \in S
  OBVIOUS
<1>2. Len(s) \in Nat
  OBVIOUS
<1> QED
  BY <1>1, <1>2, SubSeqProperties

\* Two sequences one after the other, by their elements.
LEMMA Joined ==
    ASSUME NEW S, NEW a \in Seq(S), NEW b \in Seq(S), NEW r, r = a \o b
    PROVE  /\ r \in Seq(S) /\ Len(r) = Len(a) + Len(b)
           /\ \A i \in 1 .. Len(a) : r[i] = a[i]
           /\ \A i \in 1 .. Len(b) : r[Len(a) + i] = b[i]
<1>1. Len(a) \in Nat /\ Len(b) \in Nat
  OBVIOUS
<1>2. /\ r \in Seq(S) /\ Len(r) = Len(a) + Len(b)
      /\ \A i \in 1 .. Len(a) + Len(b) : r[i] = IF i <= Len(a) THEN a[i] ELSE b[i - Len(a)]
  BY ConcatProperties
<1>3. ASSUME NEW i \in 1 .. Len(b)
      PROVE  r[Len(a) + i] = b[i]
  <2>1. Len(a) + i \in 1 .. Len(a) + Len(b) /\ ~(Len(a) + i <= Len(a)) /\ Len(a) + i - Len(a) = i
    BY <1>1
  <2> QED
    BY <1>2, <2>1
<1>4. ASSUME NEW i \in 1 .. Len(a)
      PROVE  r[i] = a[i]
  BY <1>1, <1>2
<1> QED
  BY <1>2, <1>3, <1>4

\* What three parts in a row hold: the bytes in front, the new ones, those behind.
Spliced(r, s, new, o, n) ==
    /\ Len(r) = o + Len(new) + (Len(s) - n)
    /\ \A i \in 1 .. o : r[i] = s[i]
    /\ \A i \in 1 .. Len(new) : r[o + i] = new[i]
    /\ \A i \in 1 .. Len(s) - n : r[o + Len(new) + i] = s[n + i]

LEMMA SpliceOfParts ==
    ASSUME NEW S, NEW s \in Seq(S), NEW new \in Seq(S),
           NEW o \in 0 .. Len(s), NEW n \in o .. Len(s)
    PROVE  LET r == SubSeq(s, 1, o) \o new \o SubSeq(s, n + 1, Len(s)) IN
           r \in Seq(S) /\ Spliced(r, s, new, o, n)
<1> DEFINE a == SubSeq(s, 1, o)  c == SubSeq(s, n + 1, Len(s))  ab == a \o new
<1>0. Len(s) \in Nat /\ Len(new) \in Nat /\ o \in Nat /\ n \in Nat
  OBVIOUS
<1>1. /\ a \in Seq(S) /\ Len(a) = o /\ \A i \in 1 .. o : a[i] = s[i]
      /\ c \in Seq(S) /\ Len(c) = Len(s) - n /\ \A i \in 1 .. Len(s) - n : c[i] = s[n + i]
  <2>1. 1 \in 1 .. Len(s) + 1 /\ o \in 1 - 1 .. Len(s) /\ n + 1 \in 1 .. Len(s) + 1
        /\ Len(s) \in (n + 1) - 1 .. Len(s) /\ o - 1 + 1 = o /\ Len(s) - (n + 1) + 1 = Len(s) - n
    BY <1>0
  <2>2. a \in Seq(S) /\ Len(a) = o /\ \A i \in 1 .. o : a[i] = s[1 + i - 1]
    BY <2>1, Slice
  <2>3. /\ c \in Seq(S) /\ Len(c) = Len(s) - (n + 1) + 1
        /\ \A i \in 1 .. Len(s) - (n + 1) + 1 : c[i] = s[n + 1 + i - 1]
    BY <2>1, Slice
  <2> HIDE DEF a, c
  <2>4. \A i \in 1 .. o : a[i] = s[i]
    <3> TAKE i \in 1 .. o
    <3>1. 1 + i - 1 = i
      OBVIOUS
    <3> QED
      BY <2>2, <3>1
  <2>5. \A i \in 1 .. Len(s) - n : c[i] = s[n + i]
    <3> TAKE i \in 1 .. Len(s) - n
    <3>1. n + 1 + i - 1 = n + i /\ i \in 1 .. Len(s) - (n + 1) + 1
      BY <1>0
    <3> QED
      BY <2>3, <3>1
  <2> QED
    BY <1>0, <2>1, <2>2, <2>3, <2>4, <2>5
<1> HIDE DEF a, c
<1>2. ab \in Seq(S) /\ Len(ab) = o + Len(new)
      /\ (\A i \in 1 .. o : ab[i] = a[i]) /\ \A i \in 1 .. Len(new) : ab[o + i] = new[i]
  <2>1. /\ ab \in Seq(S) /\ Len(ab) = Len(a) + Len(new)
        /\ \A i \in 1 .. Len(a) : ab[i] = a[i]
        /\ \A i \in 1 .. Len(new) : ab[Len(a) + i] = new[i]
    <3>1. a \in Seq(S) /\ new \in Seq(S) /\ ab = a \o new
      BY <1>1
    <3> HIDE DEF ab
    <3> QED
      BY <3>1, Joined
  <2> HIDE DEF ab
  <2> QED
    BY <1>0, <1>1, <2>1
<1> HIDE DEF ab
<1>3. ab \o c \in Seq(S) /\ Len(ab \o c) = o + Len(new) + (Len(s) - n)
      /\ (\A i \in 1 .. o + Len(new) : (ab \o c)[i] = ab[i])
      /\ \A i \in 1 .. Len(s) - n : (ab \o c)[o + Len(new) + i] = c[i]
  <2> DEFINE r == ab \o c
  <2>1. /\ r \in Seq(S) /\ Len(r) = Len(ab) + Len(c)
        /\ \A i \in 1 .. Len(ab) : r[i] = ab[i]
        /\ \A i \in 1 .. Len(c) : r[Len(ab) + i] = c[i]
    <3>1. ab \in Seq(S) /\ c \in Seq(S) /\ r = ab \o c
      BY <1>1, <1>2
    <3> HIDE DEF r
    <3> QED
      BY <3>1, Joined
  <2> HIDE DEF r
  <2>2. /\ r \in Seq(S) /\ Len(r) = o + Len(new) + (Len(s) - n)
        /\ (\A i \in 1 .. o + Len(new) : r[i] = ab[i])
        /\ \A i \in 1 .. Len(s) - n : r[o + Len(new) + i] = c[i]
    BY <1>0, <1>1, <1>2, <2>1
  <2> QED
    BY <2>2 DEF r
<1>4. \A i \in 1 .. o : (ab \o c)[i] = s[i]
  BY <1>0, <1>1, <1>2, <1>3
<1>5. \A i \in 1 .. Len(new) : (ab \o c)[o + i] = new[i]
  <2> TAKE i \in 1 .. Len(new)
  <2>1. o + i \in 1 .. o + Len(new)
    BY <1>0
  <2> QED
    BY <2>1, <1>2, <1>3
<1>6. \A i \in 1 .. Len(s) - n : (ab \o c)[o + Len(new) + i] = s[n + i]
  BY <1>1, <1>3
<1>7. ab \o c \in Seq(S) /\ Spliced(ab \o c, s, new, o, n)
  BY <1>3, <1>4, <1>5, <1>6 DEF Spliced
<1> QED
  BY <1>7 DEF ab, a, c

\* The bytes after an insertion, a deletion, an overwriting with one byte.
LEMMA InsertedBytes ==
    ASSUME NEW S, NEW s \in Seq(S), NEW new \in Seq(S), NEW o \in 0 .. Len(s)
    PROVE  Inserted(s, o, new) \in Seq(S) /\ Spliced(Inserted(s, o, new), s, new, o, o)
<1>1. o \in o .. Len(s)
  OBVIOUS
<1> QED
  BY <1>1, SpliceOfParts DEF Inserted

LEMMA DeletedBytes ==
    ASSUME NEW S, NEW s \in Seq(S), NEW o \in Nat, NEW count \in Nat, o + count <= Len(s)
    PROVE  Deleted(s, o, count) \in Seq(S) /\ Spliced(Deleted(s, o, count), s, <<>>, o, o + count)
<1>1. o \in 0 .. Len(s) /\ o + count \in o .. Len(s) /\ <<>> \in Seq(S)
  OBVIOUS
<1>2. SubSeq(s, 1, o) \in Seq(S)
  <2>1. 1 \in 1 .. Len(s) + 1 /\ o \in 1 - 1 .. Len(s)
    BY <1>1
  <2> QED
    BY <2>1, Slice
<1>3. SubSeq(s, 1, o) \o <<>> = SubSeq(s, 1, o)
  BY <1>2, ConcatEmptySeq
<1>4. LET r == SubSeq(s, 1, o) \o <<>> \o SubSeq(s, o + count + 1, Len(s)) IN
      r \in Seq(S) /\ Spliced(r, s, <<>>, o, o + count)
  BY <1>1, SpliceOfParts
<1> QED
  BY <1>3, <1>4 DEF Deleted

LEMMA OverwrittenByte ==
    ASSUME NEW S, NEW s \in Seq(S), NEW x \in S, NEW o \in 0 .. Len(s)
    PROVE  /\ Overwritten(s, o, <<x>>) \in Seq(S)
           /\ Spliced(Overwritten(s, o, <<x>>), s, <<x>>, o, IF o = Len(s) THEN o ELSE o + 1)
<1>1. <<x>> \in Seq(S) /\ Len(<<x>>) = 1 /\ Len(s) \in Nat
  OBVIOUS
<1>2. CASE o = Len(s)
  <2>1. SubSeq(s, o + 1 + 1, Len(s)) = <<>> /\ SubSeq(s, o + 1, Len(s)) = <<>>
    BY <1>1, <1>2, SubSeqEmpty
  <2>2. o \in o .. Len(s)
    BY <1>2
  <2> QED
    BY <1>1, <1>2, <2>1, <2>2, SpliceOfParts DEF Overwritten
<1>3. CASE o # Len(s)
  <2>1. o + 1 \in o .. Len(s) /\ o + 1 + 1 = o + 1 + 1
    BY <1>1, <1>3
  <2> QED
    BY <1>1, <1>3, <2>1, SpliceOfParts DEF Overwritten
<1> QED
  BY <1>2, <1>3

\* Sequences that agree in their first elements, and in their last.
LEMMA SameFront ==
    ASSUME NEW S, NEW s \in Seq(S), NEW t \in Seq(S), NEW n \in Nat, n <= Len(s), n <= Len(t),
           \A i \in 1 .. n : t[i] = s[i]
    PROVE  SubSeq(t, 1, n) = SubSeq(s, 1, n)
<1>1. 1 \in 1 .. Len(s) + 1 /\ n \in 1 - 1 .. Len(s) /\ 1 \in 1 .. Len(t) + 1 /\ n \in 1 - 1 .. Len(t)
      /\ n - 1 + 1 = n
  OBVIOUS
<1>2. /\ SubSeq(t, 1, n) \in Seq(S) /\ Len(SubSeq(t, 1, n)) = n
      /\ \A i \in 1 .. n : SubSeq(t, 1, n)[i] = t[1 + i - 1]
  BY <1>1, Slice
<1>3. /\ SubSeq(s, 1, n) \in Seq(S) /\ Len(SubSeq(s, 1, n)) = n
      /\ \A i \in 1 .. n : SubSeq(s, 1, n)[i] = s[1 + i - 1]
  BY <1>1, Slice
<1>4. \A i \in 1 .. n : SubSeq(t, 1, n)[i] = SubSeq(s, 1, n)[i]
  <2> TAKE i \in 1 .. n
  <2>1. 1 + i - 1 = i
    OBVIOUS
  <2> QED
    BY <2>1, <1>2, <1>3
<1> QED
  BY <1>2, <1>3, <1>4, SeqEqual

LEMMA SameBack ==
    ASSUME NEW S, NEW s \in Seq(S), NEW t \in Seq(S), NEW n \in Nat, n <= Len(s), n <= Len(t),
           \A i \in 1 .. n : t[Len(t) - n + i] = s[Len(s) - n + i]
    PROVE  SubSeq(t, Len(t) - n + 1, Len(t)) = SubSeq(s, Len(s) - n + 1, Len(s))
<1> DEFINE u == SubSeq(t, Len(t) - n + 1, Len(t))  v == SubSeq(s, Len(s) - n + 1, Len(s))
<1>0. Len(s) \in Nat /\ Len(t) \in Nat
  OBVIOUS
<1>1. u \in Seq(S) /\ Len(u) = n /\ \A i \in 1 .. n : u[i] = t[Len(t) - n + 1 + i - 1]
  <2>1. Len(t) - n + 1 \in 1 .. Len(t) + 1 /\ Len(t) \in Len(t) - n + 1 - 1 .. Len(t)
        /\ Len(t) - (Len(t) - n + 1) + 1 = n
    BY <1>0
  <2> QED
    BY <2>1, Slice
<1>2. v \in Seq(S) /\ Len(v) = n /\ \A i \in 1 .. n : v[i] = s[Len(s) - n + 1 + i - 1]
  <2>1. Len(s) - n + 1 \in 1 .. Len(s) + 1 /\ Len(s) \in Len(s) - n + 1 - 1 .. Len(s)
        /\ Len(s) - (Len(s) - n + 1) + 1 = n
    BY <1>0
  <2> QED
    BY <2>1, Slice
<1> HIDE DEF u, v
<1>3. \A i \in 1 .. n : u[i] = v[i]
  <2> TAKE i \in 1 .. n
  <2>1. Len(t) - n + 1 + i - 1 = Len(t) - n + i /\ Len(s) - n + 1 + i - 1 = Len(s) - n + i
    BY <1>0
  <2> QED
    BY <2>1, <1>1, <1>2
<1>4. u = v
  BY <1>1, <1>2, <1>3, SeqEqual
<1> QED
  BY <1>4 DEF u, v

-----------------------------------------------------------------------------
(* Recursion over numbers.                                                 *)


\* A set of numbers with 0 and every successor is all of Nat: induction, from
\* the least number that a set lacks.
LEMMA NatSets ==
    ASSUME NEW T, T \subseteq Nat, 0 \in T, \A n \in T : n + 1 \in T
    PROVE  T = Nat
<1> SUFFICES ASSUME Nat \ T # {}
             PROVE  FALSE
  OBVIOUS
<1>1. PICK x \in Nat \ T : \A y \in Nat \ T : ~ (<<y, x>> \in OpToRel(<, Nat))
  BY NatLessThanWellFounded, WFMin
<1>2. \A y \in Nat \ T : ~(y < x)
  BY <1>1 DEF OpToRel
<1>3. x # 0 /\ x - 1 \in Nat /\ x - 1 < x
  OBVIOUS
<1>4. x - 1 \in T
  BY <1>2, <1>3
<1> QED
  BY <1>3, <1>4

\* The values f[0], f[1], ... up to n, each by a step from the one before.
Iteration(V, base, n, step) == base \in V /\ n \in Nat /\ \A k \in 1 .. n : step[k] \in [V -> V]
Iterates(f, V, base, n, step) ==
    f \in [0 .. n -> V] /\ f[0] = base /\ \A k \in 1 .. n : f[k] = step[k][f[k - 1]]

\* There is such an f, whatever the steps.
LEMMA Recursion ==
    ASSUME NEW V, NEW base, NEW n, NEW step, Iteration(V, base, n, step)
    PROVE  \E f : Iterates(f, V, base, n, step)
<1>0. base \in V /\ n \in Nat /\ \A k \in 1 .. n : step[k] \in [V -> V]
  BY DEF Iteration
<1> DEFINE Upto(f, m) == f \in [0 .. m -> V] /\ f[0] = base /\ \A k \in 1 .. m : f[k] = step[k][f[k - 1]]
           T == {m \in Nat : m <= n => \E f : Upto(f, m)}
<1>1. 0 \in T
  <2> DEFINE f == [k \in 0 .. 0 |-> base]
  <2>1. Upto(f, 0)
    BY <1>0
  <2> QED
    BY <2>1
<1>2. ASSUME NEW m \in T
      PROVE  m + 1 \in T
  <2> HIDE DEF Upto
  <2> SUFFICES ASSUME m + 1 <= n
               PROVE  \E f : Upto(f, m + 1)
    OBVIOUS
  <2>0. m \in Nat /\ m + 1 \in 1 .. n /\ m <= n
    BY <1>0
  <2>1. PICK g : Upto(g, m)
    BY <2>0
  <2> USE DEF Upto
  <2>2. g[m] \in V /\ step[m + 1][g[m]] \in V
    BY <1>0, <2>0, <2>1
  <2> DEFINE f == [k \in 0 .. m + 1 |-> IF k = m + 1 THEN step[m + 1][g[m]] ELSE g[k]]
  <2>3. f \in [0 .. m + 1 -> V]
    BY <2>0, <2>1, <2>2
  <2>4. f[0] = base
    BY <2>0, <2>1
  <2>5. ASSUME NEW k \in 1 .. m + 1
        PROVE  f[k] = step[k][f[k - 1]]
    <3>1. CASE k = m + 1
      <4>1. f[k - 1] = g[m]
        BY <2>0, <3>1
      <4> QED
        BY <2>0, <3>1, <4>1
    <3>2. CASE k # m + 1
      <4>1. k \in 1 .. m /\ f[k] = g[k] /\ f[k - 1] = g[k - 1]
        BY <2>0, <3>2
      <4> QED
        BY <2>1, <4>1
    <3> QED
      BY <3>1, <3>2
  <2> QED
    BY <2>3, <2>4, <2>5
<1> HIDE DEF T
<1>3. T = Nat
  <2>1. T \subseteq Nat
    BY DEF T
  <2> QED
    BY <1>1, <1>2, <2>1, NatSets
<1>4. \E f : Upto(f, n)
  <2>1. n \in T /\ n <= n
    BY <1>0, <1>3
  <2> QED
    BY <2>1 DEF T
<1> QED
  BY <1>4 DEF Iterates

\* Two such functions, of the same steps, have the same values.
Alike(f, g, n) == n \in Nat /\ f[0] = g[0] /\ \A k \in 1 .. n : f[k - 1] = g[k - 1] => f[k] = g[k]

LEMMA RecursionOnce ==
    ASSUME NEW n, NEW f, NEW g, Alike(f, g, n)
    PROVE  \A k \in 0 .. n : f[k] = g[k]
<1>0. n \in Nat /\ f[0] = g[0] /\ \A k \in 1 .. n : f[k - 1] = g[k - 1] => f[k] = g[k]
  BY DEF Alike
<1> DEFINE T == {k \in Nat : k <= n => f[k] = g[k]}
<1>1. 0 \in T
  BY <1>0
<1>2. ASSUME NEW k \in T
      PROVE  k + 1 \in T
  <2> SUFFICES ASSUME k + 1 <= n
               PROVE  f[k + 1] = g[k + 1]
    OBVIOUS
  <2>1. k + 1 \in 1 .. n /\ f[k] = g[k] /\ (k + 1) - 1 = k
    BY <1>0
  <2> QED
    BY <1>0, <2>1
<1> HIDE DEF T
<1>3. T = Nat
  <2>1. T \subseteq Nat
    BY DEF T
  <2> QED
    BY <1>1, <1>2, <2>1, NatSets
<1> QED
  BY <1>0, <1>3 DEF T

\* Among sets of elements of a finite set there is a least one.
LEMMA LeastSet ==
    ASSUME NEW S, IsFiniteSet(S), NEW B, B \subseteq SUBSET S, B # {}
    PROVE  \E x \in B : \A y \in B : y \subseteq x => y = x
<1>1. FiniteSubsetsOf(S) = SUBSET S
  BY FS_FiniteSubsetsOfFinite
<1>2. IsWellFoundedOn(StrictSubsetOrdering(S), SUBSET S)
  BY <1>1, FS_StrictSubsetOrderingWellFounded
<1>3. PICK x \in B : \A y \in B : ~ (<<y, x>> \in StrictSubsetOrdering(S))
  BY <1>2, WFMin
<1>4. ASSUME NEW y \in B, y \subseteq x
      PROVE  y = x
  BY <1>3, <1>4 DEF StrictSubsetOrdering
<1> QED
  BY <1>4

\* A set of equations, step, for the values at the points of D: the value at a
\* point rests on those at points with a smaller span.
Ranked(D, R, S, span, step) ==
    /\ IsFiniteSet(S) /\ R # {} /\ span \in [D -> SUBSET S]
    /\ step \in [[D -> R] -> [D -> R]]
    /\ \A f, g \in [D -> R], at \in D :
         (\A b \in D : span[b] \subseteq span[at] /\ span[b] # span[at] => f[b] = g[b])
            => step[f][at] = step[g][at]

\* It has a solution.
LEMMA RankedRecursion ==
    ASSUME NEW D, NEW R, NEW S, NEW span, NEW step, Ranked(D, R, S, span, step)
    PROVE  \E f \in [D -> R] : f = step[f]
<1> DEFINE V == [D -> R]
           n == Cardinality(S) + 2
           steps == [k \in 1 .. n |-> step]
           Rank(at) == Cardinality(span[at])
<1>1. PICK r \in R : TRUE
  BY DEF Ranked
<1>2. [at \in D |-> r] \in V
  OBVIOUS
<1>3. Cardinality(S) \in Nat /\ \A at \in D : Rank(at) \in Nat /\ Rank(at) <= Cardinality(S)
  BY FS_CardinalityType, FS_Subset DEF Ranked
<1>4. Iteration(V, [at \in D |-> r], n, steps)
  BY <1>2, <1>3 DEF Iteration, Ranked
<1>5. PICK f : Iterates(f, V, [at \in D |-> r], n, steps)
  <2> HIDE DEF V, n, steps
  <2> QED
    BY <1>4, Recursion
<1>6. f \in [0 .. n -> V] /\ \A k \in 1 .. n : f[k] = step[f[k - 1]]
  BY <1>5 DEF Iterates
<1> DEFINE T == {k \in Nat : k < n => \A at \in D : Rank(at) < k => f[k + 1][at] = f[k][at]}
<1>7. 0 \in T
  BY <1>3
<1>8. ASSUME NEW k \in T
      PROVE  k + 1 \in T
  <2> SUFFICES ASSUME k + 1 < n, NEW at \in D, Rank(at) < k + 1
               PROVE  f[k + 1 + 1][at] = f[k + 1][at]
    OBVIOUS
  <2>1. k \in 0 .. n /\ k + 1 \in 1 .. n /\ k + 1 + 1 \in 1 .. n /\ k < n /\ n \in Nat
    BY <1>3
  <2>2. f[k + 1 + 1] = step[f[k + 1]] /\ f[k + 1] = step[f[k]]
    <3>1. (k + 1) - 1 = k /\ (k + 1 + 1) - 1 = k + 1
      OBVIOUS
    <3> QED
      BY <1>6, <2>1, <3>1
  <2>3. f[k + 1] \in V /\ f[k] \in V
    BY <1>6, <2>1
  <2>4. ASSUME NEW b \in D, span[b] \subseteq span[at], span[b] # span[at]
        PROVE  f[k + 1][b] = f[k][b]
    <3>1. IsFiniteSet(span[at]) /\ span[b] \in SUBSET span[at]
      BY <2>4, FS_Subset DEF Ranked
    <3>2. Rank(b) <= Rank(at) /\ Rank(b) # Rank(at)
      BY <2>4, <3>1, FS_Subset
    <3>3. Rank(b) < k
      <4> HIDE DEF Rank
      <4> QED
        BY <1>3, <3>2
    <3> QED
      BY <2>1, <3>3
  <2>5. \A g, h \in V : (\A b \in D : span[b] \subseteq span[at] /\ span[b] # span[at] => g[b] = h[b])
                         => step[g][at] = step[h][at]
    BY DEF Ranked
  <2>6. step[f[k + 1]][at] = step[f[k]][at]
    <3> HIDE DEF Rank, T, n, V
    <3> QED
      BY <2>3, <2>4, <2>5
  <2> QED
    BY <2>2, <2>6
<1> HIDE DEF T
<1>9. T = Nat
  <2>1. T \subseteq Nat
    BY DEF T
  <2> QED
    BY <1>7, <1>8, <2>1, NatSets
<1> DEFINE m == Cardinality(S) + 1
<1>10. m \in T /\ m < n /\ m \in 0 .. n /\ m + 1 \in 1 .. n /\ (m + 1) - 1 = m
  BY <1>3, <1>9
<1>11. \A at \in D : Rank(at) < m
  <2> HIDE DEF Rank
  <2> QED
    BY <1>3
<1>12. f[m + 1] = step[f[m]] /\ f[m] \in V
  <2> HIDE DEF m, n
  <2> QED
    BY <1>6, <1>10
<1>13. step[f[m]] \in V
  BY <1>12 DEF Ranked
<1>14. \A at \in D : step[f[m]][at] = f[m][at]
  <2> HIDE DEF m, n, Rank
  <2> QED
    BY <1>10, <1>11, <1>12 DEF T
<1>15. f[m] = step[f[m]]
  <2> HIDE DEF m
  <2> QED
    BY <1>12, <1>13, <1>14
<1> QED
  BY <1>12, <1>15
=============================================================================
