-------------------------- MODULE PieceTableProofs --------------------------
(* Why undo is exact although edits splice arrays in place: no array that a *)
(* stack refers to is the one that edits splice.  Then, that what the table *)
(* shows is what a plain byte sequence would hold, however its pieces are   *)
(* split: the refinement of ByteBuffer.                                     *)
EXTENDS PieceTable, SharedLemmas

\* References lead to arrays, of whatever pieces, and are not shared.
References ==
    /\ \E T : arrays \in Seq(T)
    /\ pieces \in 1 .. Len(arrays)
    /\ undoStack \in Seq(1 .. Len(arrays))
    /\ redoStack \in Seq(1 .. Len(arrays))
    /\ Unshared

\* What an edit does to the arrays: the table's own may become anything, a
\* copy of it comes to the end.
LEMMA EditedArrays ==
    ASSUME References, NEW ps, NEW n, Edit(ps, n)
    PROVE  /\ \E T : arrays' \in Seq(T)
           /\ Len(arrays') = Len(arrays) + 1
           /\ \A a \in 1 .. Len(arrays) : a # pieces => arrays'[a] = arrays[a]
<1>1. PICK T : arrays \in Seq(T)
  BY DEF References
<1> DEFINE U == T \cup {ps}
           spliced == [arrays EXCEPT ![pieces] = ps]
<1>2. spliced \in Seq(U) /\ Len(spliced) = Len(arrays) /\ Current \in U
  BY <1>1 DEF References, Current
<1>3. /\ arrays' \in Seq(U)
      /\ Len(arrays') = Len(spliced) + 1
      /\ \A a \in 1 .. Len(spliced) : arrays'[a] = spliced[a]
  BY <1>2 DEF Edit
<1>4. \A a \in 1 .. Len(arrays) : a # pieces => spliced[a] = arrays[a]
  BY <1>1 DEF References
<1> QED
  BY <1>2, <1>3, <1>4

\* An edit's undo step is the copy, which nothing else refers to.
LEMMA EditKeepsReferences ==
    ASSUME References, NEW ps, NEW n, Edit(ps, n)
    PROVE  References'
<1>1. /\ \E T : arrays' \in Seq(T)
      /\ Len(arrays') = Len(arrays) + 1
  BY EditedArrays
<1>2. /\ pieces' = pieces /\ redoStack' = <<>>
      /\ undoStack' = Append(undoStack, Len(arrays) + 1)
  BY DEF Edit
<1>3. Len(arrays) \in Nat /\ pieces \in 1 .. Len(arrays) /\ undoStack \in Seq(1 .. Len(arrays))
  BY DEF References
<1>4. pieces' \in 1 .. Len(arrays') /\ redoStack' \in Seq(1 .. Len(arrays'))
  BY <1>1, <1>2, <1>3
<1>5. undoStack' \in Seq(1 .. Len(arrays'))
  <2>1. undoStack \in Seq(1 .. Len(arrays) + 1)
    BY <1>3
  <2> QED
    BY <2>1, <1>1, <1>2, <1>3
<1>6. Unshared'
  <2>1. Unshared
    BY DEF References
  <2> QED
    BY <1>2, <1>3, <2>1 DEF Unshared
<1> QED
  BY <1>1, <1>4, <1>5, <1>6 DEF References

\* What Unshared says, of any reference and two stacks.
Apart(p, s, t) ==
    /\ \A i \in DOMAIN s : s[i] # p
    /\ \A j \in DOMAIN t : t[j] # p
    /\ \A i \in DOMAIN s, j \in DOMAIN t : s[i] # t[j]
    /\ \A i, j \in DOMAIN s : s[i] = s[j] => i = j
    /\ \A i, j \in DOMAIN t : t[i] = t[j] => i = j

\* Undo pushes the table's reference on one stack and takes its new one from
\* the other; so does redo.
LEMMA Moved ==
    ASSUME NEW N, NEW p \in N, NEW s \in Seq(N), NEW t \in Seq(N), s # <<>>, Apart(p, s, t)
    PROVE  /\ s[Len(s)] \in N
           /\ SubSeq(s, 1, Len(s) - 1) \in Seq(N) /\ Append(t, p) \in Seq(N)
           /\ Apart(s[Len(s)], SubSeq(s, 1, Len(s) - 1), Append(t, p))
<1> DEFINE front == SubSeq(s, 1, Len(s) - 1)
           pushed == Append(t, p)
<1>1. Len(s) \in Nat \ {0} /\ s[Len(s)] \in N
  OBVIOUS
<1>2. /\ front \in Seq(N) /\ DOMAIN front = 1 .. Len(s) - 1
      /\ \A i \in 1 .. Len(s) - 1 : front[i] = s[i]
  BY <1>1
<1>3. /\ pushed \in Seq(N) /\ DOMAIN pushed = 1 .. Len(t) + 1
      /\ \A j \in 1 .. Len(t) : pushed[j] = t[j]
      /\ pushed[Len(t) + 1] = p
  OBVIOUS
<1>4. DOMAIN s = 1 .. Len(s) /\ DOMAIN t = 1 .. Len(t) /\ Len(t) \in Nat
  OBVIOUS
<1> HIDE DEF front, pushed
<1>5. \A i \in DOMAIN front : front[i] # s[Len(s)] /\ front[i] = s[i] /\ i \in DOMAIN s
  BY <1>1, <1>2, <1>4 DEF Apart
<1>6. \A j \in DOMAIN pushed : pushed[j] = p \/ (j \in DOMAIN t /\ pushed[j] = t[j])
  BY <1>3, <1>4
<1>7. \A j \in DOMAIN pushed : pushed[j] # s[Len(s)] /\ \A i \in DOMAIN front : pushed[j] # front[i]
  BY <1>1, <1>4, <1>5, <1>6 DEF Apart
<1>8. \A i, j \in DOMAIN front : front[i] = front[j] => i = j
  BY <1>5 DEF Apart
<1>9. \A i, j \in DOMAIN pushed : pushed[i] = pushed[j] => i = j
  BY <1>3, <1>4 DEF Apart
<1>10. Apart(s[Len(s)], front, pushed)
  BY <1>5, <1>7, <1>8, <1>9 DEF Apart
<1> QED
  BY <1>1, <1>2, <1>3, <1>10 DEF front, pushed

LEMMA UndoKeepsReferences ==
    ASSUME References, Undo
    PROVE  References'
<1>1. /\ pieces' = undoStack[Len(undoStack)] /\ undoStack # <<>> /\ arrays' = arrays
      /\ undoStack' = SubSeq(undoStack, 1, Len(undoStack) - 1)
      /\ redoStack' = Append(redoStack, pieces)
  BY DEF Undo, Last, Front
<1>2. Apart(pieces, undoStack, redoStack)
  BY DEF References, Unshared, Apart
<1>3. /\ pieces' \in 1 .. Len(arrays)
      /\ undoStack' \in Seq(1 .. Len(arrays)) /\ redoStack' \in Seq(1 .. Len(arrays))
      /\ Apart(pieces', undoStack', redoStack')
  BY <1>1, <1>2, Moved DEF References
<1> QED
  BY <1>1, <1>3 DEF References, Unshared, Apart

LEMMA RedoKeepsReferences ==
    ASSUME References, Redo
    PROVE  References'
<1>1. /\ pieces' = redoStack[Len(redoStack)] /\ redoStack # <<>> /\ arrays' = arrays
      /\ redoStack' = SubSeq(redoStack, 1, Len(redoStack) - 1)
      /\ undoStack' = Append(undoStack, pieces)
  BY DEF Redo, Last, Front
<1>2. Apart(pieces, redoStack, undoStack)
  BY DEF References, Unshared, Apart
<1>3. /\ pieces' \in 1 .. Len(arrays)
      /\ undoStack' \in Seq(1 .. Len(arrays)) /\ redoStack' \in Seq(1 .. Len(arrays))
      /\ Apart(pieces', redoStack', undoStack')
  BY <1>1, <1>2, Moved DEF References
<1> QED
  BY <1>1, <1>3 DEF References, Unshared, Apart

\* Every step is an edit of some kind, an undo or a redo.
LEMMA Steps ==
    ASSUME Next
    PROVE  (\E ps, n : Edit(ps, n)) \/ Undo \/ Redo
BY Zenon DEF Next, Insert, Overwrite, Delete

LEMMA ReferencesBegin ==
    ASSUME Init
    PROVE  References
<1> DEFINE first == IF Initial = <<>> THEN <<>> ELSE <<Piece(Initial)>>
<1>1. arrays \in Seq({first}) /\ Len(arrays) = 1
  BY DEF Init
<1>2. \E T : arrays \in Seq(T)
  BY <1>1
<1> HIDE DEF first
<1>3. /\ pieces \in 1 .. Len(arrays)
      /\ undoStack \in Seq(1 .. Len(arrays)) /\ redoStack \in Seq(1 .. Len(arrays))
  BY <1>1 DEF Init
<1>4. Unshared
  BY DEF Init, Unshared
<1> QED
  BY <1>2, <1>3, <1>4 DEF References

LEMMA Referred == Spec => []References
<1>1. Init => References
  BY ReferencesBegin
<1>2. References /\ [Next]_vars => References'
  <2> SUFFICES ASSUME References, [Next]_vars PROVE References'
    OBVIOUS
  <2>1. CASE Next
    BY <2>1, Steps, EditKeepsReferences, UndoKeepsReferences, RedoKeepsReferences
  <2>2. CASE UNCHANGED vars
    BY <2>2 DEF vars, References, Unshared
  <2> QED
    BY <2>1, <2>2
<1> QED
  BY <1>1, <1>2, PTL DEF Spec

\* The array that edits splice is on neither stack, in every reachable state
\* and for every sequence of edits, undos and redos.
THEOREM NothingShared == Spec => []Unshared
<1>1. References => Unshared
  BY DEF References
<1> QED
  BY <1>1, Referred, PTL

\* What an undo step will restore never changes while it is on the stack.
THEOREM UndoIsExact == Spec => HistoryKept
<1> DEFINE Kept == \A k \in DOMAIN undoStack \cap DOMAIN undoStack' :
                      arrays'[undoStack'[k]] = arrays[undoStack[k]]
<1>1. References /\ [Next]_vars => [Kept]_vars
  <2> SUFFICES ASSUME References, Next PROVE Kept
    OBVIOUS
  <2>0. undoStack \in Seq(1 .. Len(arrays)) /\ redoStack \in Seq(1 .. Len(arrays))
    BY DEF References
  <2>1. ASSUME NEW ps, NEW n, Edit(ps, n) PROVE Kept
    <3>1. \A k \in DOMAIN undoStack : undoStack'[k] = undoStack[k]
      BY <2>0, <2>1 DEF Edit
    <3>2. \A k \in DOMAIN undoStack : undoStack[k] \in 1 .. Len(arrays) /\ undoStack[k] # pieces
      BY <2>0 DEF References, Unshared
    <3> QED
      BY <2>1, <3>1, <3>2, EditedArrays
  <2>2. CASE Undo
    BY <2>0, <2>2 DEF Undo, Front
  <2>3. CASE Redo
    BY <2>0, <2>3 DEF Redo
  <2> QED
    BY <2>1, <2>2, <2>3, Steps
<1> QED
  BY <1>1, Referred, PTL DEF Spec, HistoryKept
-----------------------------------------------------------------------------
(* Sequences defined by recursion: Ends, and what FlattenSeq is.           *)

\* Pieces as edits make them: ranges, not empty, of bytes that are there.
PieceSet == {p \in [buffer : Seq(Byte), offset : Nat, length : Nat] :
                p.length > 0 /\ p.offset + p.length <= Len(p.buffer)}

\* Ends is what its recursive definition says.
LEMMA EndsOf ==
    ASSUME NEW ps \in Seq(PieceSet)
    PROVE  /\ Ends(ps) \in [0 .. Len(ps) -> Nat] /\ Ends(ps)[0] = 0
           /\ \A k \in 1 .. Len(ps) : Ends(ps)[k] = Ends(ps)[k - 1] + ps[k].length
<1> DEFINE Is(e) == e = [k \in 0 .. Len(ps) |-> IF k = 0 THEN 0 ELSE e[k - 1] + ps[k].length]
<1>0. PICK n : n = Len(ps)
  OBVIOUS
<1>1. n \in Nat /\ \A k \in 1 .. n : ps[k].length \in Nat
  BY <1>0 DEF PieceSet
<1>2. PICK step : step = [k \in 1 .. n |-> [x \in Nat |-> x + ps[k].length]]
  OBVIOUS
<1>3. (\A k \in 1 .. n : step[k] \in [Nat -> Nat]) /\ \A k \in 1 .. n : \A x \in Nat : step[k][x] = x + ps[k].length
  <2>1. ASSUME NEW k \in 1 .. n
        PROVE  [x \in Nat |-> x + ps[k].length] \in [Nat -> Nat]
    BY <1>1
  <2>2. \A k \in 1 .. n : step[k] = [x \in Nat |-> x + ps[k].length]
    BY <1>2
  <2>3. \A k \in 1 .. n : \A x \in Nat : step[k][x] = x + ps[k].length
    BY <2>2
  <2>4. ASSUME NEW k \in 1 .. n
        PROVE  step[k] \in [Nat -> Nat]
    <3>1. step[k] = [x \in Nat |-> x + ps[k].length]
      BY <2>2
    <3>2. [x \in Nat |-> x + ps[k].length] \in [Nat -> Nat]
      BY <2>1
    <3> QED
      BY <3>1, <3>2
  <2> QED
    BY <2>3, <2>4
<1>4. PICK f : Iterates(f, Nat, 0, n, step)
  <2>1. Iteration(Nat, 0, n, step)
    BY <1>1, <1>3 DEF Iteration
  <2> QED
    BY <2>1, Recursion
<1>5. f \in [0 .. n -> Nat] /\ f[0] = 0 /\ \A k \in 1 .. n : f[k] = step[k][f[k - 1]]
  BY <1>4 DEF Iterates
<1>6. \A k \in 1 .. n : f[k] = f[k - 1] + ps[k].length
  <2> TAKE k \in 1 .. n
  <2>1. k - 1 \in 0 .. n /\ f[k - 1] \in Nat
    BY <1>1, <1>5
  <2> QED
    BY <1>3, <1>5, <2>1
<1>7. Is(f)
  <2>1. \A k \in 0 .. n : f[k] = IF k = 0 THEN 0 ELSE f[k - 1] + ps[k].length
    <3> TAKE k \in 0 .. n
    <3>1. k = 0 \/ k \in 1 .. n
      BY <1>1
    <3> QED
      BY <1>5, <1>6, <3>1
  <2> QED
    BY <1>0, <1>5, <2>1
<1>8. Is(Ends(ps))
  <2>1. \E e : Is(e)
    BY <1>7
  <2>2. Is(CHOOSE e : Is(e))
    BY <2>1
  <2> QED
    BY <2>2 DEF Ends
<1>9. PICK e : e = Ends(ps)
  OBVIOUS
<1>10. /\ DOMAIN e = 0 .. n /\ e[0] = 0
       /\ \A k \in 1 .. n : e[k] = e[k - 1] + ps[k].length
  <2>1. e = [k \in 0 .. n |-> IF k = 0 THEN 0 ELSE e[k - 1] + ps[k].length]
    BY <1>0, <1>8, <1>9
  <2>2. \A k \in 0 .. n : e[k] = IF k = 0 THEN 0 ELSE e[k - 1] + ps[k].length
    BY <2>1
  <2>3. DOMAIN e = 0 .. n
    BY <2>1
  <2>4. e[0] = 0
    BY <1>1, <2>2
  <2>5. \A k \in 1 .. n : k \in 0 .. n /\ k # 0
    BY <1>1
  <2> QED
    BY <2>2, <2>3, <2>4, <2>5
<1>11. \A k \in 0 .. n : e[k] = f[k]
  <2>1. \A k \in 1 .. n : e[k - 1] = f[k - 1] => e[k] = f[k]
    BY <1>6, <1>10
  <2>2. Alike(e, f, n)
    BY <1>1, <1>5, <1>10, <2>1 DEF Alike
  <2> QED
    BY <2>2, RecursionOnce
<1>12. e \in [0 .. n -> Nat]
  <2>1. e = [k \in 0 .. n |-> e[k]]
    <3>1. e = [k \in 0 .. n |-> IF k = 0 THEN 0 ELSE e[k - 1] + ps[k].length]
      BY <1>0, <1>8, <1>9
    <3> QED
      BY <3>1
  <2>2. \A k \in 0 .. n : e[k] \in Nat
    BY <1>5, <1>11
  <2> QED
    BY <2>1, <2>2
<1> QED
  BY <1>0, <1>9, <1>10, <1>12

\* A piece shows as many bytes as its length says.
LEMMA Views ==
    ASSUME NEW p \in PieceSet
    PROVE  View(p) \in Seq(Byte) /\ Len(View(p)) = p.length
<1>1. /\ p.buffer \in Seq(Byte) /\ p.offset \in Nat /\ p.length \in Nat
      /\ p.length > 0 /\ p.offset + p.length <= Len(p.buffer)
  BY DEF PieceSet
<1>2. PICK s, m, n : s = p.buffer /\ m = p.offset + 1 /\ n = p.offset + p.length
  OBVIOUS
<1>3. s \in Seq(Byte) /\ m \in 1 .. Len(s) + 1 /\ n \in m - 1 .. Len(s) /\ n - m + 1 = p.length
  <2>1. PICK o, l : o = p.offset /\ l = p.length
    OBVIOUS
  <2>2. s \in Seq(Byte) /\ o \in Nat /\ l \in Nat /\ l > 0 /\ o + l <= Len(s) /\ m = o + 1 /\ n = o + l
    BY <1>1, <1>2, <2>1
  <2>3. Len(s) \in Nat
    BY <2>2
  <2>4. m \in 1 .. Len(s) + 1 /\ n \in m - 1 .. Len(s) /\ n - m + 1 = l
    BY <2>2, <2>3
  <2> QED
    BY <2>1, <2>2, <2>4
<1>4. SubSeq(s, m, n) \in Seq(Byte) /\ Len(SubSeq(s, m, n)) = n - m + 1
  BY <1>3, Slice
<1> QED
  BY <1>2, <1>3, <1>4 DEF View

\* What the first pieces show, for each number of them.
Joins(f, ps) ==
    /\ f[0] = <<>>
    /\ \A k \in 0 .. Len(ps) : f[k] \in Seq(Byte)
    /\ \A k \in 1 .. Len(ps) : f[k] = f[k - 1] \o View(ps[k])

\* There is such a function.
LEMMA JoinsExist ==
    ASSUME NEW ps \in Seq(PieceSet)
    PROVE  \E f : Joins(f, ps)
<1>0. PICK n : n = Len(ps)
  OBVIOUS
<1>1. PICK V, B : V = [k \in 1 .. n |-> View(ps[k])] /\ B = Seq(Byte)
  OBVIOUS
<1>2. n \in Nat /\ \A k \in 1 .. n : V[k] = View(ps[k]) /\ V[k] \in B
  <2>1. \A k \in 1 .. n : ps[k] \in PieceSet
    BY <1>0
  <2>2. n \in Nat
    BY <1>0
  <2> QED
    BY <2>1, <2>2, <1>1, Views
<1>3. PICK step : step = [k \in 1 .. n |-> [x \in B |-> x \o V[k]]]
  OBVIOUS
<1>4. ASSUME NEW k \in 1 .. n, NEW x \in B
      PROVE  step[k][x] = x \o V[k] /\ x \o V[k] \in B
  <2>1. step[k] = [y \in B |-> y \o V[k]]
    BY <1>3
  <2>2. x \o V[k] \in B
    BY <1>1, <1>2, ConcatProperties
  <2> QED
    BY <2>1, <2>2
<1>5. ASSUME NEW k \in 1 .. n
      PROVE  step[k] \in [B -> B]
  <2>1. step[k] = [y \in B |-> y \o V[k]]
    BY <1>3
  <2>2. \A x \in B : x \o V[k] \in B
    BY <1>4
  <2> QED
    BY <2>1, <2>2
<1>6. <<>> \in B
  BY <1>1
<1>7. PICK f : Iterates(f, B, <<>>, n, step)
  <2>1. Iteration(B, <<>>, n, step)
    BY <1>2, <1>5, <1>6 DEF Iteration
  <2> QED
    BY <2>1, Recursion
<1>8. f \in [0 .. n -> B] /\ f[0] = <<>> /\ \A k \in 1 .. n : f[k] = step[k][f[k - 1]]
  BY <1>7 DEF Iterates
<1>9. \A k \in 1 .. n : f[k] = f[k - 1] \o View(ps[k])
  <2> TAKE k \in 1 .. n
  <2>1. k - 1 \in 0 .. n /\ f[k - 1] \in B
    BY <1>2, <1>8
  <2>2. step[k][f[k - 1]] = f[k - 1] \o V[k]
    BY <1>4, <2>1
  <2> QED
    BY <1>2, <1>8, <2>2
<1>10. \A k \in 0 .. n : f[k] \in Seq(Byte)
  BY <1>1, <1>8
<1> QED
  BY <1>0, <1>8, <1>9, <1>10 DEF Joins

\* Bytes is the last of them: FlattenSeq is this recursion.
LEMMA BytesOf ==
    ASSUME NEW ps \in Seq(PieceSet), NEW f, Joins(f, ps)
    PROVE  Bytes(ps) = f[Len(ps)]
<1>0. PICK n : n = Len(ps)
  OBVIOUS
<1>1. PICK V : V = [k \in DOMAIN ps |-> View(ps[k])]
  OBVIOUS
<1>2. /\ n \in Nat /\ V \in Seq(Seq(Byte)) /\ Len(V) = n
      /\ \A k \in 1 .. n : V[k] = View(ps[k]) /\ V[k] \in Seq(Byte)
  <2>1. n \in Nat /\ DOMAIN ps = 1 .. n /\ \A k \in 1 .. n : ps[k] \in PieceSet
    BY <1>0
  <2>2. \A k \in 1 .. n : V[k] = View(ps[k]) /\ V[k] \in Seq(Byte)
    BY <2>1, <1>1, Views
  <2>3. V = [k \in 1 .. n |-> V[k]]
    BY <2>1, <1>1
  <2>4. V \in Seq(Seq(Byte)) /\ Len(V) = n
    BY <2>1, <2>2, <2>3
  <2> QED
    BY <2>1, <2>2, <2>4
<1>3. f[0] = <<>> /\ (\A k \in 0 .. n : f[k] \in Seq(Byte)) /\ \A k \in 1 .. n : f[k] = f[k - 1] \o V[k]
  BY <1>0, <1>2 DEF Joins
<1>4. CASE n = 0
  <2>1. V = <<>>
    BY <1>2, <1>4
  <2> QED
    BY <1>0, <1>1, <1>2, <1>3, <1>4, <2>1 DEF Bytes, FlattenSeq
<1>5. CASE n # 0
  <2> DEFINE Is(e) == e = [i \in 1 .. Len(V) |-> IF i = 1 THEN V[i] ELSE e[i - 1] \o V[i]]
  <2>1. f[1] = V[1]
    <3>1. 1 \in 1 .. n /\ 1 - 1 = 0
      BY <1>2, <1>5
    <3>2. f[1] = <<>> \o V[1] /\ V[1] \in Seq(Byte)
      BY <1>2, <1>3, <3>1
    <3> QED
      BY <3>2, ConcatEmptySeq
  <2>2. \E e : Is(e)
    <3> DEFINE g == [i \in 1 .. n |-> f[i]]
    <3>1. \A i \in 1 .. n : g[i] = IF i = 1 THEN V[i] ELSE g[i - 1] \o V[i]
      <4> TAKE i \in 1 .. n
      <4>1. CASE i = 1
        BY <2>1, <4>1
      <4>2. CASE i # 1
        <5>1. i - 1 \in 1 .. n
          BY <1>2, <4>2
        <5> QED
          BY <1>3, <4>2, <5>1
      <4> QED
        BY <4>1, <4>2
    <3> HIDE DEF g
    <3>2. g = [i \in 1 .. n |-> IF i = 1 THEN V[i] ELSE g[i - 1] \o V[i]]
      <4>1. g = [i \in 1 .. n |-> g[i]]
        BY DEF g
      <4> QED
        BY <3>1, <4>1
    <3>3. Is(g)
      BY <1>2, <3>2
    <3> QED
      BY <3>3
  <2>3. PICK e : e = CHOOSE h : Is(h)
    OBVIOUS
  <2>4. Is(e)
    BY <2>2, <2>3
  <2>5. Bytes(ps) = e[n]
    <3>1. Bytes(ps) = FlattenSeq(V)
      BY <1>1 DEF Bytes
    <3>2. FlattenSeq(V) = e[Len(V)]
      BY <1>2, <1>5, <2>3 DEF FlattenSeq
    <3> QED
      BY <1>2, <3>1, <3>2
  <2>6. \A i \in 1 .. n : e[i] = IF i = 1 THEN V[i] ELSE e[i - 1] \o V[i]
    BY <1>2, <2>4
  <2> HIDE DEF Is
  <2>7. PICK h : h = [i \in 0 .. n |-> IF i = 0 THEN <<>> ELSE e[i]]
    OBVIOUS
  <2>8. Alike(h, f, n)
    <3>1. h[0] = f[0]
      BY <1>2, <1>3, <2>7
    <3>2. \A k \in 1 .. n : h[k] = e[k] /\ k - 1 \in 0 .. n
      BY <1>2, <2>7
    <3>3. ASSUME NEW k \in 1 .. n, h[k - 1] = f[k - 1]
          PROVE  h[k] = f[k]
      <4>1. CASE k = 1
        BY <2>1, <2>6, <3>2, <4>1
      <4>2. CASE k # 1
        <5>1. k - 1 \in 1 .. n
          BY <1>2, <4>2
        <5>2. e[k] = e[k - 1] \o V[k] /\ h[k - 1] = e[k - 1]
          BY <2>6, <3>2, <4>2, <5>1
        <5> QED
          BY <1>3, <3>2, <3>3, <5>2
      <4> QED
        BY <4>1, <4>2
    <3> QED
      BY <1>2, <3>1, <3>3 DEF Alike
  <2>9. h[n] = f[n] /\ h[n] = e[n]
    <3>1. n \in 0 .. n
      BY <1>2
    <3>2. h[n] = f[n]
      BY <2>8, <3>1, RecursionOnce
    <3> QED
      BY <1>5, <2>7, <3>1, <3>2
  <2> QED
    BY <1>0, <2>5, <2>9
<1> QED
  BY <1>4, <1>5

\* What the first pieces show is as long as Ends says.
LEMMA LengthsOf ==
    ASSUME NEW ps \in Seq(PieceSet), NEW f, Joins(f, ps)
    PROVE  \A k \in 0 .. Len(ps) : Len(f[k]) = Ends(ps)[k]
<1>0. PICK n, e : n = Len(ps) /\ e = Ends(ps)
  OBVIOUS
<1>1. n \in Nat /\ \A k \in 1 .. n : ps[k] \in PieceSet
  BY <1>0
<1>2. /\ f[0] = <<>> /\ (\A k \in 0 .. n : f[k] \in Seq(Byte))
      /\ \A k \in 1 .. n : f[k] = f[k - 1] \o View(ps[k])
  BY <1>0 DEF Joins
<1>3. e[0] = 0 /\ \A k \in 1 .. n : e[k] = e[k - 1] + ps[k].length
  BY <1>0, EndsOf
<1>4. PICK g : g = [k \in 0 .. n |-> Len(f[k])]
  OBVIOUS
<1>5. \A k \in 0 .. n : g[k] = Len(f[k])
  BY <1>4
<1>6. ASSUME NEW k \in 1 .. n
      PROVE  g[k] = g[k - 1] + ps[k].length
  <2>1. k - 1 \in 0 .. n /\ k \in 0 .. n
    BY <1>1
  <2>2. View(ps[k]) \in Seq(Byte) /\ Len(View(ps[k])) = ps[k].length
    BY <1>1, Views
  <2>3. Len(f[k]) = Len(f[k - 1]) + Len(View(ps[k]))
    <3>1. PICK s, t : s = f[k - 1] /\ t = View(ps[k])
      OBVIOUS
    <3>2. s \in Seq(Byte) /\ t \in Seq(Byte) /\ f[k] = s \o t
      BY <1>2, <2>1, <2>2, <3>1
    <3> QED
      BY <3>1, <3>2, ConcatProperties
  <2> QED
    BY <1>5, <2>1, <2>2, <2>3
<1>7. Alike(g, e, n)
  <2>1. g[0] = e[0]
    BY <1>1, <1>2, <1>3, <1>5
  <2>2. \A k \in 1 .. n : g[k - 1] = e[k - 1] => g[k] = e[k]
    BY <1>3, <1>6
  <2> QED
    BY <1>1, <2>1, <2>2 DEF Alike
<1> QED
  BY <1>0, <1>5, <1>7, RecursionOnce

\* Pieces show bytes, as many as SumLengths counts.
LEMMA BytesTyped ==
    ASSUME NEW ps \in Seq(PieceSet)
    PROVE  Bytes(ps) \in Seq(Byte) /\ Len(Bytes(ps)) = SumLengths(ps)
<1>1. PICK f : Joins(f, ps)
  BY JoinsExist
<1>2. PICK n : n = Len(ps)
  OBVIOUS
<1>3. n \in 0 .. n
  BY <1>2
<1>4. Bytes(ps) = f[n] /\ Len(f[n]) = Ends(ps)[n] /\ f[n] \in Seq(Byte)
  BY <1>1, <1>2, <1>3, BytesOf, LengthsOf DEF Joins
<1> QED
  BY <1>2, <1>4 DEF SumLengths

LEMMA BytesAssociative ==
    \A x, y, z \in Seq(Byte) : (x \o y) \o z = x \o (y \o z)
<1> SUFFICES ASSUME NEW x \in Seq(Byte), NEW y \in Seq(Byte), NEW z \in Seq(Byte)
             PROVE  (x \o y) \o z = x \o (y \o z)
  OBVIOUS
<1> QED
  BY SMT

\* What pieces show in turn is what the former and what the latter show.
LEMMA BytesJoined ==
    ASSUME NEW ps \in Seq(PieceSet), NEW qs \in Seq(PieceSet), NEW rs, rs = ps \o qs
    PROVE  rs \in Seq(PieceSet) /\ Bytes(rs) = Bytes(ps) \o Bytes(qs)
<1>0. PICK n, m : n = Len(ps) /\ m = Len(qs)
  OBVIOUS
<1>1. n \in Nat /\ m \in Nat
  BY <1>0
<1>2. /\ rs \in Seq(PieceSet) /\ Len(rs) = n + m
      /\ \A k \in 1 .. n : rs[k] = ps[k]
      /\ \A k \in 1 .. m : rs[n + k] = qs[k]
  BY <1>0, Joined
<1>3. PICK f, g, h : Joins(f, rs) /\ Joins(g, ps) /\ Joins(h, qs)
  BY <1>2, JoinsExist
<1>4. /\ f[0] = <<>> /\ (\A k \in 0 .. n + m : f[k] \in Seq(Byte))
      /\ \A k \in 1 .. n + m : f[k] = f[k - 1] \o View(rs[k])
  BY <1>2, <1>3 DEF Joins
<1>5. /\ g[0] = <<>> /\ (\A k \in 0 .. n : g[k] \in Seq(Byte))
      /\ \A k \in 1 .. n : g[k] = g[k - 1] \o View(ps[k])
  BY <1>0, <1>3 DEF Joins
<1>6. /\ h[0] = <<>> /\ (\A k \in 0 .. m : h[k] \in Seq(Byte))
      /\ \A k \in 1 .. m : h[k] = h[k - 1] \o View(qs[k])
  BY <1>0, <1>3 DEF Joins
<1>7. f[n] = g[n] /\ g[n] \in Seq(Byte)
  <2>1. \A k \in 1 .. n : k \in 1 .. n + m
    BY <1>1
  <2>2. Alike(f, g, n)
    BY <1>1, <1>2, <1>4, <1>5, <2>1 DEF Alike
  <2>3. n \in 0 .. n
    BY <1>1
  <2> QED
    BY <1>5, <2>2, <2>3, RecursionOnce
<1>8. PICK u, v : u = [k \in 0 .. m |-> f[n + k]] /\ v = [k \in 0 .. m |-> g[n] \o h[k]]
  OBVIOUS
<1>9. \A k \in 0 .. m : u[k] = f[n + k] /\ v[k] = g[n] \o h[k]
  BY <1>8
<1>10. Alike(u, v, m)
  <2>1. u[0] = v[0]
    <3>1. 0 \in 0 .. m /\ n + 0 = n
      BY <1>1
    <3>2. g[n] \o <<>> = g[n]
      BY <1>7, ConcatEmptySeq
    <3> QED
      BY <1>6, <1>7, <1>9, <3>1, <3>2
  <2>2. ASSUME NEW k \in 1 .. m, u[k - 1] = v[k - 1]
        PROVE  u[k] = v[k]
    <3>1. k - 1 \in 0 .. m /\ k \in 0 .. m /\ n + k \in 1 .. n + m /\ (n + k) - 1 = n + (k - 1)
      BY <1>1
    <3>2. f[n + k] = f[n + (k - 1)] \o View(qs[k])
      BY <1>2, <1>4, <3>1
    <3>3. f[n + (k - 1)] = g[n] \o h[k - 1]
      BY <1>9, <2>2, <3>1
    <3>4. qs[k] \in PieceSet
      BY <1>0
    <3>5. (g[n] \o h[k - 1]) \o View(qs[k]) = g[n] \o (h[k - 1] \o View(qs[k]))
      <4>1. PICK a, b, c : a = g[n] /\ b = h[k - 1] /\ c = View(qs[k])
        OBVIOUS
      <4>2. a \in Seq(Byte) /\ b \in Seq(Byte) /\ c \in Seq(Byte)
        BY <1>6, <1>7, <3>1, <3>4, <4>1, Views
      <4>3. (a \o b) \o c = a \o (b \o c)
        BY <4>2, BytesAssociative, Zenon
      <4> QED
        BY <4>1, <4>3
    <3>6. h[k] = h[k - 1] \o View(qs[k])
      BY <1>6
    <3> QED
      BY <1>9, <3>1, <3>2, <3>3, <3>5, <3>6
  <2> QED
    BY <1>1, <2>1, <2>2 DEF Alike
<1>11. f[n + m] = g[n] \o h[m]
  <2>1. m \in 0 .. m
    BY <1>1
  <2>2. u[m] = v[m]
    BY <1>10, <2>1, RecursionOnce
  <2> QED
    BY <1>9, <2>1, <2>2
<1>12. Bytes(rs) = f[n + m] /\ Bytes(ps) = g[n] /\ Bytes(qs) = h[m]
  BY <1>0, <1>2, <1>3, BytesOf
<1> QED
  BY <1>2, <1>11, <1>12

\* No piece shows nothing, one piece what it views.
LEMMA BytesOfNone == Bytes(<<>>) = <<>>
<1>1. PICK ps : ps = <<>>
  OBVIOUS
<1>2. ps \in Seq(PieceSet) /\ Len(ps) = 0
  BY <1>1
<1>3. PICK f : Joins(f, ps)
  BY <1>2, JoinsExist
<1> QED
  BY <1>1, <1>2, <1>3, BytesOf DEF Joins

LEMMA BytesOfOne ==
    ASSUME NEW p \in PieceSet
    PROVE  <<p>> \in Seq(PieceSet) /\ Bytes(<<p>>) = View(p)
<1>1. PICK ps : ps = <<p>>
  OBVIOUS
<1>2. ps \in Seq(PieceSet) /\ Len(ps) = 1 /\ ps[1] = p
  BY <1>1
<1>3. PICK f : Joins(f, ps)
  BY <1>2, JoinsExist
<1>4. f[0] = <<>> /\ f[1] = f[0] \o View(p)
  <2>1. 1 \in 1 .. Len(ps) /\ 1 - 1 = 0
    BY <1>2
  <2>2. f[0] = <<>> /\ f[1] = f[1 - 1] \o View(ps[1])
    BY <1>3, <2>1 DEF Joins
  <2> QED
    BY <1>2, <2>1, <2>2
<1>5. View(p) \in Seq(Byte)
  BY Views
<1>6. <<>> \o View(p) = View(p)
  BY <1>5, ConcatEmptySeq
<1> QED
  BY <1>1, <1>2, <1>3, <1>4, <1>6, BytesOf

-----------------------------------------------------------------------------
(* The operations: where an offset is, and what the pieces show after.     *)

\* Where two sequences meet, and what they are then.
LEMMA Cut ==
    ASSUME NEW S, NEW a \in Seq(S), NEW c \in Seq(S), NEW b, b = a \o c
    PROVE  SubSeq(b, 1, Len(a)) = a /\ SubSeq(b, Len(a) + 1, Len(b)) = c
<1>0. PICK n, m : n = Len(a) /\ m = Len(c)
  OBVIOUS
<1>1. /\ n \in Nat /\ m \in Nat /\ b \in Seq(S) /\ Len(b) = n + m
      /\ (\A i \in 1 .. n : b[i] = a[i]) /\ \A i \in 1 .. m : b[n + i] = c[i]
  BY <1>0, Joined
<1>2. PICK u, v : u = SubSeq(b, 1, n) /\ v = SubSeq(b, n + 1, Len(b))
  OBVIOUS
<1>3. u \in Seq(S) /\ Len(u) = n /\ \A i \in 1 .. n : u[i] = b[i]
  <2>1. 1 \in 1 .. Len(b) + 1 /\ n \in 1 - 1 .. Len(b) /\ n - 1 + 1 = n
    BY <1>1
  <2>2. u \in Seq(S) /\ Len(u) = n - 1 + 1 /\ \A i \in 1 .. n - 1 + 1 : u[i] = b[1 + i - 1]
    BY <1>1, <1>2, <2>1, Slice
  <2>3. \A i \in 1 .. n : 1 + i - 1 = i
    OBVIOUS
  <2> QED
    BY <2>1, <2>2, <2>3
<1>4. v \in Seq(S) /\ Len(v) = m /\ \A i \in 1 .. m : v[i] = b[n + i]
  <2>1. PICK l, k : l = Len(b) /\ k = n + 1
    OBVIOUS
  <2>2. k \in 1 .. Len(b) + 1 /\ l \in k - 1 .. Len(b) /\ l - k + 1 = m
    BY <1>1, <2>1
  <2>3. v \in Seq(S) /\ Len(v) = l - k + 1 /\ \A i \in 1 .. l - k + 1 : v[i] = b[k + i - 1]
    BY <1>1, <1>2, <2>1, <2>2, Slice
  <2>4. \A i \in 1 .. m : k + i - 1 = n + i
    BY <1>1, <2>1
  <2> QED
    BY <2>2, <2>3, <2>4
<1>5. u = a
  BY <1>0, <1>1, <1>3, SeqEqual
<1>6. v = c
  BY <1>0, <1>1, <1>4, SeqEqual
<1> QED
  BY <1>0, <1>2, <1>5, <1>6

LEMMA CutBytes ==
    ASSUME NEW a \in Seq(Byte), NEW c \in Seq(Byte)
    PROVE  SubSeq(a \o c, 1, Len(a)) = a /\ SubSeq(a \o c, Len(a) + 1, Len(a \o c)) = c
BY Cut

\* The first pieces are as long together as the last of them ends.
LEMMA FrontEnds ==
    ASSUME NEW ps \in Seq(PieceSet), NEW n \in 0 .. Len(ps), NEW qs, qs = SubSeq(ps, 1, n)
    PROVE  qs \in Seq(PieceSet) /\ Len(qs) = n /\ SumLengths(qs) = Ends(ps)[n]
<1>1. n \in Nat /\ Len(ps) \in Nat /\ n <= Len(ps)
  OBVIOUS
<1>2. qs \in Seq(PieceSet) /\ Len(qs) = n /\ \A k \in 1 .. n : qs[k] = ps[k]
  <2>1. 1 \in 1 .. Len(ps) + 1 /\ n \in 1 - 1 .. Len(ps) /\ n - 1 + 1 = n
    BY <1>1
  <2>2. /\ qs \in Seq(PieceSet) /\ Len(qs) = n - 1 + 1
        /\ \A i \in 1 .. n - 1 + 1 : qs[i] = ps[1 + i - 1]
    BY <2>1, Slice
  <2>3. \A i \in 1 .. n : 1 + i - 1 = i
    OBVIOUS
  <2> QED
    BY <2>1, <2>2, <2>3
<1>3. PICK e, f : e = Ends(qs) /\ f = Ends(ps)
  OBVIOUS
<1>4. e[0] = 0 /\ \A k \in 1 .. n : e[k] = e[k - 1] + ps[k].length
  BY <1>2, <1>3, EndsOf
<1>5. f[0] = 0 /\ \A k \in 1 .. n : f[k] = f[k - 1] + ps[k].length
  <2>1. f[0] = 0 /\ \A k \in 1 .. Len(ps) : f[k] = f[k - 1] + ps[k].length
    BY <1>3, EndsOf
  <2>2. \A k \in 1 .. n : k \in 1 .. Len(ps)
    BY <1>1
  <2> QED
    BY <2>1, <2>2
<1>6. Alike(e, f, n)
  BY <1>1, <1>4, <1>5 DEF Alike
<1>7. e[n] = f[n]
  <2>1. n \in 0 .. n
    BY <1>1
  <2> QED
    BY <1>6, <2>1, RecursionOnce
<1> QED
  BY <1>2, <1>3, <1>7 DEF SumLengths

\* Pieces end one after the other.
LEMMA EndsGrow ==
    ASSUME NEW ps \in Seq(PieceSet), NEW i \in 0 .. Len(ps), NEW j \in i .. Len(ps)
    PROVE  Ends(ps)[i] <= Ends(ps)[j]
<1>0. PICK n, e : n = Len(ps) /\ e = Ends(ps)
  OBVIOUS
<1>1. n \in Nat /\ \A k \in 1 .. n : ps[k].length \in Nat
  BY <1>0 DEF PieceSet
<1>2. (\A k \in 0 .. n : e[k] \in Nat) /\ \A k \in 1 .. n : e[k] = e[k - 1] + ps[k].length
  BY <1>0, EndsOf
<1>3. PICK T : T = {k \in Nat : i <= k /\ k <= n => e[i] <= e[k]}
  OBVIOUS
<1>4. i \in Nat /\ i <= n
  BY <1>0, <1>1
<1>5. 0 \in T
  BY <1>2, <1>3, <1>4
<1>6. ASSUME NEW k \in T
      PROVE  k + 1 \in T
  <2>1. k \in Nat
    BY <1>3
  <2> SUFFICES ASSUME i <= k + 1, k + 1 <= n
               PROVE  e[i] <= e[k + 1]
    BY <1>3, <2>1
  <2>2. CASE i = k + 1
    BY <1>2, <1>4, <2>2
  <2>3. CASE i # k + 1
    <3>1. i <= k /\ k <= n /\ k + 1 \in 1 .. n /\ k \in 0 .. n /\ k + 1 - 1 = k /\ i \in 0 .. n
      BY <1>1, <1>4, <2>1, <2>3
    <3>2. e[i] <= e[k] /\ e[k + 1] = e[k] + ps[k + 1].length
      BY <1>2, <1>3, <3>1
    <3>3. e[i] \in Nat /\ e[k] \in Nat /\ ps[k + 1].length \in Nat
      BY <1>1, <1>2, <3>1
    <3> QED
      BY <3>2, <3>3
  <2> QED
    BY <2>2, <2>3
<1>7. T = Nat
  <2>1. T \subseteq Nat
    BY <1>3
  <2> QED
    BY <1>5, <1>6, <2>1, NatSets
<1>8. j \in Nat /\ i <= j /\ j <= n
  BY <1>0, <1>1, <1>4
<1> QED
  BY <1>0, <1>3, <1>7, <1>8

\* The piece that Locate finds is there, and holds the offset.
LEMMA Located ==
    ASSUME NEW ps \in Seq(PieceSet), NEW o \in 0 .. SumLengths(ps)
    PROVE  /\ Locate(ps, o) \in 1 .. Len(ps) + 1
           /\ Start(ps, Locate(ps, o)) <= o
           /\ Locate(ps, o) <= Len(ps) => o < Ends(ps)[Locate(ps, o)]
<1>0. PICK n, e : n = Len(ps) /\ e = Ends(ps)
  OBVIOUS
<1>1. n \in Nat /\ e[0] = 0 /\ \A k \in 0 .. n : e[k] \in Nat
  BY <1>0, EndsOf
<1>2. o \in Nat /\ o <= e[n]
  <2>1. SumLengths(ps) = e[n] /\ e[n] \in Nat
    BY <1>0, <1>1 DEF SumLengths
  <2> QED
    BY <2>1
<1>3. \E k \in 1 .. n + 1 : e[k - 1] <= o /\ (k <= n => o < e[k])
  <2> SUFFICES ASSUME \A k \in 1 .. n + 1 : e[k - 1] <= o => k <= n /\ o >= e[k]
               PROVE  FALSE
    BY <1>1, <1>2
  <2>0. ASSUME NEW k \in 0 .. n, e[k] <= o
        PROVE  k + 1 <= n /\ o >= e[k + 1]
    <3>1. PICK l : l = k + 1
      OBVIOUS
    <3>2. l \in 1 .. n + 1 /\ l - 1 = k
      BY <1>1, <3>1
    <3>3. e[l - 1] <= o
      BY <2>0, <3>2
    <3>4. l <= n /\ o >= e[l]
      BY <3>2, <3>3
    <3> QED
      BY <3>1, <3>4
  <2>1. PICK T : T = {k \in Nat : k <= n => e[k] <= o}
    OBVIOUS
  <2>2. 0 \in T
    BY <1>1, <1>2, <2>1
  <2>3. ASSUME NEW k \in T
        PROVE  k + 1 \in T
    <3>1. k \in Nat
      BY <2>1
    <3> SUFFICES ASSUME k + 1 <= n
                 PROVE  e[k + 1] <= o
      BY <2>1, <3>1
    <3>2. k \in 0 .. n /\ k + 1 \in 0 .. n /\ e[k] <= o
      BY <1>1, <2>1, <3>1
    <3>3. o >= e[k + 1] /\ e[k + 1] \in Nat
      BY <1>1, <2>0, <3>2
    <3> QED
      BY <1>2, <3>3
  <2>4. T = Nat
    <3>1. T \subseteq Nat
      BY <2>1
    <3> QED
      BY <2>2, <2>3, <3>1, NatSets
  <2>5. e[n] <= o /\ n \in 0 .. n
    BY <1>1, <2>1, <2>4
  <2>6. n + 1 <= n
    BY <2>0, <2>5
  <2> QED
    BY <1>1, <2>6
<1>4. PICK l : l = Locate(ps, o)
  OBVIOUS
<1>5. l \in 1 .. n + 1 /\ e[l - 1] <= o /\ (l <= n => o < e[l])
  BY <1>0, <1>3, <1>4 DEF Locate
<1> QED
  BY <1>0, <1>4, <1>5 DEF Start

\* A part of a piece shows a part of what the piece shows.
LEMMA Parts ==
    ASSUME NEW p \in PieceSet, NEW from \in Nat, NEW count \in Nat \ {0}, from + count <= p.length
    PROVE  /\ Part(p, from, count) \in PieceSet
           /\ View(Part(p, from, count)) = SubSeq(View(p), from + 1, from + count)
<1>0. PICK q : q = Part(p, from, count)
  OBVIOUS
<1>1. /\ p.buffer \in Seq(Byte) /\ p.offset \in Nat /\ p.length \in Nat
      /\ p.length > 0 /\ p.offset + p.length <= Len(p.buffer)
  BY DEF PieceSet
<1>2. q.buffer = p.buffer /\ q.offset = p.offset + from /\ q.length = count
  BY <1>0 DEF Part, PieceSet
<1>3. q \in PieceSet
  <2>1. q \in [buffer : Seq(Byte), offset : Nat, length : Nat]
    <3>1. p \in [buffer : Seq(Byte), offset : Nat, length : Nat]
      BY DEF PieceSet
    <3>2. q = [buffer |-> p.buffer, offset |-> p.offset + from, length |-> count]
      BY <1>0, <3>1 DEF Part
    <3>3. p.offset + from \in Nat /\ count \in Nat
      BY <1>1
    <3> QED
      BY <1>1, <3>2, <3>3
  <2>2. q.length > 0 /\ q.offset + q.length <= Len(q.buffer)
    <3>1. PICK l, m, s, t : l = p.length /\ m = p.offset /\ s = p.buffer /\ t = Len(s)
      OBVIOUS
    <3>2. l \in Nat /\ m \in Nat /\ t \in Nat /\ m + l <= t /\ from + count <= l
      BY <1>1, <3>1
    <3>3. m + from + count <= t
      BY <3>2
    <3> QED
      BY <1>2, <3>1, <3>3
  <2> QED
    BY <2>1, <2>2 DEF PieceSet
<1>4. PICK s, i, j, m, n : /\ s = p.buffer /\ i = p.offset + 1 /\ j = p.offset + p.length
                           /\ m = from + 1 /\ n = from + count
  OBVIOUS
<1>5. /\ s \in Seq(Byte) /\ i \in 1 .. Len(s) /\ j \in 1 .. Len(s)
      /\ m \in 1 .. j - i + 1 /\ n \in 1 .. j - i + 1
      /\ i + m - 1 = p.offset + from + 1 /\ i + n - 1 = p.offset + from + count
  <2>1. PICK l, f, t : l = p.length /\ f = p.offset /\ t = Len(s)
    OBVIOUS
  <2>2. s \in Seq(Byte) /\ l \in Nat /\ f \in Nat /\ f + l <= t /\ l > 0 /\ from + count <= l
    BY <1>1, <1>4, <2>1
  <2>3. t \in Nat /\ i = f + 1 /\ j = f + l
    BY <1>4, <2>1, <2>2
  <2>4. /\ i \in 1 .. t /\ j \in 1 .. t
        /\ m \in 1 .. j - i + 1 /\ n \in 1 .. j - i + 1
        /\ i + m - 1 = f + from + 1 /\ i + n - 1 = f + from + count
    BY <1>4, <2>2, <2>3
  <2> QED
    BY <2>1, <2>2, <2>4
<1>6. SubSeq(SubSeq(s, i, j), m, n) = SubSeq(s, i + m - 1, i + n - 1)
  BY <1>5, SubSeqOfSubSeq
<1>7. View(p) = SubSeq(s, i, j) /\ View(q) = SubSeq(s, p.offset + from + 1, p.offset + from + count)
  BY <1>2, <1>4 DEF View
<1>8. View(q) = SubSeq(View(p), m, n)
  BY <1>5, <1>6, <1>7
<1> QED
  BY <1>0, <1>3, <1>4, <1>8


\* Brackets moved in a concatenation of byte sequences.
Strings(x, c, d, y) == x \in Seq(Byte) /\ c \in Seq(Byte) /\ d \in Seq(Byte) /\ y \in Seq(Byte)
Regroups(x, c, d, y) == (x \o c) \o (d \o y) = x \o ((c \o d) \o y)

LEMMA Regrouped ==
    ASSUME NEW x, NEW c, NEW d, NEW y, Strings(x, c, d, y)
    PROVE  Regroups(x, c, d, y)
<1>0. x \in Seq(Byte) /\ c \in Seq(Byte) /\ d \in Seq(Byte) /\ y \in Seq(Byte)
  BY DEF Strings
<1>1. PICK q : q = d \o y
  OBVIOUS
<1>2. q \in Seq(Byte)
  BY <1>0, <1>1, ConcatProperties
<1>3. (c \o d) \o y = c \o q
  BY <1>0, <1>1, BytesAssociative, Zenon
<1>4. (x \o c) \o q = x \o (c \o q)
  BY <1>0, <1>2, BytesAssociative, Zenon
<1> QED
  BY <1>1, <1>3, <1>4 DEF Regroups

\* Between two pieces.
LEMMA Between ==
    ASSUME NEW ps \in Seq(PieceSet), NEW n \in 0 .. Len(ps)
    PROVE  /\ SubSeq(ps, 1, n) \in Seq(PieceSet) /\ SubSeq(ps, n + 1, Len(ps)) \in Seq(PieceSet)
           /\ Len(Bytes(SubSeq(ps, 1, n))) = Ends(ps)[n]
           /\ Bytes(ps) = Bytes(SubSeq(ps, 1, n)) \o Bytes(SubSeq(ps, n + 1, Len(ps)))
<1>0. PICK f, b, l : f = SubSeq(ps, 1, n) /\ b = SubSeq(ps, n + 1, Len(ps)) /\ l = Len(ps)
  OBVIOUS
<1>1. n \in Nat /\ l \in Nat /\ n <= l
  BY <1>0
<1>2. f \in Seq(PieceSet) /\ SumLengths(f) = Ends(ps)[n]
  BY <1>0, FrontEnds
<1>3. b \in Seq(PieceSet)
  <2>1. PICK m : m = n + 1
    OBVIOUS
  <2>2. m \in 1 .. Len(ps) + 1 /\ l \in m - 1 .. Len(ps)
    BY <1>0, <1>1, <2>1
  <2> QED
    BY <1>0, <2>1, <2>2, Slice
<1>4. Len(Bytes(f)) = Ends(ps)[n]
  BY <1>2, BytesTyped
<1>5. ps = f \o b
  <2>1. 1 \in 1 .. Len(ps) + 1 /\ n \in 1 - 1 .. Len(ps) /\ l \in n .. Len(ps)
    BY <1>0, <1>1
  <2>2. SubSeq(ps, 1, n) \o SubSeq(ps, n + 1, l) = SubSeq(ps, 1, l)
    BY <2>1, ConcatAdjacentSubSeq
  <2>3. SubSeq(ps, 1, l) = ps
    BY <1>0, SubSeqFull
  <2> QED
    BY <1>0, <2>2, <2>3
<1>6. Bytes(ps) = Bytes(f) \o Bytes(b)
  BY <1>2, <1>3, <1>5, BytesJoined
<1> QED
  BY <1>0, <1>2, <1>3, <1>4, <1>6

\* Inside a piece.
LEMMA Inside ==
    ASSUME NEW ps \in Seq(PieceSet), NEW k \in 1 .. Len(ps), NEW l \in 0 .. ps[k].length,
           NEW o, o = Start(ps, k) + l
    PROVE  /\ SubSeq(ps, 1, k - 1) \in Seq(PieceSet) /\ SubSeq(ps, k + 1, Len(ps)) \in Seq(PieceSet)
           /\ SubSeq(View(ps[k]), 1, l) \in Seq(Byte)
           /\ SubSeq(View(ps[k]), l + 1, ps[k].length) \in Seq(Byte)
           /\ SubSeq(Bytes(ps), 1, o) = Bytes(SubSeq(ps, 1, k - 1)) \o SubSeq(View(ps[k]), 1, l)
           /\ SubSeq(Bytes(ps), o + 1, Len(Bytes(ps)))
                = SubSeq(View(ps[k]), l + 1, ps[k].length) \o Bytes(SubSeq(ps, k + 1, Len(ps)))
<1>0. PICK f, b, m, n, v, h :
        /\ f = SubSeq(ps, 1, k - 1) /\ b = SubSeq(ps, k + 1, Len(ps)) /\ m = k - 1
        /\ n = Len(ps) /\ v = View(ps[k]) /\ h = ps[k].length
  OBVIOUS
<1>1. ps[k] \in PieceSet /\ n \in Nat /\ k \in Nat /\ m \in 0 .. n /\ m + 1 = k /\ h \in Nat
  <2>1. ps[k] \in PieceSet /\ n \in Nat
    BY <1>0
  <2> QED
    BY <1>0, <2>1 DEF PieceSet
<1>2. /\ f \in Seq(PieceSet) /\ SubSeq(ps, k, n) \in Seq(PieceSet)
      /\ Len(Bytes(f)) = Start(ps, k) /\ Bytes(ps) = Bytes(f) \o Bytes(SubSeq(ps, k, n))
  <2>1. f = SubSeq(ps, 1, m) /\ SubSeq(ps, k, n) = SubSeq(ps, m + 1, Len(ps))
    BY <1>0, <1>1
  <2>2. /\ SubSeq(ps, 1, m) \in Seq(PieceSet) /\ SubSeq(ps, m + 1, Len(ps)) \in Seq(PieceSet)
        /\ Len(Bytes(SubSeq(ps, 1, m))) = Ends(ps)[m]
        /\ Bytes(ps) = Bytes(SubSeq(ps, 1, m)) \o Bytes(SubSeq(ps, m + 1, Len(ps)))
    <3>1. m \in 0 .. Len(ps)
      BY <1>0, <1>1
    <3> QED
      BY <3>1, Between
  <2>3. Start(ps, k) = Ends(ps)[m]
    BY <1>0 DEF Start
  <2> QED
    BY <2>1, <2>2, <2>3
<1>3. b \in Seq(PieceSet)
  <2>1. k \in 0 .. Len(ps)
    BY <1>0, <1>1
  <2> QED
    BY <1>0, <2>1, Between
<1>4. Bytes(SubSeq(ps, k, n)) = v \o Bytes(b)
  <2>1. SubSeq(ps, k, n) = <<ps[k]>> \o b
    <3>1. n \in k .. Len(ps)
      BY <1>0, <1>1
    <3> QED
      BY <1>0, <3>1, SubSeqRecursiveFirst
  <2>2. PICK w : w = <<ps[k]>>
    OBVIOUS
  <2>3. w \in Seq(PieceSet) /\ Bytes(w) = v
    BY <1>0, <1>1, <2>2, BytesOfOne
  <2> QED
    BY <1>3, <2>1, <2>2, <2>3, BytesJoined
<1>5. PICK x, y, c, d : /\ x = Bytes(f) /\ y = Bytes(b)
                        /\ c = SubSeq(v, 1, l) /\ d = SubSeq(v, l + 1, h)
  OBVIOUS
<1>6. x \in Seq(Byte) /\ y \in Seq(Byte)
  BY <1>2, <1>3, <1>5, BytesTyped
<1>7. v \in Seq(Byte) /\ Len(v) = h /\ l \in Nat /\ l <= h
  BY <1>0, <1>1, Views
<1>8. c \in Seq(Byte) /\ Len(c) = l /\ d \in Seq(Byte) /\ v = c \o d
  <2>1. 1 \in 1 .. Len(v) + 1 /\ l \in 1 - 1 .. Len(v) /\ l - 1 + 1 = l
    BY <1>1, <1>7
  <2>2. c \in Seq(Byte) /\ Len(c) = l
    BY <1>5, <1>7, <2>1, Slice
  <2>3. d \in Seq(Byte)
    <3>1. PICK i : i = l + 1
      OBVIOUS
    <3>2. i \in 1 .. Len(v) + 1 /\ h \in i - 1 .. Len(v)
      BY <1>1, <1>7, <3>1
    <3> QED
      BY <1>5, <1>7, <3>1, <3>2, Slice
  <2>4. SubSeq(v, 1, l) \o SubSeq(v, l + 1, h) = SubSeq(v, 1, h)
    <3>1. h \in l .. Len(v)
      BY <1>1, <1>7
    <3> QED
      BY <1>7, <2>1, <3>1, ConcatAdjacentSubSeq
  <2>5. SubSeq(v, 1, h) = v
    BY <1>7, SubSeqFull
  <2> QED
    BY <1>5, <2>2, <2>3, <2>4, <2>5
<1>9. PICK p, q : p = x \o c /\ q = d \o y
  OBVIOUS
<1>10. p \in Seq(Byte) /\ q \in Seq(Byte) /\ Len(p) = o
  <2>1. p \in Seq(Byte) /\ Len(p) = Len(x) + Len(c)
    BY <1>6, <1>8, <1>9, ConcatProperties
  <2>2. q \in Seq(Byte)
    BY <1>6, <1>8, <1>9, ConcatProperties
  <2> QED
    BY <1>2, <1>5, <1>8, <2>1, <2>2
<1>11. Bytes(ps) = p \o q
  <2>1. Bytes(ps) = x \o ((c \o d) \o y)
    BY <1>2, <1>4, <1>5, <1>8
  <2>2. Regroups(x, c, d, y)
    <3>1. Strings(x, c, d, y)
      BY <1>6, <1>8 DEF Strings
    <3> QED
      BY <3>1, Regrouped
  <2> QED
    BY <1>9, <2>1, <2>2 DEF Regroups
<1>12. SubSeq(Bytes(ps), 1, o) = p /\ SubSeq(Bytes(ps), o + 1, Len(Bytes(ps))) = q
  <2>1. SubSeq(p \o q, 1, Len(p)) = p /\ SubSeq(p \o q, Len(p) + 1, Len(p \o q)) = q
    BY <1>10, CutBytes
  <2> QED
    BY <1>10, <1>11, <2>1
<1>13. f = SubSeq(ps, 1, k - 1) /\ b = SubSeq(ps, k + 1, Len(ps))
  BY <1>0
<1> QED
  BY <1>0, <1>2, <1>3, <1>5, <1>8, <1>9, <1>12, <1>13

\* What a splice of pieces shows: the pieces before, the new, those after.
Rows(f, ms, b) == f \in Seq(PieceSet) /\ ms \in Seq(PieceSet) /\ b \in Seq(PieceSet)
Shows(r, x, w, y) == r \in Seq(PieceSet) /\ Bytes(r) = (x \o w) \o y

LEMMA RowsShow ==
    ASSUME NEW f, NEW ms, NEW b, Rows(f, ms, b)
    PROVE  Shows(f \o ms \o b, Bytes(f), Bytes(ms), Bytes(b))
<1>0. f \in Seq(PieceSet) /\ ms \in Seq(PieceSet) /\ b \in Seq(PieceSet)
  BY DEF Rows
<1>1. PICK s, r : s = f \o ms /\ r = s \o b
  OBVIOUS
<1>2. s \in Seq(PieceSet) /\ Bytes(s) = Bytes(f) \o Bytes(ms)
  BY <1>0, <1>1, BytesJoined
<1>3. r \in Seq(PieceSet) /\ Bytes(r) = Bytes(s) \o Bytes(b)
  BY <1>0, <1>1, <1>2, BytesJoined
<1> QED
  BY <1>1, <1>2, <1>3 DEF Shows

\* A tuple of three pieces is a concatenation.
Singles(x, y, z, a, b, c) == x = <<a>> /\ y = <<b>> /\ z = <<c>>

LEMMA ThreeInARow ==
    ASSUME NEW a, NEW b, NEW c, NEW x, NEW y, NEW z, Singles(x, y, z, a, b, c)
    PROVE  <<a, b, c>> = x \o y \o z
<1>1. PICK S : S = {a, b, c} /\ x = <<a>> /\ y = <<b>> /\ z = <<c>>
  BY DEF Singles
<1>2. x \in Seq(S) /\ y \in Seq(S) /\ z \in Seq(S) /\ <<a, b, c>> \in Seq(S)
  BY <1>1
<1>3. PICK u, v : u = x \o y /\ v = u \o z
  OBVIOUS
<1>4. u \in Seq(S) /\ Len(u) = 2 /\ u[1] = a /\ u[2] = b
  BY <1>1, <1>2, <1>3
<1>5. v \in Seq(S) /\ Len(v) = 3 /\ v[1] = a /\ v[2] = b /\ v[3] = c
  BY <1>1, <1>2, <1>3, <1>4
<1>6. PICK t : t = <<a, b, c>>
  OBVIOUS
<1>7. t \in Seq(S) /\ Len(t) = 3 /\ t[1] = a /\ t[2] = b /\ t[3] = c
  BY <1>2, <1>6
<1>8. Len(t) = Len(v) /\ \A i \in 1 .. Len(t) : t[i] = v[i]
  BY <1>5, <1>7
<1>9. t = v
  BY <1>5, <1>7, <1>8, SeqEqual
<1> QED
  BY <1>3, <1>6, <1>9

\* A piece of new bytes shows them.
LEMMA NewPiece ==
    ASSUME NEW new \in Seq(Byte), new # <<>>
    PROVE  Piece(new) \in PieceSet /\ View(Piece(new)) = new
<1>1. PICK n : n = Len(new)
  OBVIOUS
<1>2. n \in Nat /\ n > 0
  BY <1>1
<1>3. SubSeq(new, 1, n) = new
  BY <1>1, SubSeqFull
<1>4. 0 + 1 = 1 /\ 0 + n = n
  BY <1>2
<1> QED
  BY <1>1, <1>2, <1>3, <1>4 DEF Piece, View, PieceSet

\* Concatenation is associative; five strings in two groupings.
Associates(s, t, u) == (s \o t) \o u = s \o (t \o u)

LEMMA Association ==
    ASSUME NEW s, NEW t, NEW u, Strings(s, t, u, <<>>)
    PROVE  Associates(s, t, u)
<1>0. s \in Seq(Byte) /\ t \in Seq(Byte) /\ u \in Seq(Byte)
  BY DEF Strings
<1> QED
  BY <1>0, BytesAssociative, Zenon DEF Associates

Middle(x, c, w, d, y) ==
    (x \o ((c \o w) \o d)) \o y = ((x \o c) \o w) \o (d \o y)

LEMMA MiddleRegrouped ==
    ASSUME NEW x, NEW c, NEW w, NEW d, NEW y, Strings(x, c, d, y), w \in Seq(Byte)
    PROVE  Middle(x, c, w, d, y)
<1>0. x \in Seq(Byte) /\ c \in Seq(Byte) /\ d \in Seq(Byte) /\ y \in Seq(Byte) /\ w \in Seq(Byte)
  BY DEF Strings
<1>1. PICK q, u, v : q = d \o y /\ u = c \o w /\ v = x \o u
  OBVIOUS
<1>2. u \in Seq(Byte) /\ v \in Seq(Byte) /\ <<>> \in Seq(Byte)
  BY <1>0, <1>1, ConcatProperties
<1>3. Strings(x, c, w, <<>>) /\ Strings(x, u, d, <<>>) /\ Strings(v, d, y, <<>>)
  BY <1>0, <1>2 DEF Strings
<1>4. Associates(x, c, w) /\ Associates(x, u, d) /\ Associates(v, d, y)
  BY <1>3, Association
<1> QED
  BY <1>1, <1>4 DEF Middle, Associates

\* Inserting new bytes, between two pieces or inside one that is split, shows
\* the bytes with the new ones inserted.
LEMMA InsertShows ==
    ASSUME NEW ps \in Seq(PieceSet), NEW o \in 0 .. SumLengths(ps), NEW new \in Seq(Byte), new # <<>>
    PROVE  /\ InsertInternal(ps, o, new) \in Seq(PieceSet)
           /\ Bytes(InsertInternal(ps, o, new)) = Inserted(Bytes(ps), o, new)
<1>0. PICK k, local, n, B, r : /\ k = Locate(ps, o) /\ local = o - Start(ps, k) /\ n = Len(ps)
                               /\ B = Bytes(ps) /\ r = InsertInternal(ps, o, new)
  OBVIOUS
<1>1. /\ n \in Nat /\ k \in 1 .. n + 1 /\ o \in Nat /\ Start(ps, k) \in Nat /\ Start(ps, k) <= o
      /\ (k <= n => o < Ends(ps)[k])
  <2>1. k \in 1 .. n + 1 /\ Start(ps, k) <= o /\ (k <= n => o < Ends(ps)[k])
    BY <1>0, Located
  <2>2. n \in Nat
    BY <1>0
  <2>3. k - 1 \in 0 .. n
    BY <2>1, <2>2
  <2>4. Ends(ps) \in [0 .. n -> Nat]
    BY <1>0, EndsOf
  <2>5. Start(ps, k) \in Nat
    BY <2>3, <2>4 DEF Start
  <2>6. SumLengths(ps) \in Nat
    BY <1>0, <2>2, <2>4 DEF SumLengths
  <2> QED
    BY <2>1, <2>2, <2>5, <2>6
<1>2. PICK w, f : w = <<Piece(new)>> /\ f = SubSeq(ps, 1, k - 1)
  OBVIOUS
<1>3. w \in Seq(PieceSet) /\ Bytes(w) = new
  BY <1>2, NewPiece, BytesOfOne
<1>4. r = IF local = 0 THEN Splice(ps, k, 0, w)
          ELSE Splice(ps, k, 1, <<Part(ps[k], 0, local), Piece(new),
                                  Part(ps[k], local, ps[k].length - local)>>)
  BY <1>0, <1>2 DEF InsertInternal
<1>5. CASE local = 0
  <2>1. PICK m, b : m = k - 1 /\ b = SubSeq(ps, k, n)
    OBVIOUS
  <2>2. m \in 0 .. Len(ps) /\ m + 1 = k /\ k + 0 = k
    BY <1>0, <1>1, <2>1
  <2>3. /\ f \in Seq(PieceSet) /\ b \in Seq(PieceSet)
        /\ Len(Bytes(f)) = Ends(ps)[m] /\ B = Bytes(f) \o Bytes(b)
    <3>1. f = SubSeq(ps, 1, m) /\ b = SubSeq(ps, m + 1, Len(ps))
      BY <1>0, <1>2, <2>1, <2>2
    <3>2. /\ SubSeq(ps, 1, m) \in Seq(PieceSet) /\ SubSeq(ps, m + 1, Len(ps)) \in Seq(PieceSet)
          /\ Len(Bytes(SubSeq(ps, 1, m))) = Ends(ps)[m]
          /\ Bytes(ps) = Bytes(SubSeq(ps, 1, m)) \o Bytes(SubSeq(ps, m + 1, Len(ps)))
      BY <2>2, Between
    <3> QED
      BY <1>0, <3>1, <3>2
  <2>4. Len(Bytes(f)) = o
    BY <1>0, <1>1, <1>5, <2>1, <2>3 DEF Start
  <2>5. PICK x, y : x = Bytes(f) /\ y = Bytes(b)
    OBVIOUS
  <2>6. x \in Seq(Byte) /\ y \in Seq(Byte) /\ B = x \o y /\ Len(x) = o
    BY <2>3, <2>4, <2>5, BytesTyped
  <2>7. SubSeq(B, 1, o) = x /\ SubSeq(B, o + 1, Len(B)) = y
    BY <2>6, Cut
  <2>8. r = f \o w \o b
    BY <1>0, <1>2, <1>4, <1>5, <2>1, <2>2 DEF Splice
  <2>9. Shows(r, x, new, y)
    <3>1. Rows(f, w, b)
      BY <1>3, <2>3 DEF Rows
    <3> QED
      BY <1>3, <2>5, <2>8, <3>1, RowsShow
  <2> QED
    BY <1>0, <2>7, <2>9 DEF Inserted, Shows
<1>6. CASE local # 0
  <2>1. PICK b, p, h, v : b = SubSeq(ps, k + 1, n) /\ p = ps[k] /\ h = ps[k].length /\ v = View(ps[k])
    OBVIOUS
  <2>2. local \in Nat \ {0} /\ k \in 1 .. n /\ p \in PieceSet /\ h \in Nat /\ local < h
    <3>1. local \in Nat \ {0}
      BY <1>0, <1>1, <1>6
    <3>2. k \in 1 .. n
      <4> SUFFICES ASSUME k = n + 1
                   PROVE  FALSE
        BY <1>1
      <4>1. Start(ps, k) = SumLengths(ps)
        <5>1. k - 1 = n
          BY <1>1
        <5> QED
          BY <1>0, <5>1 DEF Start, SumLengths
      <4> QED
        BY <1>0, <1>1, <1>6, <4>1
    <3>3. p \in PieceSet
      BY <1>0, <2>1, <3>2
    <3>4. h \in Nat
      BY <2>1, <3>3 DEF PieceSet
    <3>5. Ends(ps)[k] = Start(ps, k) + h /\ o < Ends(ps)[k]
      <4>1. k \in 1 .. Len(ps)
        BY <1>0, <3>2
      <4>2. Ends(ps)[k] = Ends(ps)[k - 1] + ps[k].length
        BY <4>1, EndsOf
      <4> QED
        BY <1>1, <2>1, <3>2, <4>2 DEF Start
    <3> QED
      BY <1>0, <1>1, <3>1, <3>2, <3>3, <3>4, <3>5
  <2>3. PICK p1, p2, c, d : /\ p1 = Part(p, 0, local) /\ p2 = Part(p, local, h - local)
                            /\ c = SubSeq(v, 1, local) /\ d = SubSeq(v, local + 1, h)
    OBVIOUS
  <2>4. /\ f \in Seq(PieceSet) /\ b \in Seq(PieceSet) /\ c \in Seq(Byte) /\ d \in Seq(Byte)
        /\ SubSeq(B, 1, o) = Bytes(f) \o c /\ SubSeq(B, o + 1, Len(B)) = d \o Bytes(b)
    <3>1. k \in 1 .. Len(ps) /\ local \in 0 .. ps[k].length /\ o = Start(ps, k) + local
      BY <1>0, <1>1, <2>1, <2>2
    <3> QED
      BY <1>0, <1>2, <2>1, <2>3, <3>1, Inside
  <2>5. p1 \in PieceSet /\ View(p1) = c
    <3>1. /\ 0 \in Nat /\ local \in Nat \ {0} /\ 0 + local <= p.length
          /\ 0 + 1 = 1 /\ 0 + local = local
      BY <2>1, <2>2
    <3>2. Part(p, 0, local) \in PieceSet /\ View(Part(p, 0, local)) = SubSeq(View(p), 0 + 1, 0 + local)
      BY <2>2, <3>1, Parts
    <3> QED
      BY <2>1, <2>3, <3>1, <3>2
  <2>6. p2 \in PieceSet /\ View(p2) = d
    <3>1. PICK g : g = h - local
      OBVIOUS
    <3>2. local \in Nat /\ g \in Nat \ {0} /\ local + g = h /\ local + g <= p.length
      <4>1. local \in Nat /\ g \in Nat \ {0} /\ local + g = h
        BY <2>2, <3>1
      <4> QED
        BY <2>1, <2>2, <4>1
    <3>3. Part(p, local, g) \in PieceSet /\ View(Part(p, local, g)) = SubSeq(View(p), local + 1, local + g)
      BY <2>2, <3>2, Parts
    <3> QED
      BY <2>1, <2>3, <3>1, <3>2, <3>3
  <2>7. PICK w1, w2, ms : w1 = <<p1>> /\ w2 = <<p2>> /\ ms = <<p1, Piece(new), p2>>
    OBVIOUS
  <2>8. /\ w1 \in Seq(PieceSet) /\ Bytes(w1) = c
        /\ w2 \in Seq(PieceSet) /\ Bytes(w2) = d
    BY <2>5, <2>6, <2>7, BytesOfOne
  <2>9. ms = w1 \o w \o w2
    <3>1. PICK pn : pn = Piece(new)
      OBVIOUS
    <3>2. Singles(w1, w, w2, p1, pn, p2) /\ ms = <<p1, pn, p2>>
      BY <1>2, <2>7, <3>1 DEF Singles
    <3> QED
      BY <3>2, ThreeInARow
  <2>10. Shows(ms, c, new, d)
    <3>1. Rows(w1, w, w2)
      BY <1>3, <2>8 DEF Rows
    <3> QED
      BY <1>3, <2>8, <2>9, <3>1, RowsShow
  <2>11. r = f \o ms \o b
    BY <1>0, <1>2, <1>4, <1>6, <2>1, <2>3, <2>7 DEF Splice
  <2>12. PICK x, y : x = Bytes(f) /\ y = Bytes(b)
    OBVIOUS
  <2>13. Shows(r, x, (c \o new) \o d, y)
    <3>1. Rows(f, ms, b) /\ Bytes(ms) = (c \o new) \o d
      BY <2>4, <2>10 DEF Rows, Shows
    <3> QED
      BY <2>11, <2>12, <3>1, RowsShow
  <2>14. Middle(x, c, new, d, y)
    <3>1. Strings(x, c, d, y)
      BY <2>4, <2>12, BytesTyped DEF Strings
    <3> QED
      BY <3>1, MiddleRegrouped
  <2>15. Bytes(r) = ((x \o c) \o new) \o (d \o y)
    BY <2>13, <2>14 DEF Middle, Shows
  <2> QED
    BY <1>0, <2>4, <2>12, <2>13, <2>15 DEF Inserted, Shows
<1> QED
  BY <1>5, <1>6

\* A byte that is there is in a piece.
LEMMA Holder ==
    ASSUME NEW ps \in Seq(PieceSet), NEW o \in Nat, o < SumLengths(ps), NEW k, k = Locate(ps, o)
    PROVE  /\ k \in 1 .. Len(ps) /\ ps[k] \in PieceSet /\ ps[k].length \in Nat
           /\ Start(ps, k) \in Nat /\ Start(ps, k) <= o
           /\ o < Ends(ps)[k] /\ Ends(ps)[k] = Start(ps, k) + ps[k].length
<1>0. PICK n, e, s : n = Len(ps) /\ e = Ends(ps) /\ s = SumLengths(ps)
  OBVIOUS
<1>1. n \in Nat /\ e \in [0 .. n -> Nat] /\ \A i \in 1 .. n : e[i] = e[i - 1] + ps[i].length
  BY <1>0, EndsOf
<1>2. s \in Nat /\ s = e[n]
  BY <1>0, <1>1 DEF SumLengths
<1>3. k \in 1 .. n + 1 /\ e[k - 1] <= o /\ (k <= n => o < e[k])
  <2>1. o \in 0 .. SumLengths(ps)
    BY <1>0, <1>2
  <2> QED
    BY <1>0, <2>1, Located DEF Start
<1>4. k \in 1 .. n
  <2> SUFFICES ASSUME k = n + 1
               PROVE  FALSE
    BY <1>1, <1>3
  <2>1. k - 1 = n
    BY <1>1
  <2> QED
    BY <1>0, <1>2, <1>3, <2>1
<1>5. ps[k] \in PieceSet
  BY <1>0, <1>4
<1>6. ps[k].length \in Nat
  BY <1>5 DEF PieceSet
<1>7. e[k - 1] \in Nat /\ e[k] = e[k - 1] + ps[k].length /\ o < e[k]
  <2>1. k - 1 \in 0 .. n
    BY <1>1, <1>4
  <2> QED
    BY <1>1, <1>3, <1>4, <2>1
<1> QED
  BY <1>0, <1>3, <1>4, <1>5, <1>6, <1>7 DEF Start

\* What is left of a piece: nothing, or a smaller piece.
Left(p, from, count) == IF count = 0 THEN <<>> ELSE <<Part(p, from, count)>>

LEMMA Remainder ==
    ASSUME NEW p \in PieceSet, NEW from \in Nat, NEW count \in Nat, from + count <= p.length
    PROVE  /\ Left(p, from, count) \in Seq(PieceSet)
           /\ Bytes(Left(p, from, count)) = SubSeq(View(p), from + 1, from + count)
<1>1. CASE count = 0
  <2>1. SubSeq(View(p), from + 1, from + count) = <<>>
    BY <1>1, SubSeqEmpty
  <2>2. Left(p, from, count) = <<>>
    BY <1>1 DEF Left
  <2>3. <<>> \in Seq(PieceSet)
    OBVIOUS
  <2> QED
    BY <2>1, <2>2, <2>3, BytesOfNone
<1>2. CASE count # 0
  <2>1. PICK q : q = Part(p, from, count)
    OBVIOUS
  <2>2. q \in PieceSet /\ View(q) = SubSeq(View(p), from + 1, from + count)
    <3>1. count \in Nat \ {0}
      BY <1>2
    <3> QED
      BY <2>1, <3>1, Parts
  <2>3. Left(p, from, count) = <<q>>
    BY <1>2, <2>1 DEF Left
  <2> QED
    BY <2>2, <2>3, BytesOfOne
<1> QED
  BY <1>1, <1>2

\* Deleting a range, of one piece or across several, shows the bytes without it.
LEMMA DeleteShows ==
    ASSUME NEW ps \in Seq(PieceSet), NEW o \in Nat, NEW count \in Nat \ {0},
           o + count <= SumLengths(ps)
    PROVE  /\ DeleteInternal(ps, o, count) \in Seq(PieceSet)
           /\ Bytes(DeleteInternal(ps, o, count)) = Deleted(Bytes(ps), o, count)
<1>0. PICK i, j, local, rest, n, B, r :
        /\ i = Locate(ps, o) /\ j = Locate(ps, o + count - 1)
        /\ local = o - Start(ps, i) /\ rest = Start(ps, j + 1) - (o + count)
        /\ n = Len(ps) /\ B = Bytes(ps) /\ r = DeleteInternal(ps, o, count)
  OBVIOUS
<1>1. n \in Nat /\ SumLengths(ps) \in Nat
  <2>1. n \in Nat
    BY <1>0
  <2>2. Ends(ps) \in [0 .. n -> Nat]
    BY <1>0, EndsOf
  <2> QED
    BY <1>0, <2>1, <2>2 DEF SumLengths
<1>2. PICK z : z = o + count - 1
  OBVIOUS
<1>3. z \in Nat /\ z < SumLengths(ps) /\ o < SumLengths(ps) /\ o <= z /\ z + 1 = o + count
  BY <1>1, <1>2
<1>4. /\ i \in 1 .. n /\ ps[i] \in PieceSet /\ ps[i].length \in Nat
      /\ Start(ps, i) \in Nat /\ Start(ps, i) <= o
      /\ o < Ends(ps)[i] /\ Ends(ps)[i] = Start(ps, i) + ps[i].length
  BY <1>0, <1>3, Holder
<1>5. /\ j \in 1 .. n /\ ps[j] \in PieceSet /\ ps[j].length \in Nat
      /\ Start(ps, j) \in Nat /\ Start(ps, j) <= z
      /\ z < Ends(ps)[j] /\ Ends(ps)[j] = Start(ps, j) + ps[j].length
  <2>1. j = Locate(ps, z)
    BY <1>0, <1>2
  <2> QED
    BY <1>0, <1>3, <2>1, Holder
<1>6. i <= j
  <2> SUFFICES ASSUME j < i
               PROVE  FALSE
    BY <1>4, <1>5
  <2>1. PICK m : m = i - 1
    OBVIOUS
  <2>2. j \in 0 .. Len(ps) /\ m \in j .. Len(ps)
    <3>1. n \in Nat /\ i \in 1 .. n /\ j \in 1 .. n /\ j < i
      BY <1>1, <1>4, <1>5
    <3>2. j \in 0 .. n /\ m \in j .. n
      BY <2>1, <3>1
    <3> QED
      BY <1>0, <3>2
  <2>3. Ends(ps)[j] <= Ends(ps)[m]
    BY <2>2, EndsGrow
  <2>4. Ends(ps)[m] = Start(ps, i)
    BY <2>1 DEF Start
  <2> QED
    BY <1>3, <1>4, <1>5, <2>3, <2>4
<1>7. PICK h, g, l, p, q, v, w :
        /\ h = ps[i].length /\ g = ps[j].length /\ l = g - rest
        /\ p = ps[i] /\ q = ps[j] /\ v = View(ps[i]) /\ w = View(ps[j])
  OBVIOUS
<1>8. /\ local \in Nat /\ local <= h /\ rest \in Nat /\ l \in Nat /\ l <= g /\ l + rest = g
      /\ o = Start(ps, i) + local /\ o + count = Start(ps, j) + l
  <2>1. Start(ps, j + 1) = Ends(ps)[j]
    <3>1. (j + 1) - 1 = j
      BY <1>1, <1>5
    <3> QED
      BY <3>1 DEF Start
  <2>2. PICK si, sj, ei, ej : /\ si = Start(ps, i) /\ sj = Start(ps, j)
                              /\ ei = Ends(ps)[i] /\ ej = Ends(ps)[j]
    OBVIOUS
  <2>3. /\ si \in Nat /\ h \in Nat /\ si <= o /\ o < ei /\ ei = si + h
        /\ sj \in Nat /\ g \in Nat /\ sj <= z /\ z < ej /\ ej = sj + g
        /\ local = o - si /\ rest = ej - (o + count) /\ l = g - rest
    BY <1>0, <1>4, <1>5, <1>7, <2>1, <2>2
  <2>4. /\ local \in Nat /\ local <= h /\ rest \in Nat /\ l \in Nat /\ l <= g /\ l + rest = g
        /\ o = si + local /\ o + count = sj + l
    BY <1>3, <2>3
  <2> QED
    BY <2>2, <2>4
<1>9. PICK f, b, c, d : /\ f = SubSeq(ps, 1, i - 1) /\ b = SubSeq(ps, j + 1, n)
                        /\ c = SubSeq(v, 1, local) /\ d = SubSeq(w, l + 1, g)
  OBVIOUS
<1>10. f \in Seq(PieceSet) /\ c \in Seq(Byte) /\ SubSeq(B, 1, o) = Bytes(f) \o c
  <2>1. i \in 1 .. Len(ps) /\ local \in 0 .. ps[i].length /\ o = Start(ps, i) + local
    BY <1>0, <1>4, <1>7, <1>8
  <2>2. /\ SubSeq(ps, 1, i - 1) \in Seq(PieceSet) /\ SubSeq(View(ps[i]), 1, local) \in Seq(Byte)
        /\ SubSeq(Bytes(ps), 1, o) = Bytes(SubSeq(ps, 1, i - 1)) \o SubSeq(View(ps[i]), 1, local)
    BY <2>1, Inside
  <2> QED
    BY <1>0, <1>7, <1>9, <2>2
<1>11. b \in Seq(PieceSet) /\ d \in Seq(Byte) /\ SubSeq(B, o + count + 1, Len(B)) = d \o Bytes(b)
  <2>1. PICK u : u = o + count
    OBVIOUS
  <2>2. j \in 1 .. Len(ps) /\ l \in 0 .. ps[j].length /\ u = Start(ps, j) + l
    BY <1>0, <1>5, <1>7, <1>8, <2>1
  <2>3. /\ SubSeq(ps, j + 1, Len(ps)) \in Seq(PieceSet)
        /\ SubSeq(View(ps[j]), l + 1, ps[j].length) \in Seq(Byte)
        /\ SubSeq(Bytes(ps), u + 1, Len(Bytes(ps)))
             = SubSeq(View(ps[j]), l + 1, ps[j].length) \o Bytes(SubSeq(ps, j + 1, Len(ps)))
    BY <2>2, Inside
  <2> QED
    BY <1>0, <1>7, <1>9, <2>1, <2>3
<1>12. PICK prefix, suffix : prefix = Left(p, 0, local) /\ suffix = Left(q, l, rest)
  OBVIOUS
<1>13. prefix \in Seq(PieceSet) /\ Bytes(prefix) = c
  <2>1. p \in PieceSet /\ 0 \in Nat /\ 0 + local = local /\ 0 + 1 = 1 /\ 0 + local <= p.length
    BY <1>4, <1>7, <1>8
  <2>2. /\ Left(p, 0, local) \in Seq(PieceSet)
        /\ Bytes(Left(p, 0, local)) = SubSeq(View(p), 0 + 1, 0 + local)
    BY <1>8, <2>1, Remainder
  <2> QED
    BY <1>7, <1>9, <1>12, <2>1, <2>2
<1>14. suffix \in Seq(PieceSet) /\ Bytes(suffix) = d
  <2>1. q \in PieceSet /\ l + rest <= q.length
    BY <1>5, <1>7, <1>8
  <2>2. /\ Left(q, l, rest) \in Seq(PieceSet)
        /\ Bytes(Left(q, l, rest)) = SubSeq(View(q), l + 1, l + rest)
    BY <1>8, <2>1, Remainder
  <2> QED
    BY <1>7, <1>8, <1>9, <1>12, <2>2
<1>15. r = f \o (prefix \o suffix) \o b
  <2>1. r = Splice(ps, i, j - i + 1, prefix \o suffix)
    BY <1>0, <1>7, <1>12 DEF DeleteInternal, Left
  <2>2. i + (j - i + 1) = j + 1
    BY <1>4, <1>5
  <2> QED
    BY <1>0, <1>9, <2>1, <2>2 DEF Splice
<1>16. PICK ms : ms = prefix \o suffix
  OBVIOUS
<1>17. ms \in Seq(PieceSet) /\ Bytes(ms) = c \o d
  BY <1>13, <1>14, <1>16, BytesJoined
<1>18. PICK x, y, t : x = Bytes(f) /\ y = Bytes(b) /\ t = c \o d
  OBVIOUS
<1>19. Shows(r, x, t, y)
  <2>1. Rows(f, ms, b)
    BY <1>10, <1>11, <1>17 DEF Rows
  <2> QED
    BY <1>15, <1>16, <1>17, <1>18, <2>1, RowsShow
<1>20. x \in Seq(Byte) /\ y \in Seq(Byte) /\ t \in Seq(Byte)
  <2>1. x \in Seq(Byte) /\ y \in Seq(Byte)
    BY <1>10, <1>11, <1>18, BytesTyped
  <2> QED
    BY <1>10, <1>11, <1>18, <2>1, ConcatProperties
<1>21. Regroups(x, c, d, y) /\ Associates(x, t, y)
  <2>1. Strings(x, c, d, y) /\ Strings(x, t, y, <<>>)
    BY <1>10, <1>11, <1>20 DEF Strings
  <2> QED
    BY <2>1, Regrouped, Association
<1>22. r \in Seq(PieceSet) /\ Bytes(r) = (x \o c) \o (d \o y)
  BY <1>18, <1>19, <1>21 DEF Shows, Regroups, Associates
<1> QED
  BY <1>0, <1>10, <1>11, <1>18, <1>22 DEF Deleted

-----------------------------------------------------------------------------
(* The table and the buffer it implements.                                 *)

\* The inductive invariant: references as above, pieces that are ranges of
\* bytes, and a cached length that is theirs.
Inv == /\ References
       /\ arrays \in Seq(Seq(PieceSet))
       /\ length = SumLengths(Current)

\* What an edit is: its pieces show the bytes as edited, and are as many
\* bytes as the length that the table caches.
Edited(ps, bytes) ==
    /\ ps \in Seq(PieceSet)
    /\ Edit(ps, SumLengths(ps))
    /\ Bytes(ps) = bytes

\* What the table shows, and that the cached length counts it.
LEMMA CurrentPieces ==
    ASSUME Inv
    PROVE  /\ Current \in Seq(PieceSet) /\ Bytes(Current) \in Seq(Byte)
           /\ length \in Nat /\ length = Len(Bytes(Current))
<1>1. pieces \in 1 .. Len(arrays) /\ arrays \in Seq(Seq(PieceSet))
  BY DEF Inv, References
<1>2. Current \in Seq(PieceSet)
  BY <1>1 DEF Current
<1>3. Bytes(Current) \in Seq(Byte) /\ Len(Bytes(Current)) = SumLengths(Current)
  BY <1>2, BytesTyped
<1>4. Len(Bytes(Current)) \in Nat
  BY <1>3
<1> QED
  BY <1>2, <1>3, <1>4 DEF Inv

\* What is inserted is bytes, at least one.
LEMMA NewBytes ==
    ASSUME NEW new \in Inserts
    PROVE  new \in Seq(Byte) /\ new # <<>> /\ Len(new) \in Nat \ {0}
<1>1. new \in Seq(Byte) /\ new # <<>>
  BY EditsAssumption
<1> QED
  BY <1>1

\* Each kind of edit is an edit of the bytes shown.
LEMMA InsertEdits ==
    ASSUME Inv, NEW offset \in 0 .. length, NEW new \in Inserts, Insert(offset, new)
    PROVE  \E ps : Edited(ps, Inserted(Bytes(Current), offset, new))
<1>0. PICK cur, b, ps : cur = Current /\ b = Bytes(Current) /\ ps = InsertInternal(Current, offset, new)
  OBVIOUS
<1>1. /\ cur \in Seq(PieceSet) /\ b \in Seq(Byte) /\ length \in Nat /\ length = Len(b)
      /\ length = SumLengths(cur)
  BY <1>0, CurrentPieces DEF Inv
<1>2. new \in Seq(Byte) /\ new # <<>> /\ Len(new) \in Nat \ {0}
  BY NewBytes
<1>3. offset \in 0 .. SumLengths(cur)
  BY <1>1
<1>4. ps \in Seq(PieceSet) /\ Bytes(ps) = Inserted(b, offset, new)
  BY <1>0, <1>1, <1>2, <1>3, InsertShows
<1>5. SumLengths(ps) = length + Len(new)
  <2>1. Len(Bytes(ps)) = SumLengths(ps)
    BY <1>4, BytesTyped
  <2>2. offset \in 0 .. Len(b)
    BY <1>1
  <2>3. Len(Inserted(b, offset, new)) = offset + Len(new) + (Len(b) - offset)
    BY <1>1, <1>2, <2>2, InsertedBytes DEF Spliced
  <2> QED
    BY <1>1, <1>2, <1>4, <2>1, <2>2, <2>3
<1>6. Edit(ps, SumLengths(ps))
  BY <1>0, <1>5 DEF Insert
<1> QED
  BY <1>0, <1>4, <1>6 DEF Edited

LEMMA DeleteEdits ==
    ASSUME Inv, NEW offset \in 0 .. length, NEW count \in 1 .. length - offset, Delete(offset, count)
    PROVE  \E ps : Edited(ps, Deleted(Bytes(Current), offset, count))
<1>0. PICK cur, b, ps : cur = Current /\ b = Bytes(Current) /\ ps = DeleteInternal(Current, offset, count)
  OBVIOUS
<1>1. /\ cur \in Seq(PieceSet) /\ b \in Seq(Byte) /\ length \in Nat /\ length = Len(b)
      /\ length = SumLengths(cur)
  BY <1>0, CurrentPieces DEF Inv
<1>2. offset \in Nat /\ count \in Nat \ {0} /\ offset + count <= length
  BY <1>1
<1>3. ps \in Seq(PieceSet) /\ Bytes(ps) = Deleted(b, offset, count)
  <2>1. offset + count <= SumLengths(cur)
    BY <1>1, <1>2
  <2> QED
    BY <1>0, <1>1, <1>2, <2>1, DeleteShows
<1>4. SumLengths(ps) = length - count
  <2>1. Len(Bytes(ps)) = SumLengths(ps)
    BY <1>3, BytesTyped
  <2>2. offset + count <= Len(b) /\ count \in Nat /\ Len(<<>>) = 0
    BY <1>1, <1>2
  <2>3. Len(Deleted(b, offset, count)) = offset + Len(<<>>) + (Len(b) - (offset + count))
    <3>1. Spliced(Deleted(b, offset, count), b, <<>>, offset, offset + count)
      BY <1>1, <1>2, <2>2, DeletedBytes
    <3> QED
      BY <3>1 DEF Spliced
  <2> QED
    BY <1>1, <1>2, <1>3, <2>1, <2>2, <2>3
<1>5. Edit(ps, SumLengths(ps))
  BY <1>0, <1>4 DEF Delete
<1> QED
  BY <1>0, <1>3, <1>5 DEF Edited

\* What two byte sequences have been joined into can be cut there again.
Halves(b, a, c) == SubSeq(b, 1, Len(a)) = a /\ SubSeq(b, Len(a) + 1, Len(b)) = c

LEMMA Halved ==
    ASSUME NEW a, NEW c, Strings(a, c, <<>>, <<>>), NEW b, b = a \o c
    PROVE  Halves(b, a, c)
<1>1. a \in Seq(Byte) /\ c \in Seq(Byte)
  BY DEF Strings
<1> QED
  BY <1>1, Cut DEF Halves

\* What is left of the bytes, and then has new ones inserted, is overwritten,
\* whether or not the new bytes go past the end.
LEMMA DeletedThenInserted ==
    ASSUME NEW b \in Seq(Byte), NEW o \in 0 .. Len(b), NEW new \in Seq(Byte), NEW count \in Nat,
           count = IF Len(new) < Len(b) - o THEN Len(new) ELSE Len(b) - o,
           NEW d, d = Deleted(b, o, count)
    PROVE  Inserted(d, o, new) = Overwritten(b, o, new)
<1>0. Len(b) \in Nat /\ Len(new) \in Nat /\ o \in Nat /\ o + count <= Len(b)
  OBVIOUS
<1>1. PICK x, y, m : /\ x = SubSeq(b, 1, o) /\ y = SubSeq(b, o + count + 1, Len(b))
                     /\ m = o + count + 1
  OBVIOUS
<1>2. x \in Seq(Byte) /\ Len(x) = o
  <2>1. 1 \in 1 .. Len(b) + 1 /\ o \in 1 - 1 .. Len(b) /\ o - 1 + 1 = o
    BY <1>0
  <2> QED
    BY <1>1, <2>1, Slice
<1>3. y \in Seq(Byte)
  <2>1. m \in 1 .. Len(b) + 1 /\ Len(b) \in m - 1 .. Len(b)
    BY <1>0, <1>1
  <2> QED
    BY <1>1, <2>1, Slice
<1>4. d = x \o y
  BY <1>1 DEF Deleted
<1>5. SubSeq(d, 1, o) = x /\ SubSeq(d, o + 1, Len(d)) = y
  <2>1. Strings(x, y, <<>>, <<>>)
    BY <1>2, <1>3 DEF Strings
  <2>2. Halves(d, x, y)
    BY <1>4, <2>1, Halved
  <2> QED
    BY <1>2, <2>2 DEF Halves
<1>6. y = SubSeq(b, o + Len(new) + 1, Len(b))
  <2>1. CASE count = Len(new)
    BY <1>1, <2>1
  <2>2. CASE count # Len(new)
    <3>1. count = Len(b) - o /\ Len(b) < m /\ Len(b) < o + Len(new) + 1
      BY <1>0, <1>1, <2>2
    <3>2. m \in Int /\ o + Len(new) + 1 \in Int /\ Len(b) \in Int
      BY <1>0, <1>1
    <3>3. SubSeq(b, m, Len(b)) = <<>>
      BY <3>1, <3>2, SubSeqEmpty
    <3>4. SubSeq(b, o + Len(new) + 1, Len(b)) = <<>>
      BY <3>1, <3>2, SubSeqEmpty
    <3> QED
      BY <1>1, <3>3, <3>4
  <2> QED
    BY <2>1, <2>2
<1> QED
  BY <1>1, <1>5, <1>6 DEF Inserted, Overwritten

LEMMA OverwriteEdits ==
    ASSUME Inv, NEW offset \in 0 .. length, NEW new \in Inserts, Overwrite(offset, new)
    PROVE  \E ps : Edited(ps, Overwritten(Bytes(Current), offset, new))
<1>0. PICK cur, b, count : /\ cur = Current /\ b = Bytes(Current)
                           /\ count = IF Len(new) < length - offset THEN Len(new) ELSE length - offset
  OBVIOUS
<1>1. /\ cur \in Seq(PieceSet) /\ b \in Seq(Byte) /\ length \in Nat /\ length = Len(b)
      /\ length = SumLengths(cur)
  BY <1>0, CurrentPieces DEF Inv
<1>2. new \in Seq(Byte) /\ new # <<>> /\ Len(new) \in Nat \ {0}
  BY NewBytes
<1>3. offset \in Nat /\ count \in Nat /\ offset + count <= length
  BY <1>0, <1>1, <1>2
<1>4. PICK left : left = IF count > 0 THEN DeleteInternal(cur, offset, count) ELSE cur
  OBVIOUS
<1>5. left \in Seq(PieceSet) /\ Bytes(left) = Deleted(b, offset, count)
  <2>1. CASE count > 0
    <3>1. count \in Nat \ {0} /\ offset + count <= SumLengths(cur)
      BY <1>1, <1>3, <2>1
    <3> QED
      BY <1>0, <1>1, <1>3, <1>4, <2>1, <3>1, DeleteShows
  <2>2. CASE ~(count > 0)
    <3>1. count = 0 /\ offset = length
      BY <1>0, <1>1, <1>2, <1>3, <2>2
    <3>2. SubSeq(b, 1, Len(b)) = b
      BY <1>1, SubSeqFull
    <3>3. SubSeq(b, offset + count + 1, Len(b)) = <<>>
      <4>1. PICK m, n : m = offset + count + 1 /\ n = Len(b)
        OBVIOUS
      <4>2. m = length + 1 /\ n = length
        <5>1. m = length + 0 + 1
          BY <3>1, <4>1
        <5>2. n = length
          BY <1>1, <4>1
        <5>3. length \in Nat
          BY <1>1
        <5> QED
          BY <5>1, <5>2, <5>3
      <4>3. m \in Int /\ n \in Int /\ n < m
        BY <1>1, <4>2
      <4> QED
        BY <4>1, <4>3, SubSeqEmpty
    <3>4. b \o <<>> = b
      BY <1>1, ConcatEmptySeq
    <3>5. Deleted(b, offset, count) = b
      BY <1>1, <3>1, <3>2, <3>3, <3>4 DEF Deleted
    <3> QED
      BY <1>0, <1>1, <1>4, <2>2, <3>5
  <2> QED
    BY <2>1, <2>2
<1>6. SumLengths(left) = length - count
  <2>1. Len(Bytes(left)) = SumLengths(left)
    BY <1>5, BytesTyped
  <2>2. offset + count <= Len(b) /\ Len(<<>>) = 0
    BY <1>1, <1>3
  <2>3. Len(Deleted(b, offset, count)) = offset + Len(<<>>) + (Len(b) - (offset + count))
    BY <1>1, <1>3, <2>2, DeletedBytes DEF Spliced
  <2> QED
    BY <1>1, <1>3, <1>5, <2>1, <2>2, <2>3
<1>7. PICK ps, d : ps = InsertInternal(left, offset, new) /\ d = Bytes(left)
  OBVIOUS
<1>8. offset \in 0 .. SumLengths(left) /\ d \in Seq(Byte) /\ Len(d) = SumLengths(left)
  BY <1>1, <1>3, <1>5, <1>6, <1>7, BytesTyped
<1>9. ps \in Seq(PieceSet) /\ Bytes(ps) = Inserted(d, offset, new)
  BY <1>2, <1>5, <1>7, <1>8, InsertShows
<1>10. Inserted(d, offset, new) = Overwritten(b, offset, new)
  <2>1. /\ offset \in 0 .. Len(b) /\ d = Deleted(b, offset, count)
        /\ count = IF Len(new) < Len(b) - offset THEN Len(new) ELSE Len(b) - offset
    BY <1>0, <1>1, <1>5, <1>7
  <2> QED
    BY <1>1, <1>2, <1>3, <2>1, DeletedThenInserted
<1>11. SumLengths(ps) = length - count + Len(new)
  <2>1. Len(Bytes(ps)) = SumLengths(ps)
    BY <1>9, BytesTyped
  <2>2. offset \in 0 .. Len(d)
    BY <1>8
  <2>3. Len(Inserted(d, offset, new)) = offset + Len(new) + (Len(d) - offset)
    BY <1>2, <1>8, <2>2, InsertedBytes DEF Spliced
  <2> QED
    BY <1>1, <1>2, <1>3, <1>6, <1>8, <1>9, <2>1, <2>3
<1>12. Edit(ps, SumLengths(ps))
  BY <1>0, <1>4, <1>7, <1>11 DEF Overwrite
<1> QED
  BY <1>0, <1>9, <1>10, <1>12 DEF Edited

\* An edit keeps the invariant; its pieces are the table's.
LEMMA EditKeepsInv ==
    ASSUME Inv, NEW ps, NEW bytes, Edited(ps, bytes)
    PROVE  Inv' /\ Bytes(Current') = bytes
<1>1. ps \in Seq(PieceSet) /\ Edit(ps, SumLengths(ps)) /\ Bytes(ps) = bytes
  BY DEF Edited
<1>2. References'
  BY <1>1, EditKeepsReferences DEF Inv
<1>3. PICK S, n, spliced : /\ S = Seq(PieceSet) /\ n = Len(arrays)
                           /\ spliced = [arrays EXCEPT ![pieces] = ps]
  OBVIOUS
<1>4. arrays \in Seq(S) /\ n \in Nat /\ pieces \in 1 .. n /\ ps \in S /\ Current \in S
  BY <1>1, <1>3, CurrentPieces DEF Inv, References
<1>5. spliced \in Seq(S) /\ Len(spliced) = n /\ spliced[pieces] = ps
  BY <1>3, <1>4
<1>6. arrays' = Append(spliced, Current) /\ pieces' = pieces /\ length' = SumLengths(ps)
  BY <1>1, <1>3 DEF Edit
<1>7. arrays' \in Seq(S) /\ arrays'[pieces] = ps
  BY <1>4, <1>5, <1>6
<1>8. Current' = ps
  BY <1>6, <1>7 DEF Current
<1>9. arrays' \in Seq(Seq(PieceSet)) /\ length' = SumLengths(Current')
  BY <1>3, <1>6, <1>7, <1>8
<1> QED
  BY <1>1, <1>2, <1>8, <1>9 DEF Inv, SumLengths

\* Undo and redo keep it: the length is counted anew.
LEMMA MoveKeepsInv ==
    ASSUME Inv, Undo \/ Redo
    PROVE  Inv'
<1>1. References'
  BY UndoKeepsReferences, RedoKeepsReferences DEF Inv
<1>2. arrays' = arrays /\ length' = SumLengths(arrays[pieces'])
  BY DEF Undo, Redo
<1>3. length' = SumLengths(Current')
  BY <1>2 DEF Current
<1> QED
  BY <1>1, <1>2, <1>3 DEF Inv, SumLengths

\* Every step is an edit of the bytes shown, an undo or a redo.
Deed ==
    \/ \E offset \in 0 .. length, new \in Inserts : \E ps :
          \/ Edited(ps, Inserted(Bytes(Current), offset, new))
          \/ Edited(ps, Overwritten(Bytes(Current), offset, new))
    \/ \E offset \in 0 .. length : \E count \in 1 .. length - offset : \E ps :
          Edited(ps, Deleted(Bytes(Current), offset, count))
    \/ Undo \/ Redo

LEMMA Deeds ==
    ASSUME Inv, Next
    PROVE  Deed /\ version' = version + 1
<1>1. ASSUME NEW offset \in 0 .. length, NEW new \in Inserts, Insert(offset, new)
      PROVE  Deed
  BY <1>1, InsertEdits DEF Deed
<1>2. ASSUME NEW offset \in 0 .. length, NEW new \in Inserts, Overwrite(offset, new)
      PROVE  Deed
  BY <1>2, OverwriteEdits DEF Deed
<1>3. ASSUME NEW offset \in 0 .. length, NEW count \in 1 .. length - offset, Delete(offset, count)
      PROVE  Deed
  BY <1>3, DeleteEdits DEF Deed
<1>4. ASSUME Undo \/ Redo
      PROVE  Deed
  BY <1>4 DEF Deed
<1>5. Deed
  BY <1>1, <1>2, <1>3, <1>4, Zenon DEF Next
<1>6. version' = version + 1
  BY Zenon DEF Next
<1> QED
  BY <1>5, <1>6

\* At first the table shows the initial bytes, in one piece or none.
LEMMA InvBegins ==
    ASSUME Init
    PROVE  Inv /\ Bytes(Current) = Initial
<1>1. PICK first : first = IF Initial = <<>> THEN <<>> ELSE <<Piece(Initial)>>
  OBVIOUS
<1>2. Initial \in Seq(Byte)
  BY EditsAssumption
<1>3. first \in Seq(PieceSet) /\ Bytes(first) = Initial
  <2>1. CASE Initial = <<>>
    <3>1. first = <<>>
      BY <1>1, <2>1
    <3>2. <<>> \in Seq(PieceSet)
      OBVIOUS
    <3> QED
      BY <2>1, <3>1, <3>2, BytesOfNone
  <2>2. CASE Initial # <<>>
    <3>1. Piece(Initial) \in PieceSet /\ View(Piece(Initial)) = Initial
      BY <1>2, <2>2, NewPiece
    <3>2. first = <<Piece(Initial)>>
      BY <1>1, <2>2
    <3> QED
      BY <3>1, <3>2, BytesOfOne
  <2> QED
    BY <2>1, <2>2
<1>4. arrays = <<first>> /\ pieces = 1 /\ length = Len(Initial)
  BY <1>1 DEF Init
<1>5. Current = first
  BY <1>4 DEF Current
<1>6. arrays \in Seq(Seq(PieceSet))
  <2>1. PICK S : S = Seq(PieceSet)
    OBVIOUS
  <2>2. arrays \in Seq(S)
    BY <1>3, <1>4, <2>1
  <2> QED
    BY <2>1, <2>2
<1>7. length = SumLengths(Current)
  BY <1>3, <1>4, <1>5, BytesTyped
<1>8. References
  BY ReferencesBegin
<1> QED
  BY <1>3, <1>5, <1>6, <1>7, <1>8 DEF Inv

LEMMA InvKept ==
    ASSUME Inv, [Next]_vars
    PROVE  Inv'
<1>1. CASE Next
  <2>1. Deed
    BY <1>1, Deeds
  <2> QED
    BY <2>1, EditKeepsInv, MoveKeepsInv DEF Deed
<1>2. CASE UNCHANGED vars
  <2>1. References'
    BY <1>2 DEF vars, Inv, References, Unshared
  <2> QED
    BY <1>2, <2>1 DEF vars, Inv, Current, SumLengths
<1> QED
  BY <1>1, <1>2

\* What holds of the table at all times: its pieces are ranges of bytes that
\* are there, none of them empty, and it caches their length.
THEOREM Invariance == Spec => []Inv
BY InvBegins, InvKept, PTL DEF Spec

-----------------------------------------------------------------------------
(* The stacks, as what their arrays show.                                  *)

\* A list, by its length and elements, is a sequence.
List(c, n, S) == n \in Nat /\ c = [k \in 1 .. n |-> c[k]] /\ \A k \in 1 .. n : c[k] \in S

LEMMA Listed ==
    ASSUME NEW c, NEW n, NEW S, List(c, n, S)
    PROVE  c \in Seq(S) /\ Len(c) = n
<1>1. n \in Nat /\ c = [k \in 1 .. n |-> c[k]] /\ \A k \in 1 .. n : c[k] \in S
  BY DEF List
<1> QED
  BY <1>1

\* The sequence c holds what the arrays s refers to show.
Stacked(c, A, s) ==
    /\ A \in Seq(Seq(PieceSet)) /\ s \in Seq(1 .. Len(A))
    /\ c = [k \in DOMAIN s |-> Bytes(A[s[k]])]

Displays(c, A, s, S, n) ==
    c \in Seq(S) /\ Len(c) = n /\ \A k \in 1 .. n : c[k] = Bytes(A[s[k]])

LEMMA StackDisplays ==
    ASSUME NEW c, NEW A, NEW s, Stacked(c, A, s)
    PROVE  Displays(c, A, s, Seq(Byte), Len(s))
<1>0. A \in Seq(Seq(PieceSet)) /\ s \in Seq(1 .. Len(A)) /\ c = [k \in DOMAIN s |-> Bytes(A[s[k]])]
  BY DEF Stacked
<1>9. Len(s) \in Nat
  BY <1>0
<1>1. PICK n : n = Len(s) /\ n \in Nat
  BY <1>9
<1>2. DOMAIN s = 1 .. n /\ \A k \in 1 .. n : s[k] \in 1 .. Len(A)
  BY <1>0, <1>1
<1>3. \A k \in 1 .. n : c[k] = Bytes(A[s[k]])
  BY <1>0, <1>2
<1>4. ASSUME NEW k \in 1 .. n
      PROVE  c[k] \in Seq(Byte)
  <2>1. PICK i : i = s[k]
    OBVIOUS
  <2>2. i \in 1 .. Len(A)
    BY <1>2, <2>1
  <2>3. A[i] \in Seq(PieceSet)
    BY <1>0, <2>2
  <2> QED
    BY <1>3, <2>1, <2>3, BytesTyped
<1>5. c = [k \in 1 .. n |-> c[k]]
  BY <1>0, <1>2
<1>6. PICK B : B = Seq(Byte)
  OBVIOUS
<1>7. c \in Seq(B) /\ Len(c) = n
  <2>1. \A k \in 1 .. n : c[k] \in B
    BY <1>4, <1>6
  <2> QED
    <3>1. List(c, n, B)
      BY <1>1, <1>5, <2>1 DEF List
    <3> QED
      BY <3>1, Listed
<1>8. Displays(c, A, s, B, n)
  BY <1>3, <1>7 DEF Displays
<1> QED
  BY <1>1, <1>6, <1>8

LEMMA StackShows ==
    ASSUME NEW A \in Seq(Seq(PieceSet)), NEW s \in Seq(1 .. Len(A)), NEW c,
           c = [k \in DOMAIN s |-> Bytes(A[s[k]])]
    PROVE  /\ c \in Seq(Seq(Byte)) /\ Len(c) = Len(s)
           /\ \A k \in 1 .. Len(s) : c[k] = Bytes(A[s[k]])
<1>1. Stacked(c, A, s)
  BY DEF Stacked
<1>2. Displays(c, A, s, Seq(Byte), Len(s))
  BY <1>1, StackDisplays
<1> QED
  BY <1>2 DEF Displays

\* The last element makes the difference: a push, a pop.
LEMMA Pushed ==
    ASSUME NEW S, NEW c \in Seq(S), NEW d \in Seq(S), NEW v \in S, Len(d) = Len(c) + 1,
           \A k \in 1 .. Len(c) : d[k] = c[k], d[Len(c) + 1] = v
    PROVE  d = Append(c, v)
<1>1. PICK e, n : e = Append(c, v) /\ n = Len(c)
  OBVIOUS
<1>2. e \in Seq(S) /\ Len(e) = n + 1 /\ (\A k \in 1 .. n : e[k] = c[k]) /\ e[n + 1] = v
  BY <1>1, AppendProperties
<1>3. n \in Nat /\ Len(d) = n + 1 /\ (\A k \in 1 .. n : d[k] = c[k]) /\ d[n + 1] = v
  BY <1>1
<1>4. \A k \in 1 .. Len(d) : d[k] = e[k]
  <2> TAKE k \in 1 .. Len(d)
  <2>1. k \in 1 .. n \/ k = n + 1
    BY <1>3
  <2> QED
    BY <1>2, <1>3, <2>1
<1>5. d = e
  BY <1>2, <1>3, <1>4, SeqEqual
<1> QED
  BY <1>1, <1>5

LEMMA Popped ==
    ASSUME NEW S, NEW c \in Seq(S), NEW d \in Seq(S), Len(c) > 0, Len(d) = Len(c) - 1,
           \A k \in 1 .. Len(d) : d[k] = c[k]
    PROVE  d = SubSeq(c, 1, Len(c) - 1)
<1>1. PICK e, n : e = SubSeq(c, 1, Len(c) - 1) /\ n = Len(c) - 1
  OBVIOUS
<1>2. n \in Nat /\ Len(c) = n + 1 /\ Len(d) = n
  BY <1>1
<1>3. e \in Seq(S) /\ Len(e) = n /\ \A k \in 1 .. n : e[k] = c[k]
  <2>1. 1 \in 1 .. Len(c) + 1 /\ n \in 1 - 1 .. Len(c) /\ n - 1 + 1 = n
    BY <1>2
  <2>2. e \in Seq(S) /\ Len(e) = n - 1 + 1 /\ \A k \in 1 .. n - 1 + 1 : e[k] = c[1 + k - 1]
    BY <1>1, <2>1, Slice
  <2>3. \A k \in 1 .. n : 1 + k - 1 = k
    OBVIOUS
  <2> QED
    BY <2>1, <2>2, <2>3
<1>4. d = e
  BY <1>2, <1>3, SeqEqual
<1> QED
  BY <1>1, <1>4

\* An edit is an edit of the buffer: what the undo stack refers to shows what
\* it did, the copy what the table showed.
LEMMA EditMaps ==
    ASSUME Inv, NEW ps, NEW bytes, Edited(ps, bytes)
    PROVE  Buffer!Edit(bytes)
<1>1. Inv' /\ Bytes(Current') = bytes
  BY EditKeepsInv
<1>2. PICK u, v, n : u = Contents(undoStack) /\ v = Contents(undoStack)' /\ n = Len(undoStack)
  OBVIOUS
<1>3. u \in Seq(Seq(Byte)) /\ Len(u) = n /\ \A k \in 1 .. n : u[k] = Bytes(arrays[undoStack[k]])
  <2>1. arrays \in Seq(Seq(PieceSet)) /\ undoStack \in Seq(1 .. Len(arrays))
    BY DEF Inv, References
  <2>2. u = [k \in DOMAIN undoStack |-> Bytes(arrays[undoStack[k]])]
    BY <1>2 DEF Contents
  <2> QED
    BY <1>2, <2>1, <2>2, StackShows
<1>4. /\ v \in Seq(Seq(Byte)) /\ Len(v) = Len(undoStack')
      /\ \A k \in 1 .. Len(undoStack') : v[k] = Bytes(arrays'[undoStack'[k]])
  <2>1. PICK A, s : A = arrays' /\ s = undoStack'
    OBVIOUS
  <2>2. A \in Seq(Seq(PieceSet)) /\ s \in Seq(1 .. Len(A))
    BY <1>1, <2>1 DEF Inv, References
  <2>3. v = [k \in DOMAIN s |-> Bytes(A[s[k]])]
    BY <1>2, <2>1 DEF Contents
  <2> QED
    BY <2>1, <2>2, <2>3, StackShows
<1>5. Edit(ps, SumLengths(ps)) /\ ps \in Seq(PieceSet)
  BY DEF Edited
<1>6. n \in Nat /\ \A k \in 1 .. n : undoStack[k] \in 1 .. Len(arrays) /\ undoStack[k] # pieces
  <2>1. undoStack \in Seq(1 .. Len(arrays)) /\ Unshared
    BY DEF Inv, References
  <2>2. n \in Nat /\ DOMAIN undoStack = 1 .. n /\ \A k \in 1 .. n : undoStack[k] \in 1 .. Len(arrays)
    BY <1>2, <2>1
  <2>3. \A k \in 1 .. n : undoStack[k] # pieces
    BY <2>1, <2>2 DEF Unshared
  <2> QED
    BY <2>2, <2>3
<1>7. /\ Len(undoStack') = n + 1 /\ undoStack'[n + 1] = Len(arrays) + 1
      /\ \A k \in 1 .. n : undoStack'[k] = undoStack[k]
  <2>1. undoStack \in Seq(1 .. Len(arrays)) /\ undoStack' = Append(undoStack, Len(arrays) + 1)
    BY <1>5 DEF Inv, References, Edit
  <2> QED
    BY <1>2, <2>1
<1>8. (\A a \in 1 .. Len(arrays) : a # pieces => arrays'[a] = arrays[a]) /\ arrays'[Len(arrays) + 1] = Current
  <2>1. \A a \in 1 .. Len(arrays) : a # pieces => arrays'[a] = arrays[a]
    BY <1>5, EditedArrays DEF Inv
  <2>2. PICK s : s = [arrays EXCEPT ![pieces] = ps]
    OBVIOUS
  <2>3. s \in Seq(Seq(PieceSet)) /\ Len(s) = Len(arrays)
    <3>1. PICK S, A, i : S = Seq(PieceSet) /\ A = arrays /\ i = pieces
      OBVIOUS
    <3>2. A \in Seq(S) /\ ps \in S /\ i \in 1 .. Len(A) /\ s = [A EXCEPT ![i] = ps]
      BY <1>5, <2>2, <3>1 DEF Inv, References
    <3>3. s \in Seq(S) /\ Len(s) = Len(A)
      BY <3>2, ExceptSeq
    <3> QED
      BY <3>1, <3>3
  <2>4. arrays' = Append(s, Current)
    BY <1>5, <2>2 DEF Edit
  <2> QED
    BY <2>1, <2>3, <2>4
<1>9. \A k \in 1 .. n : v[k] = u[k]
  <2> TAKE k \in 1 .. n
  <2>1. k \in 1 .. Len(undoStack')
    BY <1>6, <1>7
  <2>2. arrays'[undoStack[k]] = arrays[undoStack[k]]
    BY <1>6, <1>8
  <2>3. v[k] = Bytes(arrays'[undoStack[k]])
    BY <1>4, <1>7, <2>1
  <2>4. u[k] = Bytes(arrays[undoStack[k]])
    BY <1>3
  <2> QED
    BY <2>2, <2>3, <2>4
<1>10. v[n + 1] = Bytes(Current) /\ Bytes(Current) \in Seq(Byte)
  <2>1. n + 1 \in 1 .. Len(undoStack')
    BY <1>6, <1>7
  <2> QED
    BY <1>4, <1>7, <1>8, <2>1, CurrentPieces
<1>11. v = Append(u, Bytes(Current))
  <2>1. PICK S, x : S = Seq(Byte) /\ x = Bytes(Current)
    OBVIOUS
  <2>2. u \in Seq(S) /\ v \in Seq(S) /\ x \in S /\ Len(v) = Len(u) + 1
    BY <1>3, <1>4, <1>7, <1>10, <2>1
  <2>3. (\A k \in 1 .. Len(u) : v[k] = u[k]) /\ v[Len(u) + 1] = x
    BY <1>3, <1>9, <1>10, <2>1
  <2>4. v = Append(u, x)
    BY <2>2, <2>3, Pushed
  <2> QED
    BY <2>1, <2>4
<1>12. Contents(redoStack)' = <<>>
  <2>1. redoStack' = <<>>
    BY <1>5 DEF Edit
  <2>2. PICK w, A : w = Contents(redoStack)' /\ A = arrays'
    OBVIOUS
  <2>3. w = [k \in DOMAIN <<>> |-> Bytes(A[<<>>[k]])]
    BY <2>1, <2>2 DEF Contents
  <2> QED
    BY <2>2, <2>3
<1> QED
  BY <1>1, <1>2, <1>11, <1>12 DEF Buffer!Edit

\* A reference moves from one stack to the table, the table's to the other.
Exchanged(from, to, f, t) ==
    /\ from # <<>> /\ pieces' = from[Len(from)] /\ arrays' = arrays
    /\ f = SubSeq(from, 1, Len(from) - 1) /\ t = Append(to, pieces)

Shown(stack) == [k \in DOMAIN stack |-> Bytes(arrays[stack[k]])]

\* Undo and redo move what is shown from one stack over the table to the other.
LEMMA ExchangeMaps ==
    ASSUME Inv, NEW from \in Seq(1 .. Len(arrays)), NEW to \in Seq(1 .. Len(arrays)),
           NEW f, NEW t, Exchanged(from, to, f, t)
    PROVE  /\ Shown(from) # <<>>
           /\ Bytes(Current') = Shown(from)[Len(Shown(from))]
           /\ Shown(f) = SubSeq(Shown(from), 1, Len(Shown(from)) - 1)
           /\ Shown(t) = Append(Shown(to), Bytes(Current))
<1>1. PICK A, N, p, n, m : /\ A = arrays /\ N = 1 .. Len(arrays) /\ p = pieces
                           /\ n = Len(from) /\ m = Len(to)
  OBVIOUS
<1>2. /\ A \in Seq(Seq(PieceSet)) /\ p \in N
      /\ n \in Nat \ {0} /\ m \in Nat /\ from \in Seq(N) /\ to \in Seq(N)
      /\ f = SubSeq(from, 1, n - 1) /\ t = Append(to, p)
  <2>1. from # <<>>
    BY DEF Exchanged
  <2>2. n \in Nat \ {0} /\ m \in Nat
    BY <1>1, <2>1
  <2>3. A \in Seq(Seq(PieceSet)) /\ p \in N
    BY <1>1 DEF Inv, References
  <2>4. from \in Seq(N) /\ to \in Seq(N)
    BY <1>1
  <2>5. f = SubSeq(from, 1, n - 1) /\ t = Append(to, p)
    BY <1>1 DEF Exchanged
  <2> QED
    BY <2>2, <2>3, <2>4, <2>5
<1>3. f \in Seq(N) /\ Len(f) = n - 1 /\ \A k \in 1 .. n - 1 : f[k] = from[k]
  <2>1. PICK l : l = n - 1
    OBVIOUS
  <2>0. Len(from) = n /\ n \in Nat \ {0} /\ l \in Nat /\ l <= n
    BY <1>1, <1>2, <2>1
  <2>2. 1 \in 1 .. Len(from) + 1 /\ l \in 1 - 1 .. Len(from) /\ l - 1 + 1 = l
    BY ONLY <2>0
  <2>3. f \in Seq(N) /\ Len(f) = l - 1 + 1 /\ \A k \in 1 .. l - 1 + 1 : f[k] = from[1 + k - 1]
    BY <1>2, <2>1, <2>2, Slice
  <2>4. \A k \in 1 .. l : 1 + k - 1 = k
    OBVIOUS
  <2> QED
    BY <2>1, <2>2, <2>3, <2>4
<1>4. t \in Seq(N) /\ Len(t) = m + 1 /\ (\A k \in 1 .. m : t[k] = to[k]) /\ t[m + 1] = p
  BY <1>1, <1>2, AppendProperties
<1>5. PICK a, b, c, d : a = Shown(from) /\ b = Shown(to) /\ c = Shown(f) /\ d = Shown(t)
  OBVIOUS
<1>6. PICK S : S = Seq(Byte)
  OBVIOUS
<1>7. a \in Seq(S) /\ Len(a) = n /\ \A k \in 1 .. n : a[k] = Bytes(A[from[k]])
  <2>1. a = [k \in DOMAIN from |-> Bytes(A[from[k]])]
    BY <1>1, <1>5 DEF Shown
  <2>2. from \in Seq(1 .. Len(A)) /\ A \in Seq(Seq(PieceSet))
    BY <1>1, <1>2
  <2>3. Stacked(a, A, from)
    BY <2>1, <2>2 DEF Stacked
  <2>4. PICK l : l = n
    OBVIOUS
  <2>5. l = Len(from)
    BY <1>1, <2>4
  <2>6. Displays(a, A, from, S, l)
    BY <1>6, <2>3, <2>5, StackDisplays
  <2> QED
    BY <2>4, <2>6 DEF Displays
<1>8. b \in Seq(S) /\ Len(b) = m /\ \A k \in 1 .. m : b[k] = Bytes(A[to[k]])
  <2>1. b = [k \in DOMAIN to |-> Bytes(A[to[k]])]
    BY <1>1, <1>5 DEF Shown
  <2>2. to \in Seq(1 .. Len(A)) /\ A \in Seq(Seq(PieceSet))
    BY <1>1, <1>2
  <2>3. Stacked(b, A, to)
    BY <2>1, <2>2 DEF Stacked
  <2>4. PICK l : l = m
    OBVIOUS
  <2>5. l = Len(to)
    BY <1>1, <2>4
  <2>6. Displays(b, A, to, S, l)
    BY <1>6, <2>3, <2>5, StackDisplays
  <2> QED
    BY <2>4, <2>6 DEF Displays
<1>9. c \in Seq(S) /\ Len(c) = n - 1 /\ \A k \in 1 .. n - 1 : c[k] = Bytes(A[f[k]])
  <2>1. c = [k \in DOMAIN f |-> Bytes(A[f[k]])]
    BY <1>1, <1>5 DEF Shown
  <2>2. f \in Seq(1 .. Len(A)) /\ A \in Seq(Seq(PieceSet))
    BY <1>1, <1>2, <1>3
  <2>3. Stacked(c, A, f)
    BY <2>1, <2>2 DEF Stacked
  <2>4. PICK l : l = n - 1
    OBVIOUS
  <2>5. l = Len(f)
    BY <1>1, <2>4, <1>3
  <2>6. Displays(c, A, f, S, l)
    BY <1>6, <2>3, <2>5, StackDisplays
  <2> QED
    BY <2>4, <2>6 DEF Displays
<1>10. d \in Seq(S) /\ Len(d) = m + 1 /\ \A k \in 1 .. m + 1 : d[k] = Bytes(A[t[k]])
  <2>1. d = [k \in DOMAIN t |-> Bytes(A[t[k]])]
    BY <1>1, <1>5 DEF Shown
  <2>2. t \in Seq(1 .. Len(A)) /\ A \in Seq(Seq(PieceSet))
    BY <1>1, <1>2, <1>4
  <2>3. Stacked(d, A, t)
    BY <2>1, <2>2 DEF Stacked
  <2>4. PICK l : l = m + 1
    OBVIOUS
  <2>5. l = Len(t)
    BY <1>1, <2>4, <1>4
  <2>6. Displays(d, A, t, S, l)
    BY <1>6, <2>3, <2>5, StackDisplays
  <2> QED
    BY <2>4, <2>6 DEF Displays
<1>11. a # <<>> /\ Bytes(Current') = a[Len(a)]
  <2>1. n \in 1 .. n
    BY <1>2
  <2>2. Current' = A[from[n]]
    BY <1>1 DEF Exchanged, Current
  <2> QED
    BY <1>2, <1>7, <2>1, <2>2
<1>12. c = SubSeq(a, 1, Len(a) - 1)
  <2>1. \A k \in 1 .. Len(c) : c[k] = a[k]
    <3>1. \A k \in 1 .. n - 1 : k \in 1 .. n
      BY <1>2
    <3> QED
      BY <1>3, <1>7, <1>9, <3>1
  <2>2. Len(a) > 0 /\ Len(c) = Len(a) - 1
    BY <1>2, <1>7, <1>9
  <2> QED
    BY <1>7, <1>9, <2>1, <2>2, Popped
<1>13. d = Append(b, Bytes(Current))
  <2>1. PICK v : v = Bytes(Current)
    OBVIOUS
  <2>2. v \in S /\ v = Bytes(A[p])
    BY <1>1, <1>6, <2>1, CurrentPieces DEF Current
  <2>3. (\A k \in 1 .. m : k \in 1 .. m + 1) /\ m + 1 \in 1 .. m + 1
    BY <1>2
  <2>4. (\A k \in 1 .. Len(b) : d[k] = b[k]) /\ d[Len(b) + 1] = v
    BY <1>4, <1>8, <1>10, <2>2, <2>3
  <2>5. Len(d) = Len(b) + 1
    BY <1>8, <1>10
  <2>6. d = Append(b, v)
    BY <1>8, <1>10, <2>2, <2>4, <2>5, Pushed
  <2> QED
    BY <2>1, <2>6
<1> QED
  BY <1>5, <1>11, <1>12, <1>13

LEMMA UndoMaps ==
    ASSUME Inv, Undo
    PROVE  Buffer!Undo
<1>1. Exchanged(undoStack, redoStack, undoStack', redoStack')
  BY DEF Undo, Last, Front, Exchanged
<1>2. undoStack \in Seq(1 .. Len(arrays)) /\ redoStack \in Seq(1 .. Len(arrays)) /\ arrays' = arrays
  BY DEF Inv, References, Undo
<1>3. /\ Shown(undoStack) # <<>>
      /\ Bytes(Current') = Shown(undoStack)[Len(Shown(undoStack))]
      /\ Shown(undoStack') = SubSeq(Shown(undoStack), 1, Len(Shown(undoStack)) - 1)
      /\ Shown(redoStack') = Append(Shown(redoStack), Bytes(Current))
  BY <1>1, <1>2, ExchangeMaps
<1>4. /\ Contents(undoStack) = Shown(undoStack) /\ Contents(redoStack) = Shown(redoStack)
      /\ Contents(undoStack)' = Shown(undoStack') /\ Contents(redoStack)' = Shown(redoStack')
  BY <1>2 DEF Contents, Shown
<1> QED
  BY <1>3, <1>4 DEF Buffer!Undo, Buffer!Pop

LEMMA RedoMaps ==
    ASSUME Inv, Redo
    PROVE  Buffer!Redo
<1>1. Exchanged(redoStack, undoStack, redoStack', undoStack')
  BY DEF Redo, Last, Front, Exchanged
<1>2. undoStack \in Seq(1 .. Len(arrays)) /\ redoStack \in Seq(1 .. Len(arrays)) /\ arrays' = arrays
  BY DEF Inv, References, Redo
<1>3. /\ Shown(redoStack) # <<>>
      /\ Bytes(Current') = Shown(redoStack)[Len(Shown(redoStack))]
      /\ Shown(redoStack') = SubSeq(Shown(redoStack), 1, Len(Shown(redoStack)) - 1)
      /\ Shown(undoStack') = Append(Shown(undoStack), Bytes(Current))
  BY <1>1, <1>2, ExchangeMaps
<1>4. /\ Contents(undoStack) = Shown(undoStack) /\ Contents(redoStack) = Shown(redoStack)
      /\ Contents(undoStack)' = Shown(undoStack') /\ Contents(redoStack)' = Shown(redoStack')
  BY <1>2 DEF Contents, Shown
<1> QED
  BY <1>3, <1>4 DEF Buffer!Redo, Buffer!Pop

-----------------------------------------------------------------------------
(* Theorems.                                                               *)

\* No piece is empty or exceeds its bytes, the cached length is theirs, and
\* no array is shared: what locate and the splices rely on.
THEOREM TypeCorrect == Spec => []TypeOK
<1>1. Inv => TypeOK
  <2> SUFFICES ASSUME Inv PROVE TypeOK
    OBVIOUS
  <2>1. /\ arrays \in Seq(Seq(PieceSet)) /\ pieces \in 1 .. Len(arrays)
        /\ undoStack \in Seq(1 .. Len(arrays)) /\ redoStack \in Seq(1 .. Len(arrays))
        /\ Unshared /\ length = SumLengths(Current)
    BY DEF Inv, References
  <2>2. /\ pieces \in DOMAIN arrays
        /\ \A k \in DOMAIN undoStack : undoStack[k] \in DOMAIN arrays
        /\ \A k \in DOMAIN redoStack : redoStack[k] \in DOMAIN arrays
    BY <2>1
  <2>3. ASSUME NEW a \in DOMAIN arrays, NEW k \in DOMAIN arrays[a]
        PROVE  /\ arrays[a][k].length > 0 /\ arrays[a][k].offset >= 0
               /\ arrays[a][k].offset + arrays[a][k].length <= Len(arrays[a][k].buffer)
    <3>1. PICK ps : ps = arrays[a]
      OBVIOUS
    <3>2. ps \in Seq(PieceSet)
      BY <2>1, <3>1
    <3>3. ps[k] \in PieceSet
      BY <3>1, <3>2
    <3> QED
      BY <3>1, <3>3 DEF PieceSet
  <2> QED
    BY <2>1, <2>2, <2>3 DEF TypeOK
<1> QED
  BY <1>1, Invariance, PTL

\* Whatever is inserted, overwritten, deleted, undone and redone, and however
\* pieces are split on the way, the table shows what a plain byte sequence
\* edited alike would hold (pieceTable.ts:142-203), and each undo and redo
\* gives back exactly the bytes that were there.
THEOREM ImplementsBuffer == Spec => Implements
<1>1. Init => Buffer!Init
  <2> SUFFICES ASSUME Init PROVE Buffer!Init
    OBVIOUS
  <2>1. Bytes(Current) = Initial
    BY InvBegins
  <2>2. undoStack = <<>> /\ redoStack = <<>> /\ version = 0
    BY DEF Init
  <2>3. Contents(undoStack) = <<>> /\ Contents(redoStack) = <<>>
    BY <2>2 DEF Contents
  <2> QED
    BY <2>1, <2>2, <2>3 DEF Buffer!Init
<1>2. Inv /\ [Next]_vars => [Buffer!Next]_(Buffer!vars)
  <2> SUFFICES ASSUME Inv, [Next]_vars
               PROVE  Buffer!Next \/ UNCHANGED Buffer!vars
    OBVIOUS
  <2>1. CASE Next
    <3>1. version' = version + 1 /\ Deed
      BY <2>1, Deeds
    <3>2. length = Len(Bytes(Current))
      BY CurrentPieces
    <3>3. ASSUME NEW offset \in 0 .. length, NEW new \in Inserts, NEW ps,
                 Edited(ps, Inserted(Bytes(Current), offset, new))
          PROVE  Buffer!Insert(offset, new)
      BY <3>3, EditMaps DEF Buffer!Insert, Buffer!Inserted, Inserted
    <3>4. ASSUME NEW offset \in 0 .. length, NEW new \in Inserts, NEW ps,
                 Edited(ps, Overwritten(Bytes(Current), offset, new))
          PROVE  Buffer!Overwrite(offset, new)
      BY <3>4, EditMaps DEF Buffer!Overwrite, Buffer!Overwritten, Overwritten
    <3>5. ASSUME NEW offset \in 0 .. length, NEW count \in 1 .. length - offset, NEW ps,
                 Edited(ps, Deleted(Bytes(Current), offset, count))
          PROVE  Buffer!Delete(offset, count)
      BY <3>5, EditMaps DEF Buffer!Delete, Buffer!Deleted, Deleted
    <3>6. ASSUME Undo PROVE Buffer!Undo
      BY <3>6, UndoMaps
    <3>7. ASSUME Redo PROVE Buffer!Redo
      BY <3>7, RedoMaps
    <3>8. Buffer!Next
      BY <3>1, <3>2, <3>3, <3>4, <3>5, <3>6, <3>7 DEF Deed, Buffer!Next
    <3> QED
      BY <3>8
  <2>2. CASE UNCHANGED vars
    BY <2>2 DEF vars, Buffer!vars, Current, Contents
  <2> QED
    BY <2>1, <2>2
<1> QED
  BY <1>1, <1>2, Invariance, PTL DEF Spec, Implements, Buffer!Spec
=============================================================================
