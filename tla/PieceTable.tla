----------------------------- MODULE PieceTable -----------------------------
(***************************************************************************)
(* The piece table (web/src/buffer/pieceTable.ts).  A piece is a range of  *)
(* an immutable byte sequence; the buffer is what the pieces show in turn. *)
(* JavaScript arrays of pieces are objects: `arrays` holds their contents, *)
(* the table and its stacks refer to them, and a splice in place is seen   *)
(* through every reference.                                                *)
(***************************************************************************)
EXTENDS Integers, Sequences, SequencesExt

CONSTANTS Byte,
          Initial, Inserts,  \* what the buffer holds at first, what is written to it
          MaxVersion         \* bound: edits, undos and redos

ASSUME EditsAssumption == /\ MaxVersion \in Nat
                          /\ Initial \in Seq(Byte) /\ Inserts \subseteq Seq(Byte) \ {<<>>}

VARIABLES
    arrays,     \* the arrays of pieces ever created
    pieces,     \* which of them is the table's
    length, version,
    undoStack, redoStack  \* references to arrays

vars == <<arrays, pieces, length, version, undoStack, redoStack>>

Piece(bytes) == [buffer |-> bytes, offset |-> 0, length |-> Len(bytes)]
Part(p, from, count) == [p EXCEPT !.offset = @ + from, !.length = count]
View(p) == SubSeq(p.buffer, p.offset + 1, p.offset + p.length)

Bytes(ps) == FlattenSeq([k \in DOMAIN ps |-> View(ps[k])])
Ends(ps) == LET end[k \in 0 .. Len(ps)] == IF k = 0 THEN 0 ELSE end[k - 1] + ps[k].length IN end
Start(ps, k) == Ends(ps)[k - 1]
SumLengths(ps) == Ends(ps)[Len(ps)]

\* The piece that holds the byte at offset; one past the last at the end.
Locate(ps, offset) ==
    LET end == Ends(ps) IN
    CHOOSE k \in 1 .. Len(ps) + 1 : end[k - 1] <= offset /\ (k <= Len(ps) => offset < end[k])

Splice(ps, from, count, new) ==
    SubSeq(ps, 1, from - 1) \o new \o SubSeq(ps, from + count, Len(ps))

\* Faulty variant: a piece is always split.
AlwaysSplitting(ps, offset, bytes) ==
    LET k == Locate(ps, offset)
        local == offset - Start(ps, k) IN
    IF k > Len(ps) THEN Append(ps, Piece(bytes))
    ELSE Splice(ps, k, 1, <<Part(ps[k], 0, local), Piece(bytes),
                            Part(ps[k], local, ps[k].length - local)>>)

InsertInternal(ps, offset, bytes) ==
    LET k == Locate(ps, offset)
        local == offset - Start(ps, k) IN
    IF local = 0 THEN Splice(ps, k, 0, <<Piece(bytes)>>)
    ELSE Splice(ps, k, 1, <<Part(ps[k], 0, local), Piece(bytes),
                            Part(ps[k], local, ps[k].length - local)>>)

\* The pieces from the first to the last that the range touches make way
\* for what is left of these two.
\* Faulty variant: the rest of the last piece is found from its beginning
\* although the deletion began inside it.
DeleteFromStart(ps, offset, count) ==
    LET first == Locate(ps, offset)
        last == Locate(ps, offset + count - 1)
        local == offset - Start(ps, first)
        rest == Start(ps, last + 1) - (offset + count)
        prefix == IF local = 0 THEN <<>> ELSE <<Part(ps[first], 0, local)>>
        suffix == IF rest = 0 THEN <<>>
                  ELSE IF first = last THEN <<Part(ps[last], count, rest)>>
                  ELSE <<Part(ps[last], ps[last].length - rest, rest)>> IN
    Splice(ps, first, last - first + 1, prefix \o suffix)

DeleteInternal(ps, offset, count) ==
    LET first == Locate(ps, offset)
        last == Locate(ps, offset + count - 1)
        local == offset - Start(ps, first)
        rest == Start(ps, last + 1) - (offset + count)
        prefix == IF local = 0 THEN <<>> ELSE <<Part(ps[first], 0, local)>>
        suffix == IF rest = 0 THEN <<>>
                  ELSE <<Part(ps[last], ps[last].length - rest, rest)>> IN
    Splice(ps, first, last - first + 1, prefix \o suffix)

-----------------------------------------------------------------------------
Current == arrays[pieces]

\* Faulty variant: the undo step is the array itself.
SharedEdit(ps, newLength) ==
    /\ LET fresh == Current = <<>> IN
       /\ arrays' = IF fresh THEN Append(arrays, ps) ELSE [arrays EXCEPT ![pieces] = ps]
       /\ pieces' = IF fresh THEN Len(arrays) + 1 ELSE pieces
    /\ undoStack' = Append(undoStack, pieces)
    /\ redoStack' = <<>>
    /\ length' = newLength

\* The undo step is a copy; the table's array itself is spliced.  (An insert
\* into an empty table assigns a new array instead of splicing: nothing else
\* refers to the old one, see Unshared.)
Edit(ps, newLength) ==
    /\ arrays' = Append([arrays EXCEPT ![pieces] = ps], Current)
    /\ undoStack' = Append(undoStack, Len(arrays) + 1)
    /\ redoStack' = <<>>
    /\ length' = newLength
    /\ UNCHANGED pieces

Insert(offset, bytes) ==
    Edit(InsertInternal(Current, offset, bytes), length + Len(bytes))

Delete(offset, count) ==
    Edit(DeleteInternal(Current, offset, count), length - count)

Overwrite(offset, bytes) ==
    LET toDelete == IF Len(bytes) < length - offset THEN Len(bytes) ELSE length - offset
        left == IF toDelete > 0 THEN DeleteInternal(Current, offset, toDelete) ELSE Current IN
    Edit(InsertInternal(left, offset, bytes), length - toDelete + Len(bytes))

\* Undo and redo exchange references, without a copy.
Undo ==
    /\ undoStack # <<>>
    /\ pieces' = Last(undoStack)
    /\ undoStack' = Front(undoStack)
    /\ redoStack' = Append(redoStack, pieces)
    /\ length' = SumLengths(arrays[pieces'])
    /\ UNCHANGED arrays

Redo ==
    /\ redoStack # <<>>
    /\ pieces' = Last(redoStack)
    /\ redoStack' = Front(redoStack)
    /\ undoStack' = Append(undoStack, pieces)
    /\ length' = SumLengths(arrays[pieces'])
    /\ UNCHANGED arrays

Init ==
    /\ arrays = <<IF Initial = <<>> THEN <<>> ELSE <<Piece(Initial)>>>>
    /\ pieces = 1
    /\ length = Len(Initial)
    /\ version = 0
    /\ undoStack = <<>> /\ redoStack = <<>>

Next ==
    /\ version < MaxVersion
    /\ version' = version + 1
    /\ \/ \E offset \in 0 .. length, bytes \in Inserts : Insert(offset, bytes)
       \/ \E offset \in 0 .. length, bytes \in Inserts : Overwrite(offset, bytes)
       \/ \E offset \in 0 .. length : \E count \in 1 .. length - offset : Delete(offset, count)
       \/ Undo \/ Redo

Spec == Init /\ [][Next]_vars

-----------------------------------------------------------------------------
\* The array that edits splice is on neither stack, no array is on them twice.
Unshared ==
    /\ \A i \in DOMAIN undoStack : undoStack[i] # pieces
    /\ \A j \in DOMAIN redoStack : redoStack[j] # pieces
    /\ \A i \in DOMAIN undoStack, j \in DOMAIN redoStack : undoStack[i] # redoStack[j]
    /\ \A i, j \in DOMAIN undoStack : undoStack[i] = undoStack[j] => i = j
    /\ \A i, j \in DOMAIN redoStack : redoStack[i] = redoStack[j] => i = j

\* Types, and what locate relies on: no piece is empty, none exceeds its
\* bytes, and the cached length is the sum of theirs.
TypeOK ==
    /\ pieces \in DOMAIN arrays
    /\ \A k \in DOMAIN undoStack : undoStack[k] \in DOMAIN arrays
    /\ \A k \in DOMAIN redoStack : redoStack[k] \in DOMAIN arrays
    /\ \A a \in DOMAIN arrays : \A k \in DOMAIN arrays[a] :
          LET p == arrays[a][k] IN
          p.length > 0 /\ p.offset >= 0 /\ p.offset + p.length <= Len(p.buffer)
    /\ length = SumLengths(Current)
    /\ Unshared

\* What an undo step will restore stays as it is while the step is on the
\* stack, whatever is edited, undone and redone meanwhile.
HistoryKept ==
    [][\A k \in DOMAIN undoStack \cap DOMAIN undoStack' :
          arrays'[undoStack'[k]] = arrays[undoStack[k]]]_vars

Contents(stack) == [k \in DOMAIN stack |-> Bytes(arrays[stack[k]])]
Buffer == INSTANCE ByteBuffer WITH content <- Bytes(Current), undone <- Contents(undoStack),
                                   redone <- Contents(redoStack)

\* The table shows the bytes of a plain byte sequence edited alike, and every
\* undo and redo gives back exactly what was there, although later edits
\* splice arrays that the stacks have referred to.
Implements == Buffer!Spec
=============================================================================
