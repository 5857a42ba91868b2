----------------------------- MODULE ByteBuffer -----------------------------
(***************************************************************************)
(* What the hex editor's buffer promises (web/src/buffer/pieceTable.ts):   *)
(* a sequence of bytes that can be edited, with an undo step for every     *)
(* edit.                                                                   *)
(***************************************************************************)
EXTENDS Integers, Sequences, ByteEdits

CONSTANTS Initial,  \* the bytes to begin with
          Inserts   \* the byte sequences that are written

VARIABLES content, undone, redone, version

vars == <<content, undone, redone, version>>

Edit(bytes) == /\ content' = bytes
               /\ undone' = Append(undone, content)
               /\ redone' = <<>>

Insert(offset, new) == Edit(Inserted(content, offset, new))
Overwrite(offset, new) == Edit(Overwritten(content, offset, new))
Delete(offset, count) == Edit(Deleted(content, offset, count))

Pop(stack) == SubSeq(stack, 1, Len(stack) - 1)

Undo == /\ undone # <<>>
        /\ content' = undone[Len(undone)] /\ undone' = Pop(undone)
        /\ redone' = Append(redone, content)

Redo == /\ redone # <<>>
        /\ content' = redone[Len(redone)] /\ redone' = Pop(redone)
        /\ undone' = Append(undone, content)

Init == content = Initial /\ undone = <<>> /\ redone = <<>> /\ version = 0

Next == /\ version' = version + 1
        /\ \/ \E offset \in 0 .. Len(content), new \in Inserts :
                  Insert(offset, new) \/ Overwrite(offset, new)
           \/ \E offset \in 0 .. Len(content) : \E count \in 1 .. Len(content) - offset :
                  Delete(offset, count)
           \/ Undo \/ Redo

Spec == Init /\ [][Next]_vars
=============================================================================
