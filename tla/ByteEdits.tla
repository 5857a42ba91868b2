----------------------------- MODULE ByteEdits ------------------------------
(* What the edits of a PieceTable (web/src/buffer/pieceTable.ts:142-203)    *)
(* make of the bytes; offsets count from 0.                                 *)
EXTENDS Integers, Sequences

Inserted(bytes, offset, new) ==
    SubSeq(bytes, 1, offset) \o new \o SubSeq(bytes, offset + 1, Len(bytes))
Deleted(bytes, offset, count) ==
    SubSeq(bytes, 1, offset) \o SubSeq(bytes, offset + count + 1, Len(bytes))
Overwritten(bytes, offset, new) ==
    SubSeq(bytes, 1, offset) \o new \o SubSeq(bytes, offset + Len(new) + 1, Len(bytes))
=============================================================================
