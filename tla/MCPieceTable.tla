---------------------------- MODULE MCPieceTable ----------------------------
(* Bytes for PieceTable: all different, so that none can stand for another. *)
EXTENDS PieceTable

InitialBytes == <<1, 2, 3>>
InsertedBytes == {<<4>>, <<5, 6>>}
=============================================================================
