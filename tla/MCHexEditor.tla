---------------------------- MODULE MCHexEditor -----------------------------
(* Bytes of two binary digits for HexEditor.                                *)
EXTENDS HexEditor

InitialBytes == <<1, 2, 3>>
LoadedBytes == {<<2>>, <<3, 1, 0, 2>>}
=============================================================================
