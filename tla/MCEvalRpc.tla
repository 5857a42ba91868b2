----------------------------- MODULE MCEvalRpc -----------------------------
(* Two file sets and up to four calls to one worker, for EvalRpc.           *)
EXTENDS EvalRpc

CONSTANTS f1, f2

FileSets == {f1, f2}
=============================================================================
