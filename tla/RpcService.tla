----------------------------- MODULE RpcService -----------------------------
(***************************************************************************)
(* What EvalClient promises the workspace: its calls are answered in the   *)
(* order they were made, each one once, as one evaluator that executes     *)
(* them one after the other would; or all unanswered calls fail together.  *)
(* Should the evaluator exit, the call it exits on is never settled and    *)
(* those made after it fail one by one.                                    *)
(***************************************************************************)
EXTENDS Integers, Sequences

CONSTANTS
    FileSet,  \* the sets of KSY files loadKsys may install
    Parse,    \* the request "parse"; a request to load is its file set
    NoFiles,  \* what the evaluator starts with
    Loaded,   \* the answer to a load
    Unanswered, Failed, Lost  \* the outcomes of a call that are no answers

Request == FileSet \cup {Parse}

VARIABLES
    calls,    \* the requests, in the order of their ids
    outcome,  \* of each: Unanswered, Failed, Lost or an answer
    exit      \* the call that the evaluator exited on, 0 while it runs

\* j is the last load before request k; its files are the ones k finds.
LastLoad(j, k) == calls[j] # Parse /\ \A i \in j + 1 .. k - 1 : calls[i] = Parse
FilesAt(k) == IF \E j \in 1 .. k - 1 : LastLoad(j, k)
              THEN calls[CHOOSE j \in 1 .. k - 1 : LastLoad(j, k)]
              ELSE NoFiles

\* A parse is answered by what it makes of the installed files.
AnswerTo(k) == CASE exit # 0 /\ k > exit -> Failed
                 [] k = exit -> Lost
                 [] OTHER -> IF calls[k] = Parse THEN FilesAt(k) ELSE Loaded

Waiting == {k \in DOMAIN calls : outcome[k] = Unanswered}

Init == calls = <<>> /\ outcome = <<>> /\ exit = 0

Issue(r) == /\ calls' = Append(calls, r)
            /\ outcome' = Append(outcome, Unanswered)
            /\ UNCHANGED exit

Reply(k) == /\ k \in Waiting
            /\ \A j \in Waiting : k <= j
            /\ outcome' = [outcome EXCEPT ![k] = AnswerTo(k)]
            /\ UNCHANGED <<calls, exit>>

Fail == /\ outcome' = [k \in DOMAIN calls |-> IF k \in Waiting THEN Failed ELSE outcome[k]]
        /\ UNCHANGED <<calls, exit>>

\* The evaluator exits on request k: no later one has been answered.
Exit(k) == /\ exit = 0
           /\ \A j \in DOMAIN calls : j >= k => outcome[j] \in {Unanswered, Failed}
           /\ exit' = k
           /\ UNCHANGED <<calls, outcome>>

Next == \/ \E r \in Request : Issue(r)
        \/ \E k \in DOMAIN calls : Reply(k) \/ Exit(k)
        \/ Fail

Spec == Init /\ [][Next]_<<calls, outcome, exit>>
=============================================================================
