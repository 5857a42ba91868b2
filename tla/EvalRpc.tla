------------------------------ MODULE EvalRpc ------------------------------
(***************************************************************************)
(* One EvalClient (web/src/rpc/evalClient.ts) and its worker               *)
(* (web/src/workers/eval.worker.ts): requests are posted with an id,       *)
(* queued by the worker until the wasm module has registered its API,      *)
(* answered in order, and matched by id in the client's pending map.       *)
(***************************************************************************)
EXTENDS Integers, Sequences, FiniteSets

CONSTANTS
    FileSet, Parse, NoFiles, Loaded,  \* as in RpcService
    MaxCalls,   \* bound on the calls of a client
    MaxErrors   \* bound on the error events of a worker

VARIABLES
    calls,       \* history: calls[id] is the request posted with that id
    outcome,     \* history: what became of the promise of each call; "lost" is one
                 \* that is neither settled nor in the map
    pending,     \* the ids in EvalClient.pending
    ready,       \* the state of readyPromise
    terminated,  \* EvalClient.terminated
    phase,       \* of the worker: "booting", "draining", "up", "failed", "stopped"
    inbox,       \* ids posted to the worker and not yet received
    queue,       \* ids the worker queued before its API was registered
    files,       \* the worker's vfs
    exit,        \* the call that the Go program exited on, 0 while it runs
    outbox,      \* messages posted by the worker and not yet received
    errors,      \* error events of the worker not yet delivered
    raised       \* how many there were

vars == <<calls, outcome, pending, ready, terminated, phase, inbox, queue, files, exit,
          outbox, errors, raised>>
history == <<calls, outcome>>
client == <<pending, ready, terminated>>
worker == <<phase, queue, files, exit>>

Service == INSTANCE RpcService WITH
    Unanswered <- "waiting", Failed <- "failed", Lost <- "lost"

Id == 1 .. MaxCalls
\* What a response says: the answer, {ok: false} or nothing at all (undefined).
Answer == FileSet \cup {NoFiles, Loaded, "failed", "lost"}
Response == [type : {"response"}, id : Id, answer : Answer]
Event == [type : {"ready", "ready-error"}]

ASSUME BoundAssumption == MaxCalls \in Nat /\ MaxErrors \in Nat
ASSUME RequestAssumption == Parse \notin FileSet
ASSUME AnswerAssumption ==
    {"waiting", "failed", "lost"} \cap (FileSet \cup {NoFiles, Loaded}) = {}

TypeOK ==
    /\ calls \in Seq(FileSet \cup {Parse}) /\ Len(calls) <= MaxCalls
    /\ outcome \in Seq(Answer \cup {"waiting"}) /\ Len(outcome) = Len(calls)
    /\ pending \subseteq DOMAIN calls
    /\ ready \in {"pending", "resolved", "rejected"}
    /\ terminated \in BOOLEAN
    /\ phase \in {"booting", "draining", "up", "failed", "stopped"}
    /\ inbox \in Seq(DOMAIN calls) /\ queue \in Seq(DOMAIN calls)
    /\ files \in FileSet \cup {NoFiles} /\ exit \in {0} \cup DOMAIN calls
    /\ outbox \in Seq(Response \cup Event)
    /\ raised \in 0 .. MaxErrors /\ errors \in 0 .. raised

Init ==
    /\ calls = <<>> /\ outcome = <<>>
    /\ pending = {} /\ ready = "pending" /\ terminated = FALSE
    /\ phase = "booting" /\ inbox = <<>> /\ queue = <<>> /\ files = NoFiles
    /\ exit = 0 /\ outbox = <<>> /\ errors = 0 /\ raised = 0

-----------------------------------------------------------------------------
(* The client.                                                             *)

\* Faulty variant: the id is counted up before it is used.
CallSkewed(r) ==
    /\ Len(calls) < MaxCalls
    /\ ~terminated
    /\ calls' = Append(calls, r)
    /\ outcome' = Append(outcome, "waiting")
    /\ pending' = pending \cup {Len(calls) + 2}
    /\ inbox' = IF phase = "stopped" THEN inbox ELSE Append(inbox, Len(calls) + 1)
    /\ UNCHANGED <<ready, terminated, worker, outbox, errors, raised>>

\* call: once terminated it rejects at once and posts nothing.
Call(r) ==
    /\ Len(calls) < MaxCalls
    /\ ~terminated
    /\ calls' = Append(calls, r)
    /\ outcome' = Append(outcome, "waiting")
    /\ pending' = pending \cup {Len(calls) + 1}
    /\ inbox' = IF phase = "stopped" THEN inbox ELSE Append(inbox, Len(calls) + 1)
    /\ UNCHANGED <<ready, terminated, worker, outbox, errors, raised>>

\* Faulty variant: the map is cleared and nothing is rejected.
ForgetAllPending == pending' = {} /\ UNCHANGED outcome

\* failAllPending.
FailAllPending ==
    /\ outcome' = [k \in DOMAIN calls |-> IF k \in pending THEN "failed" ELSE outcome[k]]
    /\ pending' = {}

\* A promise that is settled stays as it is.
Settle(p, to) == IF p = "pending" THEN to ELSE p

\* Faulty variant: a response nobody waits for is taken for an answer.
OnAnyResponse(m) ==
    /\ m.type = "response"
    /\ pending' = pending \ {m.id}
    /\ outcome' = [outcome EXCEPT ![m.id] = m.answer]
    /\ UNCHANGED ready

\* A response settles the call with its id, a stale one is ignored.  One that
\* carries no answer makes onMessage throw between pending.delete and resolve:
\* the promise is lost.
OnResponse(m) ==
    /\ m.type = "response"
    /\ pending' = pending \ {m.id}
    /\ outcome' = IF m.id \in pending THEN [outcome EXCEPT ![m.id] = m.answer] ELSE outcome
    /\ UNCHANGED ready

OnReady(m) ==
    /\ m.type = "ready"
    /\ ready' = Settle(ready, "resolved")
    /\ UNCHANGED <<outcome, pending>>

\* Faulty variants: one of the two groups of waiters is not told.
OnReadyErrorReadyOnly(m) ==
    /\ m.type = "ready-error"
    /\ ready' = Settle(ready, "rejected")
    /\ UNCHANGED <<outcome, pending>>
OnReadyErrorCallsOnly(m) ==
    /\ m.type = "ready-error"
    /\ UNCHANGED ready
    /\ FailAllPending

OnReadyError(m) ==
    /\ m.type = "ready-error"
    /\ ready' = Settle(ready, "rejected")
    /\ FailAllPending

OnMessage ==
    /\ outbox # <<>>
    /\ LET m == Head(outbox) IN OnResponse(m) \/ OnReady(m) \/ OnReadyError(m)
    /\ outbox' = Tail(outbox)
    /\ UNCHANGED <<calls, terminated, worker, inbox, errors, raised>>

\* worker.onerror.
OnError ==
    /\ errors > 0
    /\ errors' = errors - 1
    /\ ready' = Settle(ready, "rejected")
    /\ FailAllPending
    /\ UNCHANGED <<calls, terminated, worker, inbox, outbox, raised>>

\* terminate: the worker stops and what it had posted is discarded;
\* readyPromise is left as it is.
Terminate ==
    /\ ~terminated
    /\ terminated' = TRUE
    /\ phase' = "stopped" /\ inbox' = <<>> /\ outbox' = <<>>
    /\ FailAllPending
    /\ UNCHANGED <<calls, ready, queue, files, exit, errors, raised>>

-----------------------------------------------------------------------------
(* The worker.                                                             *)

\* A message that arrives before the API is there is queued.
Enqueue ==
    /\ phase \in {"booting", "failed"} /\ inbox # <<>>
    /\ queue' = Append(queue, Head(inbox))
    /\ inbox' = Tail(inbox)
    /\ UNCHANGED <<history, client, phase, files, exit, outbox, errors, raised>>

Post(id, answer) ==
    outbox' = Append(outbox, [type |-> "response", id |-> id, answer |-> answer])

\* handle: dispatch to the API and post the response.  Panics are recovered and
\* answered; on what cannot be recovered (no memory, no stack) the Go program
\* exits, the call that was running returns undefined, and each later one
\* throws, which handle turns into {ok: false}.
Handle(id) ==
    \/ /\ exit = 0 /\ calls[id] = Parse
       /\ Post(id, files)
       /\ UNCHANGED <<files, exit>>
    \/ /\ exit = 0 /\ calls[id] # Parse
       /\ Post(id, Loaded)
       /\ files' = calls[id]
       /\ UNCHANGED exit
    \/ /\ exit = 0
       /\ exit' = id
       /\ Post(id, "lost")
       /\ UNCHANGED files
    \/ /\ exit # 0
       /\ Post(id, "failed")
       /\ UNCHANGED <<files, exit>>

\* Faulty variant: messages are handled while older ones are still queued.
ReceiveEarly ==
    /\ phase \in {"draining", "up"} /\ inbox # <<>>
    /\ Handle(Head(inbox))
    /\ inbox' = Tail(inbox)
    /\ UNCHANGED <<history, client, phase, queue, errors, raised>>

Receive ==
    /\ phase = "up" /\ inbox # <<>>
    /\ Handle(Head(inbox))
    /\ inbox' = Tail(inbox)
    /\ UNCHANGED <<history, client, phase, queue, errors, raised>>

\* boot: the fetches, the instantiation and the poll succeed ...
Register ==
    /\ phase = "booting"
    /\ phase' = "draining"
    /\ UNCHANGED <<history, client, inbox, queue, files, exit, outbox, errors, raised>>

\* ... the queued messages are handled, no new one being received ...
Drain ==
    /\ phase = "draining" /\ queue # <<>>
    /\ Handle(Head(queue))
    /\ queue' = Tail(queue)
    /\ UNCHANGED <<history, client, phase, inbox, errors, raised>>

\* ... and the client is told.
PostReady ==
    /\ phase = "draining" /\ queue = <<>>
    /\ phase' = "up"
    /\ outbox' = Append(outbox, [type |-> "ready"])
    /\ UNCHANGED <<history, client, inbox, queue, files, exit, errors, raised>>

\* One of the steps of boot fails; the queue keeps what it holds.
BootFails ==
    /\ phase = "booting"
    /\ phase' = "failed"
    /\ outbox' = Append(outbox, [type |-> "ready-error"])
    /\ UNCHANGED <<history, client, inbox, queue, files, exit, errors, raised>>

\* An exception nothing catches raises an error event at the client; when the
\* script itself does not load the worker never runs.
Uncaught ==
    /\ raised < MaxErrors /\ phase # "stopped"
    /\ errors' = errors + 1 /\ raised' = raised + 1
    /\ phase' \in (IF phase = "booting" /\ queue = <<>> THEN {phase, "stopped"} ELSE {phase})
    /\ UNCHANGED <<history, client, inbox, queue, files, exit, outbox>>

Boot == Register \/ Drain \/ PostReady \/ BootFails
Serve == Enqueue \/ Receive

Next == \/ \E r \in FileSet \cup {Parse} : Call(r)
        \/ OnMessage \/ OnError \/ Terminate
        \/ Boot \/ Serve \/ Uncaught

\* Both event loops run on, boot ends (its poll is bounded), and the
\* evaluator returns from every request.
Spec == /\ Init /\ [][Next]_vars
        /\ WF_vars(OnMessage) /\ WF_vars(OnError)
        /\ WF_vars(Boot) /\ WF_vars(Serve)

-----------------------------------------------------------------------------
(* Properties.                                                             *)

\* A promise is unsettled exactly while its id is in the pending map: no
\* path (response, ready-error, onerror, terminate) drops an id without
\* settling its promise, but for the one call that the Go program exited on.
NoLostPromise ==
    \A k \in DOMAIN calls :
        /\ outcome[k] = "waiting" <=> k \in pending
        /\ outcome[k] = "lost" => k = exit

\* How many calls the worker has handled: all but those on their way to it.
Handled == Len(calls) - Len(queue) - Len(inbox)

\* While the worker lives, the calls it has not handled are the latest ones,
\* in order: nothing overtakes what was queued during boot, and a pending call
\* that it has handled has its response on the way.
CallsInOrder ==
    phase # "stopped" =>
        /\ \A i \in DOMAIN queue : queue[i] = Handled + i
        /\ \A i \in DOMAIN inbox : inbox[i] = Handled + Len(queue) + i
        /\ \A k \in pending : k <= Handled =>
               \/ \E i \in DOMAIN outbox : outbox[i].type = "response" /\ outbox[i].id = k
               \/ \E i \in DOMAIN outbox : outbox[i].type = "ready-error"

\* The client, its worker and the messages between them behave like one
\* evaluator that answers every call in order, once.
Implements == Service!Spec

\* A call is settled unless the client already knows that the worker failed
\* or the Go program exited on it.
Settled(k) == k \in DOMAIN calls /\ outcome[k] \notin {"waiting", "lost"}
CallsSettle ==
    \A k \in Id : (k \in pending /\ ready # "rejected") ~> (Settled(k) \/ k = exit)

\* Whoever waits for ready() is told, "instead of waiting forever", unless
\* the client was terminated.
ReadySettles == ready = "pending" ~> (ready # "pending" \/ terminated)
=============================================================================
