--------------------------- MODULE EvalRpcProofs ---------------------------
(***************************************************************************)
(* Theorems about EvalRpc, for every set of files, every number of calls   *)
(* and every number of worker errors.                                      *)
(***************************************************************************)
EXTENDS EvalRpc, TLAPS, SequenceTheorems

\* failAllPending keeps one outcome for each call.
LEMMA FailType ==
    ASSUME TypeOK, FailAllPending
    PROVE  /\ outcome' \in Seq(Answer \cup {"waiting"})
           /\ Len(outcome') = Len(calls)
           /\ DOMAIN outcome' = DOMAIN calls
           /\ \A k \in DOMAIN calls :
                 outcome'[k] = IF k \in pending THEN "failed" ELSE outcome[k]
<1> DEFINE O == Answer \cup {"waiting"}
<1> DEFINE e(k) == IF k \in pending THEN "failed" ELSE outcome[k]
<1>1. Len(calls) \in Nat /\ DOMAIN calls = 1 .. Len(calls)
  BY DEF TypeOK
<1>2. \A k \in 1 .. Len(calls) : e(k) \in O
  BY <1>1 DEF TypeOK, Answer
<1>3. outcome' = [k \in 1 .. Len(calls) |-> e(k)]
  BY <1>1 DEF FailAllPending
<1>4. [k \in 1 .. Len(calls) |-> e(k)] \in Seq(O)
  <2> HIDE DEF e
  <2> QED BY <1>1, <1>2, IsASeq, SMT
<1>5. Len(outcome') = Len(calls)
  BY <1>1, <1>3, <1>4, LenProperties
<1> QED
  BY <1>1, <1>3, <1>4, <1>5

\* What appending and taking the head do to a sequence.
LEMMA AppendSeq ==
    ASSUME NEW S, NEW s \in Seq(S), NEW e \in S
    PROVE  /\ Append(s, e) \in Seq(S)
           /\ Len(Append(s, e)) = Len(s) + 1
           /\ DOMAIN Append(s, e) = 1 .. Len(s) + 1
           /\ \A i \in 1 .. Len(s) : Append(s, e)[i] = s[i]
           /\ Append(s, e)[Len(s) + 1] = e
OBVIOUS

LEMMA TailSeq ==
    ASSUME NEW S, NEW s \in Seq(S), s # <<>>
    PROVE  /\ Len(s) \in Nat \ {0}
           /\ Head(s) = s[1] /\ Head(s) \in S
           /\ Tail(s) \in Seq(S)
           /\ Len(Tail(s)) = Len(s) - 1
           /\ DOMAIN Tail(s) = 1 .. Len(s) - 1
           /\ \A i \in 1 .. Len(s) - 1 : Tail(s)[i] = s[i + 1]
OBVIOUS

\* Handling a call posts the response to it, and may end the Go program.
LEMMA HandleType ==
    ASSUME TypeOK, NEW id \in DOMAIN calls, Handle(id)
    PROVE  /\ files' \in FileSet \cup {NoFiles}
           /\ exit' \in {exit, id} /\ (exit # 0 => exit' = exit)
           /\ \E m \in Response :
                 /\ outbox' = Append(outbox, m)
                 /\ m.id = id
                 /\ m.answer = "lost" => exit = 0 /\ exit' = id
                 /\ \/ /\ exit = 0 /\ exit' = 0
                       /\ m.answer = IF calls[id] = Parse THEN files ELSE Loaded
                       /\ files' = IF calls[id] = Parse THEN files ELSE calls[id]
                    \/ exit = 0 /\ exit' = id /\ m.answer = "lost"
                    \/ exit # 0 /\ exit' = exit /\ m.answer = "failed"
           /\ outbox' \in Seq(Response \cup Event)
<1>1. id \in Id
  BY BoundAssumption DEF TypeOK, Id
<1>2. calls[id] \in FileSet \cup {Parse} /\ files \in FileSet \cup {NoFiles}
  BY DEF TypeOK
<1>3. PICK a : /\ outbox' = Append(outbox, [type |-> "response", id |-> id, answer |-> a])
               /\ \/ /\ exit = 0 /\ exit' = 0 /\ a = IF calls[id] = Parse THEN files ELSE Loaded
                     /\ files' = IF calls[id] = Parse THEN files ELSE calls[id]
                  \/ exit = 0 /\ exit' = id /\ a = "lost" /\ files' = files
                  \/ exit # 0 /\ exit' = exit /\ a = "failed" /\ files' = files
  BY DEF Handle, Post
<1> DEFINE m == [type |-> "response", id |-> id, answer |-> a]
<1>4. a \in Answer
  BY <1>2, <1>3 DEF Answer
<1>5. m \in Response
  BY <1>1, <1>4 DEF Response
<1>6. files' \in FileSet \cup {NoFiles}
  BY <1>2, <1>3
<1>7. a # "lost" \/ (exit = 0 /\ exit' = id)
  BY <1>2, <1>3, AnswerAssumption
<1>8. m \in Response \cup Event /\ outbox \in Seq(Response \cup Event)
  BY <1>5 DEF TypeOK
<1>9. outbox' \in Seq(Response \cup Event)
  <2> HIDE DEF m
  <2> QED BY <1>3, <1>8, AppendSeq DEF m
<1>10. m.id = id /\ m.answer = a
  OBVIOUS
<1> HIDE DEF m
<1>11. \E x \in Response : x = m
  BY <1>5
<1> QED
  BY <1>3, <1>5, <1>6, <1>7, <1>9, <1>10 DEF m

LEMMA ResponseType ==
    ASSUME TypeOK, outbox # <<>>, Head(outbox).type = "response"
    PROVE  Head(outbox) \in Response
<1>1. Head(outbox) \in Response \cup Event
  BY TailSeq DEF TypeOK
<1>2. ASSUME Head(outbox) \in Event PROVE FALSE
  BY <1>2 DEF Event
<1> QED
  BY <1>1, <1>2

-----------------------------------------------------------------------------
(* Type correctness.                                                       *)

LEMMA TypeInit == Init => TypeOK
<1>1. \A S : <<>> \in Seq(S)
  BY EmptySeq
<1>2. Len(<<>>) = 0
  OBVIOUS
<1>3. 0 \in 0 .. MaxErrors /\ 0 <= MaxCalls /\ 0 \in 0 .. 0
  BY BoundAssumption
<1> QED
  BY <1>1, <1>2, <1>3 DEF Init, TypeOK

LEMMA TypeStep == TypeOK /\ [Next]_vars => TypeOK'
<1> SUFFICES ASSUME TypeOK, [Next]_vars PROVE TypeOK'
  OBVIOUS
<1> USE DEF history, client, worker
<1>1. ASSUME NEW r \in FileSet \cup {Parse}, Call(r) PROVE TypeOK'
  <2>1. Len(calls) \in Nat /\ Len(calls) + 1 \in Id
    BY <1>1, BoundAssumption DEF TypeOK, Call, Id
  <2>2. calls' \in Seq(FileSet \cup {Parse}) /\ Len(calls') = Len(calls) + 1
        /\ DOMAIN calls' = 1 .. Len(calls) + 1
    BY <1>1, AppendSeq DEF TypeOK, Call
  <2>3. /\ outcome' \in Seq(Answer \cup {"waiting"})
        /\ Len(outcome') = Len(outcome) + 1
    BY <1>1, AppendSeq DEF TypeOK, Call
  <2>4. pending' \subseteq DOMAIN calls'
    BY <1>1, <2>1, <2>2 DEF TypeOK, Call
  <2>5. inbox' \in Seq(DOMAIN calls') /\ queue' \in Seq(DOMAIN calls')
    <3>1. DOMAIN calls \subseteq DOMAIN calls' /\ Len(calls) + 1 \in DOMAIN calls'
      BY <2>1, <2>2 DEF TypeOK
    <3>2. inbox \in Seq(DOMAIN calls') /\ queue \in Seq(DOMAIN calls')
      BY <3>1, SeqMonotonic DEF TypeOK
    <3> QED
      BY <1>1, <3>1, <3>2, AppendSeq DEF Call
  <2>6. Len(calls') <= MaxCalls
    BY <1>1, <2>1, <2>2, BoundAssumption DEF Call
  <2>7. exit' \in {0} \cup DOMAIN calls'
    BY <1>1, <2>1, <2>2 DEF TypeOK, Call
  <2> QED
    BY <1>1, <2>2, <2>3, <2>4, <2>5, <2>6, <2>7 DEF TypeOK, Call
<1>2. CASE OnMessage
  <2> DEFINE m == Head(outbox)
  <2>1. outbox' \in Seq(Response \cup Event)
    BY <1>2, TailSeq DEF TypeOK, OnMessage
  <2>2. CASE OnResponse(m)
    <3>1. m \in Response
      BY <1>2, <2>2, ResponseType DEF OnMessage, OnResponse
    <3>2. m.answer \in Answer \cup {"waiting"}
      BY <3>1 DEF Response
    <3>3. m.id \in pending => m.id \in 1 .. Len(outcome)
      BY DEF TypeOK
    <3>4. /\ outcome' \in Seq(Answer \cup {"waiting"})
          /\ Len(outcome') = Len(outcome)
      <4>1. CASE m.id \in pending
        <5>1. m.id \in 1 .. Len(outcome) /\ outcome' = [outcome EXCEPT ![m.id] = m.answer]
          BY <2>2, <3>3, <4>1 DEF OnResponse
        <5> QED
          BY <3>2, <5>1, ExceptSeq DEF TypeOK
      <4>2. CASE m.id \notin pending
        BY <2>2, <4>2 DEF TypeOK, OnResponse
      <4> QED
        BY <4>1, <4>2
    <3> QED
      BY <1>2, <2>1, <2>2, <3>4 DEF TypeOK, OnMessage, OnResponse
  <2>3. CASE OnReady(m)
    BY <1>2, <2>1, <2>3 DEF TypeOK, OnMessage, OnReady, Settle
  <2>4. CASE OnReadyError(m)
    <3>1. FailAllPending
      BY <2>4 DEF OnReadyError
    <3> QED
      BY <1>2, <2>1, <2>4, <3>1, FailType
         DEF TypeOK, OnMessage, OnReadyError, Settle, FailAllPending
  <2> QED
    BY <1>2, <2>2, <2>3, <2>4 DEF OnMessage
<1>3. CASE OnError
  <2>1. FailAllPending
    BY <1>3 DEF OnError
  <2>2. errors' \in 0 .. raised'
    BY <1>3 DEF TypeOK, OnError
  <2> QED
    BY <1>3, <2>1, <2>2, FailType DEF TypeOK, OnError, Settle, FailAllPending
<1>4. CASE Terminate
  <2>1. FailAllPending
    BY <1>4 DEF Terminate
  <2> QED
    BY <1>4, <2>1, FailType DEF TypeOK, Terminate, FailAllPending
<1>5. CASE Enqueue
  <2>1. queue' \in Seq(DOMAIN calls) /\ inbox' \in Seq(DOMAIN calls)
    BY <1>5, TailSeq, AppendSeq DEF TypeOK, Enqueue
  <2> QED
    BY <1>5, <2>1 DEF TypeOK, Enqueue
<1>6. ASSUME NEW id \in DOMAIN calls, Handle(id),
             inbox' \in Seq(DOMAIN calls), queue' \in Seq(DOMAIN calls),
             UNCHANGED <<history, client, phase, errors, raised>>
      PROVE  TypeOK'
  BY <1>6, HandleType DEF TypeOK
<1>7. CASE Receive
  <2>1. Head(inbox) \in DOMAIN calls /\ inbox' \in Seq(DOMAIN calls)
    BY <1>7, TailSeq DEF TypeOK, Receive
  <2> QED
    BY <1>6, <1>7, <2>1 DEF TypeOK, Receive
<1>8. CASE Drain
  <2>1. Head(queue) \in DOMAIN calls /\ queue' \in Seq(DOMAIN calls)
    BY <1>8, TailSeq DEF TypeOK, Drain
  <2> QED
    BY <1>6, <1>8, <2>1 DEF TypeOK, Drain
<1>9. ASSUME NEW e \in {"ready", "ready-error"}
      PROVE  Append(outbox, [type |-> e]) \in Seq(Response \cup Event)
  <2>1. [type |-> e] \in Response \cup Event
    BY DEF Event
  <2>2. outbox \in Seq(Response \cup Event)
    BY DEF TypeOK
  <2> QED
    BY <2>1, <2>2, AppendSeq
<1>10. CASE Register
  BY <1>10 DEF TypeOK, Register
<1>11. CASE PostReady
  BY <1>9, <1>11 DEF TypeOK, PostReady
<1>12. CASE BootFails
  BY <1>9, <1>12 DEF TypeOK, BootFails
<1>13. CASE Uncaught
  <2>1. raised' \in 0 .. MaxErrors /\ errors' \in 0 .. raised'
    BY <1>13, BoundAssumption DEF TypeOK, Uncaught
  <2>2. phase' \in {phase, "stopped"}
    BY <1>13 DEF Uncaught
  <2> QED
    BY <1>13, <2>1, <2>2 DEF TypeOK, Uncaught
<1>14. CASE UNCHANGED vars
  BY <1>14 DEF TypeOK, vars
<1> QED
  BY <1>1, <1>2, <1>3, <1>4, <1>5, <1>7, <1>8, <1>10, <1>11, <1>12, <1>13, <1>14
     DEF Next, Boot, Serve

\* Every state of EvalRpc is well typed (the maps, queues and promises of
\* EvalClient and of the worker); in particular a queued id is one of a call.
THEOREM TypeCorrect == Spec => []TypeOK
BY TypeInit, TypeStep, PTL DEF Spec

-----------------------------------------------------------------------------
(* No promise is lost.                                                     *)

\* A response without an answer is to the call that the program exited on.
LostAtExit ==
    \A i \in DOMAIN outbox :
        outbox[i].type = "response" /\ outbox[i].answer = "lost" => outbox[i].id = exit

LEMMA LostStep == TypeOK /\ LostAtExit /\ [Next]_vars => LostAtExit'
<1> SUFFICES ASSUME TypeOK, LostAtExit, [Next]_vars PROVE LostAtExit'
  OBVIOUS
<1> USE DEF history, client, worker
<1>1. /\ Len(outbox) \in Nat /\ DOMAIN outbox = 1 .. Len(outbox)
      /\ outbox \in Seq(Response \cup Event)
  BY DEF TypeOK
<1>2. ASSUME NEW i \in DOMAIN outbox, outbox[i].type = "response" PROVE outbox[i].id # 0
  <2>1. outbox[i] \in Response \cup Event
    BY <1>1
  <2>2. ASSUME outbox[i] \in Event PROVE FALSE
    BY <1>2, <2>2 DEF Event
  <2> QED
    BY <2>1, <2>2, BoundAssumption DEF Response, Id
<1>3. ASSUME UNCHANGED <<outbox, exit>> PROVE LostAtExit'
  BY <1>3 DEF LostAtExit
<1>4. ASSUME outbox' = <<>> PROVE LostAtExit'
  BY <1>4 DEF LostAtExit
<1>5. CASE OnMessage
  <2>1. /\ Len(outbox) \in Nat \ {0} /\ exit' = exit
        /\ DOMAIN outbox' = 1 .. Len(outbox) - 1
        /\ \A i \in 1 .. Len(outbox) - 1 : outbox'[i] = outbox[i + 1]
    BY <1>1, <1>5, TailSeq DEF OnMessage
  <2> QED
    BY <1>1, <2>1 DEF LostAtExit
<1>6. ASSUME NEW m \in Response \cup Event, outbox' = Append(outbox, m),
             m.type = "response" /\ m.answer = "lost" => m.id = exit',
             exit' = exit \/ exit = 0
      PROVE  LostAtExit'
  <2>1. /\ DOMAIN outbox' = 1 .. Len(outbox) + 1
        /\ \A i \in 1 .. Len(outbox) : outbox'[i] = outbox[i]
        /\ outbox'[Len(outbox) + 1] = m
    BY <1>1, <1>6, AppendSeq
  <2> QED
    BY <1>1, <1>2, <1>6, <2>1 DEF LostAtExit
<1>7. ASSUME NEW id \in DOMAIN calls, Handle(id) PROVE LostAtExit'
  <2>1. PICK m \in Response : /\ outbox' = Append(outbox, m)
                              /\ m.id = id
                              /\ m.answer = "lost" => exit = 0 /\ exit' = id
    BY <1>7, HandleType
  <2>2. exit' = exit \/ exit = 0
    BY <1>7, HandleType
  <2> QED
    BY <1>6, <2>1, <2>2
<1>8. CASE Receive
  BY <1>7, <1>8, TailSeq DEF TypeOK, Receive
<1>9. CASE Drain
  BY <1>7, <1>9, TailSeq DEF TypeOK, Drain
<1>10. CASE PostReady
  <2>1. outbox' = Append(outbox, [type |-> "ready"]) /\ exit' = exit
    BY <1>10 DEF PostReady
  <2>2. [type |-> "ready"] \in Response \cup Event /\ [type |-> "ready"].type # "response"
    BY DEF Event
  <2> QED
    BY <1>6, <2>1, <2>2
<1>11. CASE BootFails
  <2>1. outbox' = Append(outbox, [type |-> "ready-error"]) /\ exit' = exit
    BY <1>11 DEF BootFails
  <2>2. [type |-> "ready-error"] \in Response \cup Event /\ [type |-> "ready-error"].type # "response"
    BY DEF Event
  <2> QED
    BY <1>6, <2>1, <2>2
<1>12. ASSUME NEW q \in FileSet \cup {Parse}, Call(q) PROVE LostAtExit'
  BY <1>3, <1>12 DEF Call
<1>13. CASE OnError \/ Enqueue \/ Register \/ Uncaught \/ UNCHANGED vars
  BY <1>3, <1>13 DEF OnError, Enqueue, Register, Uncaught, vars
<1>14. CASE Terminate
  BY <1>4, <1>14 DEF Terminate
<1> QED
  BY <1>5, <1>8, <1>9, <1>10, <1>11, <1>12, <1>13, <1>14 DEF Next, Boot, Serve

LEMMA PromiseStep ==
    TypeOK /\ LostAtExit /\ NoLostPromise /\ [Next]_vars => NoLostPromise'
<1> SUFFICES ASSUME TypeOK, LostAtExit, NoLostPromise, [Next]_vars PROVE NoLostPromise'
  OBVIOUS
<1> USE DEF history, client, worker
<1>1. ASSUME NEW r \in FileSet \cup {Parse}, Call(r) PROVE NoLostPromise'
  <2>1. /\ DOMAIN calls' = 1 .. Len(calls) + 1 /\ DOMAIN calls = 1 .. Len(calls)
        /\ Len(calls) \in Nat
    BY <1>1, AppendSeq DEF TypeOK, Call
  <2>2. /\ \A k \in 1 .. Len(calls) : outcome'[k] = outcome[k]
        /\ outcome'[Len(calls) + 1] = "waiting"
    BY <1>1, AppendSeq DEF TypeOK, Call
  <2>3. pending' = pending \cup {Len(calls) + 1}
    BY <1>1 DEF Call
  <2>4. exit' = exit
    BY <1>1 DEF Call
  <2> QED
    BY <2>1, <2>2, <2>3, <2>4 DEF NoLostPromise
<1>2. ASSUME FailAllPending, UNCHANGED <<calls, exit>> PROVE NoLostPromise'
  BY <1>2, FailType DEF NoLostPromise, FailAllPending
<1>3. CASE OnMessage
  <2> DEFINE m == Head(outbox)
  <2>1. CASE OnResponse(m)
    <3>1. m.answer # "waiting"
      BY <1>3, <2>1, ResponseType, AnswerAssumption DEF OnMessage, OnResponse, Response, Answer
    <3>4. m.answer = "lost" => m.id = exit
      <4>1. m = outbox[1] /\ 1 \in DOMAIN outbox
        BY <1>3, TailSeq DEF TypeOK, OnMessage
      <4> QED
        BY <2>1, <4>1 DEF LostAtExit, OnResponse
    <3>2. CASE m.id \in pending
      <4>1. m.id \in DOMAIN outcome /\ DOMAIN outcome = DOMAIN calls
        BY <3>2 DEF TypeOK
      <4> QED
        BY <1>3, <2>1, <3>1, <3>2, <3>4, <4>1 DEF NoLostPromise, OnMessage, OnResponse
    <3>3. CASE m.id \notin pending
      BY <1>3, <2>1, <3>3 DEF NoLostPromise, OnMessage, OnResponse
    <3> QED
      BY <3>2, <3>3
  <2>2. CASE OnReady(m)
    BY <1>3, <2>2 DEF NoLostPromise, OnMessage, OnReady
  <2>3. CASE OnReadyError(m)
    BY <1>2, <1>3, <2>3 DEF OnMessage, OnReadyError
  <2> QED
    BY <1>3, <2>1, <2>2, <2>3 DEF OnMessage
<1>4. CASE OnError
  BY <1>2, <1>4 DEF OnError
<1>5. CASE Terminate
  BY <1>2, <1>5 DEF Terminate
<1>6. ASSUME UNCHANGED <<history, client>>, exit' = exit \/ exit = 0 PROVE NoLostPromise'
  <2>1. \A k \in DOMAIN calls : k # 0
    BY DEF TypeOK
  <2> QED
    BY <1>6, <2>1 DEF NoLostPromise
<1>7. CASE Receive
  BY <1>6, <1>7, HandleType, TailSeq DEF TypeOK, Receive
<1>8. CASE Drain
  BY <1>6, <1>8, HandleType, TailSeq DEF TypeOK, Drain
<1>9. CASE Register \/ PostReady \/ BootFails \/ Enqueue \/ Uncaught \/ UNCHANGED vars
  BY <1>6, <1>9 DEF Register, PostReady, BootFails, Enqueue, Uncaught, vars
<1> QED
  BY <1>1, <1>3, <1>4, <1>5, <1>7, <1>8, <1>9 DEF Next, Boot, Serve

\* No path of EvalClient drops an id from the pending map without settling
\* its promise, or settles a promise and keeps the id, but for the call on
\* which the Go program exited.
THEOREM PromisesKept == Spec => []NoLostPromise
<1>1. Init => NoLostPromise /\ LostAtExit
  BY DEF Init, NoLostPromise, LostAtExit
<1> QED
  BY <1>1, TypeCorrect, LostStep, PromiseStep, PTL DEF Spec

-----------------------------------------------------------------------------
(* The client and its worker implement RpcService.                         *)

\* Which messages the worker has posted, by its phase.
Mailbox ==
    /\ phase \in {"booting", "stopped"} => outbox = <<>>
    /\ phase = "failed" => \A i \in DOMAIN outbox : outbox[i].type = "ready-error"
    /\ phase \in {"draining", "up"} => \A i \in DOMAIN outbox : outbox[i].type # "ready-error"
    /\ phase = "up" => queue = <<>>

IsResponse(i) == i \in DOMAIN outbox /\ outbox[i].type = "response"

\* Responses travel in the order of their ids and answer handled calls.
Ordered ==
    /\ \A i, j \in DOMAIN outbox :
          IsResponse(i) /\ IsResponse(j) /\ i < j => outbox[i].id < outbox[j].id
    /\ \A i \in DOMAIN outbox : IsResponse(i) => outbox[i].id <= Handled

\* Each carries the right answer, and the worker has the files the next call
\* must find.
Correct ==
    /\ \A i \in DOMAIN outbox : IsResponse(i) => outbox[i].answer = Service!AnswerTo(outbox[i].id)
    /\ phase # "stopped" /\ exit = 0 => files = Service!FilesAt(Handled + 1)

\* The call that the program exited on and the calls answered are behind.
Behind ==
    phase # "stopped" =>
        /\ exit <= Handled
        /\ \A k \in DOMAIN calls : outcome[k] \notin {"waiting", "failed"} => k <= Handled

IInv == TypeOK /\ LostAtExit /\ NoLostPromise /\ CallsInOrder /\ Mailbox /\ Ordered
        /\ Correct /\ Behind

LEMMA HandledType ==
    ASSUME TypeOK
    PROVE  /\ Len(calls) \in Nat /\ Len(queue) \in Nat /\ Len(inbox) \in Nat
           /\ Handled \in Int /\ Handled <= Len(calls)
           /\ DOMAIN calls = 1 .. Len(calls)
           /\ DOMAIN queue = 1 .. Len(queue) /\ DOMAIN inbox = 1 .. Len(inbox)
           /\ DOMAIN outbox = 1 .. Len(outbox) /\ Len(outbox) \in Nat
BY DEF TypeOK, Handled

\* There is one last load at most.
LEMMA LastLoadFiles ==
    ASSUME TypeOK, NEW k \in 1 .. Len(calls) + 1,
           NEW j \in 1 .. k - 1, Service!LastLoad(j, k)
    PROVE  Service!FilesAt(k) = calls[j]
<1>1. k \in Nat /\ j \in Nat
  BY HandledType
<1>2. ASSUME NEW i \in 1 .. k - 1, Service!LastLoad(i, k) PROVE i = j
  BY <1>1, <1>2 DEF Service!LastLoad
<1>3. (CHOOSE i \in 1 .. k - 1 : Service!LastLoad(i, k)) = j
  BY <1>2
<1> QED
  BY <1>3 DEF Service!FilesAt

LEMMA HandledNat ==
    ASSUME TypeOK, CallsInOrder, phase # "stopped"
    PROVE  Handled \in Nat
<1>1. CASE Len(queue) > 0
  <2>1. 1 \in DOMAIN queue /\ queue[1] \in DOMAIN calls
    BY <1>1, HandledType DEF TypeOK
  <2>2. queue[1] = Handled + 1
    BY <2>1 DEF CallsInOrder
  <2> QED
    BY <2>1, <2>2, HandledType
<1>2. CASE Len(queue) = 0 /\ Len(inbox) > 0
  <2>1. 1 \in DOMAIN inbox /\ inbox[1] \in DOMAIN calls
    BY <1>2, HandledType DEF TypeOK
  <2>2. inbox[1] = Handled + Len(queue) + 1
    BY <2>1 DEF CallsInOrder
  <2> QED
    BY <1>2, <2>1, <2>2, HandledType
<1>3. CASE Len(queue) = 0 /\ Len(inbox) = 0
  BY <1>3, HandledType DEF Handled
<1> QED
  BY <1>1, <1>2, <1>3, HandledType

\* A response on its way answers a call that was made.
LEMMA ResponseId ==
    ASSUME TypeOK, Ordered, NEW i \in DOMAIN outbox, outbox[i].type = "response"
    PROVE  outbox[i] \in Response /\ outbox[i].id \in DOMAIN calls
<1>1. outbox[i] \in Response \cup Event
  BY DEF TypeOK
<1>2. ASSUME outbox[i] \in Event PROVE FALSE
  BY <1>2 DEF Event
<1>3. outbox[i].id \in Int /\ outbox[i].id >= 1
  BY <1>1, <1>2, BoundAssumption DEF Response, Id
<1>4. outbox[i].id <= Handled
  BY DEF Ordered, IsResponse
<1> QED
  BY <1>1, <1>2, <1>3, <1>4, HandledType

\* The files after request k: its own if it is a load.
LEMMA FilesNext ==
    ASSUME TypeOK, NEW k \in DOMAIN calls
    PROVE  Service!FilesAt(k + 1) = IF calls[k] = Parse THEN Service!FilesAt(k) ELSE calls[k]
<1>1. k \in Nat /\ k >= 1 /\ k + 1 \in 1 .. Len(calls) + 1 /\ k \in 1 .. Len(calls) + 1
  BY HandledType
<1>2. CASE calls[k] # Parse
  <2>1. Service!LastLoad(k, k + 1) /\ k \in 1 .. (k + 1) - 1
    BY <1>1, <1>2 DEF Service!LastLoad
  <2> QED
    BY <1>1, <1>2, <2>1, LastLoadFiles
<1>3. CASE calls[k] = Parse
  <2>1. CASE \E j \in 1 .. k - 1 : Service!LastLoad(j, k)
    <3>1. PICK j \in 1 .. k - 1 : Service!LastLoad(j, k)
      BY <2>1
    <3>2. j \in 1 .. (k + 1) - 1 /\ Service!LastLoad(j, k + 1)
      BY <1>1, <1>3, <3>1 DEF Service!LastLoad
    <3> QED
      BY <1>1, <1>3, <3>1, <3>2, LastLoadFiles
  <2>2. CASE ~ \E j \in 1 .. k - 1 : Service!LastLoad(j, k)
    <3>1. ~ \E j \in 1 .. (k + 1) - 1 : Service!LastLoad(j, k + 1)
      BY <1>1, <1>3, <2>2 DEF Service!LastLoad
    <3> QED
      BY <1>3, <2>2, <3>1 DEF Service!FilesAt
  <2> QED
    BY <2>1, <2>2
<1> QED
  BY <1>2, <1>3

\* A new call changes no answer to the calls before it.
LEMMA AnswersStand ==
    ASSUME TypeOK, NEW r \in FileSet \cup {Parse}, calls' = Append(calls, r), exit' = exit
    PROVE  /\ \A k \in 1 .. Len(calls) + 1 : Service!FilesAt(k)' = Service!FilesAt(k)
           /\ \A k \in DOMAIN calls : Service!AnswerTo(k)' = Service!AnswerTo(k)
<1>1. /\ Len(calls) \in Nat /\ DOMAIN calls = 1 .. Len(calls)
      /\ \A i \in 1 .. Len(calls) : calls'[i] = calls[i]
  BY AppendSeq DEF TypeOK
<1>2. ASSUME NEW k \in 1 .. Len(calls) + 1
      PROVE  Service!FilesAt(k)' = Service!FilesAt(k)
  <2>1. \A j : j \in 1 .. k - 1 /\ Service!LastLoad(j, k)'
                <=> j \in 1 .. k - 1 /\ Service!LastLoad(j, k)
    BY <1>1 DEF Service!LastLoad
  <2>2. (CHOOSE j : j \in 1 .. k - 1 /\ Service!LastLoad(j, k)')
        = (CHOOSE j : j \in 1 .. k - 1 /\ Service!LastLoad(j, k))
    BY <2>1
  <2>3. (\E j \in 1 .. k - 1 : Service!LastLoad(j, k)) =>
           (CHOOSE j : j \in 1 .. k - 1 /\ Service!LastLoad(j, k)) \in 1 .. Len(calls)
    BY <1>1
  <2> QED
    BY <1>1, <2>1, <2>2, <2>3 DEF Service!FilesAt
<1> QED
  BY <1>1, <1>2 DEF Service!AnswerTo

\* On its way: the response to k, or the news that there will be none.
Coming(k) ==
    \/ \E i \in DOMAIN outbox : outbox[i].type = "response" /\ outbox[i].id = k
    \/ \E i \in DOMAIN outbox : outbox[i].type = "ready-error"

\* What posting the message m does to the outbox.
LEMMA PostedOutbox ==
    ASSUME TypeOK, NEW m \in Response \cup Event, outbox' = Append(outbox, m)
    PROVE  /\ Len(outbox) \in Nat
           /\ DOMAIN outbox = 1 .. Len(outbox) /\ DOMAIN outbox' = 1 .. Len(outbox) + 1
           /\ \A i \in 1 .. Len(outbox) : outbox'[i] = outbox[i]
           /\ outbox'[Len(outbox) + 1] = m
<1>1. outbox \in Seq(Response \cup Event)
  BY DEF TypeOK
<1> QED
  BY <1>1, AppendSeq

\* The worker handles the next call and posts the response.
LEMMA HandleStep ==
    ASSUME IInv, Handled + 1 \in DOMAIN calls, Handle(Handled + 1),
           phase \in {"draining", "up"}, phase = "up" => queue' = queue,
           UNCHANGED <<calls, pending, phase>>, Handled' = Handled + 1
    PROVE  /\ Mailbox' /\ Ordered' /\ Correct' /\ exit' <= Handled'
           /\ \A k \in pending' : k <= Handled' => Coming(k)'
<1> USE DEF IInv
<1> PICK id : id = Handled + 1
  OBVIOUS
<1>1. PICK m \in Response :
        /\ outbox' = Append(outbox, m) /\ m.id = id
        /\ \/ /\ exit = 0 /\ exit' = 0
              /\ m.answer = IF calls[id] = Parse THEN files ELSE Loaded
              /\ files' = IF calls[id] = Parse THEN files ELSE calls[id]
           \/ exit = 0 /\ exit' = id /\ m.answer = "lost"
           \/ exit # 0 /\ exit' = exit /\ m.answer = "failed"
  BY HandleType
<1>2. /\ Len(outbox) \in Nat
      /\ DOMAIN outbox = 1 .. Len(outbox) /\ DOMAIN outbox' = 1 .. Len(outbox) + 1
      /\ \A i \in 1 .. Len(outbox) : outbox'[i] = outbox[i]
      /\ outbox'[Len(outbox) + 1] = m
  BY <1>1, PostedOutbox
<1>3. m.type = "response"
  BY DEF Response
<1>4. Handled \in Int
  BY HandledType
<1>5. ASSUME NEW i \in DOMAIN outbox, outbox[i].type = "response"
      PROVE  outbox[i].id \in Nat \ {0}
  BY <1>5, ResponseId, HandledType
<1>6. Mailbox'
  BY <1>2, <1>3 DEF Mailbox
<1>7. Ordered'
  BY <1>1, <1>2, <1>3, <1>4, <1>5 DEF Ordered, IsResponse
<1>10. exit \in Nat /\ exit <= Handled /\ id \in Nat /\ id # 0 /\ exit' <= Handled'
  BY <1>1, <1>4 DEF Behind, TypeOK
<1>8. Correct'
  <2>1. exit = 0 => files = Service!FilesAt(id)
    BY DEF Correct
  <2>2. m.answer = Service!AnswerTo(id)'
    <3>1. Service!FilesAt(id)' = Service!FilesAt(id)
      BY DEF Service!FilesAt, Service!LastLoad
    <3>2. calls' = calls
      OBVIOUS
    <3>3. CASE exit = 0 /\ exit' = 0
      BY <1>1, <1>10, <2>1, <3>1, <3>2, <3>3 DEF Service!AnswerTo
    <3>4. CASE exit = 0 /\ exit' = id
      BY <1>1, <1>10, <3>4 DEF Service!AnswerTo
    <3>5. CASE exit # 0
      <4>1. exit' # 0 /\ id > exit' /\ id # exit' /\ m.answer = "failed"
        BY <1>1, <1>4, <1>10, <3>5
      <4>2. Service!AnswerTo(id)' = "failed"
        BY <4>1 DEF Service!AnswerTo
      <4> QED
        BY <4>1, <4>2
    <3> QED
      BY <1>1, <3>3, <3>4, <3>5
  <2>3. ASSUME NEW k \in Nat \ {0}, k <= Handled
        PROVE  Service!AnswerTo(k)' = Service!AnswerTo(k)
    <3>1. Service!FilesAt(k)' = Service!FilesAt(k)
      BY DEF Service!FilesAt, Service!LastLoad
    <3>2. exit' = exit \/ (exit = 0 /\ exit' = id)
      BY <1>1
    <3>3. k # id /\ ~ (k > id)
      BY <1>4, <2>3
    <3>4. calls' = calls /\ 0 \in Int
      OBVIOUS
    <3>5. CASE exit' = exit
      BY <3>1, <3>4, <3>5 DEF Service!AnswerTo
    <3>6. CASE exit = 0 /\ exit' = id
      <4>1. /\ exit' # 0 /\ k # exit' /\ ~ (k > exit') /\ k # exit
            /\ ~ (exit # 0 /\ k > exit) /\ ~ (exit' # 0 /\ k > exit')
        BY <1>10, <2>3, <3>3, <3>6
      <4> QED
        BY <3>1, <3>4, <4>1 DEF Service!AnswerTo
    <3> QED
      BY <3>2, <3>5, <3>6
  <2>4. exit' = 0 => files' = Service!FilesAt(id + 1)
    <3>1. exit' = 0 => files' = IF calls[id] = Parse THEN files ELSE calls[id]
      BY <1>1, <1>10
    <3> QED
      BY <1>1, <1>10, <2>1, <3>1, FilesNext
  <2>5. exit' = 0 => files' = Service!FilesAt(Handled + 1)'
    <3>1. Handled' + 1 = id + 1
      BY <1>4
    <3>2. Service!FilesAt(id + 1)' = Service!FilesAt(id + 1)
      BY DEF Service!FilesAt, Service!LastLoad
    <3> QED
      BY <2>4, <3>1, <3>2
  <2>6. ASSUME NEW i \in DOMAIN outbox', outbox'[i].type = "response"
        PROVE  \E k \in Int : k = outbox'[i].id /\ outbox'[i].answer = Service!AnswerTo(k)'
    <3>1. CASE i \in 1 .. Len(outbox)
      <4>1. outbox'[i] = outbox[i] /\ outbox[i].type = "response" /\ i \in DOMAIN outbox
        BY <1>2, <2>6, <3>1
      <4>2. outbox[i].id \in Nat \ {0} /\ outbox[i].id <= Handled
        BY <1>5, <4>1 DEF Ordered, IsResponse
      <4>3. outbox[i].answer = Service!AnswerTo(outbox[i].id)
        BY <4>1 DEF Correct, IsResponse
      <4> QED
        BY <2>3, <4>1, <4>2, <4>3
    <3>2. CASE i = Len(outbox) + 1
      BY <1>1, <1>2, <1>10, <2>2, <3>2
    <3> QED
      BY <1>2, <2>6, <3>1, <3>2
  <2>7. ASSUME NEW i \in DOMAIN outbox', outbox'[i].type = "response"
        PROVE  (outbox[i].answer = Service!AnswerTo(outbox[i].id))'
    BY <2>6, <2>7
  <2> QED
    BY <2>5, <2>7 DEF Correct, IsResponse
<1>9. ASSUME NEW k \in pending', k <= Handled' PROVE Coming(k)'
  <2>1. k \in Int
    BY HandledType DEF TypeOK
  <2>2. CASE k <= Handled
    <3>1. Coming(k)
      BY <2>2 DEF CallsInOrder, Coming
    <3> QED
      BY <1>2, <3>1 DEF Coming
  <2>3. CASE k = Handled + 1
    BY <1>1, <1>2, <1>3, <2>3 DEF Coming
  <2> QED
    BY <1>4, <1>9, <2>1, <2>2, <2>3
<1> QED
  BY <1>6, <1>7, <1>8, <1>9, <1>10

\* The parts of the invariant that a step adds to the proved ones.
Wire == CallsInOrder /\ Mailbox /\ Ordered /\ Correct

LEMMA CallWire ==
    ASSUME IInv, NEW r \in FileSet \cup {Parse}, Call(r) PROVE Wire'
<1> USE DEF IInv, worker
<1>1. /\ Len(calls) \in Nat /\ Len(queue) \in Nat /\ Len(inbox) \in Nat
      /\ Len(calls') = Len(calls) + 1 /\ UNCHANGED <<queue, outbox, files, exit, phase>>
      /\ pending' = pending \cup {Len(calls) + 1}
  BY HandledType, AppendSeq DEF TypeOK, Call
<1>2. CASE phase = "stopped"
  BY <1>1, <1>2 DEF Wire, CallsInOrder, Mailbox, Ordered, Correct, IsResponse
<1>3. CASE phase # "stopped"
  <2>1. /\ Len(inbox') = Len(inbox) + 1 /\ DOMAIN inbox' = 1 .. Len(inbox) + 1
        /\ \A i \in 1 .. Len(inbox) : inbox'[i] = inbox[i]
        /\ inbox'[Len(inbox) + 1] = Len(calls) + 1
    <3>1. inbox \in Seq(Int) /\ inbox' = Append(inbox, Len(calls) + 1)
      BY <1>1, <1>3, SeqMonotonic, HandledType DEF TypeOK, Call
    <3> QED
      BY <1>1, <3>1, AppendSeq
  <2>2. Handled' = Handled /\ Handled \in Int /\ Handled <= Len(calls)
    BY <1>1, <2>1, HandledType DEF Handled
  <2>3. CallsInOrder'
    <3>1. \A i \in DOMAIN queue' : queue'[i] = Handled' + i
      BY <1>1, <1>3, <2>2 DEF CallsInOrder
    <3>2. \A i \in DOMAIN inbox' : inbox'[i] = Handled' + Len(queue') + i
      BY <1>1, <1>3, <2>1, <2>2, HandledType DEF CallsInOrder, Handled
    <3>3. \A k \in pending' : k <= Handled' => k \in pending
      BY <1>1, <2>2
    <3>4. \A k \in pending' : k <= Handled' => Coming(k)'
      BY <1>1, <1>3, <2>2, <3>3 DEF CallsInOrder, Coming
    <3> QED
      BY <3>1, <3>2, <3>4 DEF CallsInOrder, Coming
  <2>4. Mailbox' /\ Ordered'
    BY <1>1, <2>2 DEF Mailbox, Ordered, IsResponse
  <2>5. Correct'
    <3>1. calls' = Append(calls, r) /\ Handled + 1 \in 1 .. Len(calls) + 1
      <4>1. Handled + 1 >= 1
        BY <1>3, HandledNat
      <4> QED
        BY <2>2, <4>1 DEF Call
    <3>2. \A i \in DOMAIN outbox : IsResponse(i) => outbox[i].id \in DOMAIN calls
      BY ResponseId DEF IsResponse
    <3> QED
      BY <1>1, <2>2, <3>1, <3>2, AnswersStand DEF Correct, IsResponse
  <2> QED
    BY <2>3, <2>4, <2>5 DEF Wire
<1> QED
  BY <1>2, <1>3

LEMMA DeliverWire ==
    ASSUME IInv, OnMessage PROVE Wire'
<1> USE DEF IInv, worker
<1> DEFINE m == Head(outbox)
<1>1. UNCHANGED <<calls, queue, inbox, files, exit, phase>> /\ outbox' = Tail(outbox)
  BY DEF OnMessage
<1>2. Handled' = Handled
  BY <1>1 DEF Handled
<1>3. /\ Len(outbox) \in Nat \ {0} /\ m = outbox[1]
      /\ DOMAIN outbox = 1 .. Len(outbox) /\ DOMAIN outbox' = 1 .. Len(outbox) - 1
      /\ \A i \in 1 .. Len(outbox) - 1 : outbox'[i] = outbox[i + 1]
  BY HandledType, TailSeq DEF TypeOK, OnMessage
<1>4. Mailbox'
  BY <1>1, <1>3 DEF Mailbox, OnMessage
<1>5. Ordered'
  <2>1. \A i \in DOMAIN outbox' : IsResponse(i)' => IsResponse(i + 1) /\ outbox'[i] = outbox[i + 1]
    BY <1>3 DEF IsResponse
  <2>2. \A i, j \in DOMAIN outbox' : i + 1 \in Int /\ (i < j => i + 1 < j + 1)
    BY <1>3
  <2> QED
    BY <1>2, <1>3, <2>1, <2>2 DEF Ordered
<1>6. Correct'
  <2>1. \A k : Service!AnswerTo(k)' = Service!AnswerTo(k) /\ Service!FilesAt(k)' = Service!FilesAt(k)
    BY <1>1 DEF Service!AnswerTo, Service!FilesAt, Service!LastLoad
  <2>2. \A i \in DOMAIN outbox' : IsResponse(i)' => IsResponse(i + 1) /\ outbox'[i] = outbox[i + 1]
    BY <1>3 DEF IsResponse
  <2> QED
    BY <1>1, <1>2, <1>3, <2>1, <2>2 DEF Correct, IsResponse
<1>7. CallsInOrder'
  <2>1. ASSUME phase # "stopped", NEW k \in pending', k <= Handled PROVE Coming(k)'
    <3>1. pending' \subseteq pending
      BY DEF OnMessage, OnResponse, OnReady, OnReadyError, FailAllPending
    <3>2. PICK i \in DOMAIN outbox :
            (outbox[i].type = "response" /\ outbox[i].id = k) \/ outbox[i].type = "ready-error"
      BY <2>1, <3>1 DEF CallsInOrder
    <3>3. CASE i = 1
      BY <1>3, <2>1, <3>2, <3>3
         DEF OnMessage, OnResponse, OnReady, OnReadyError, FailAllPending
    <3>4. CASE i # 1
      <4>1. i - 1 \in DOMAIN outbox' /\ outbox'[i - 1] = outbox[i]
        BY <1>3, <3>4
      <4> QED
        BY <3>2, <4>1 DEF Coming
    <3> QED
      BY <3>3, <3>4
  <2> QED
    BY <1>1, <1>2, <2>1 DEF CallsInOrder, Coming
<1> QED
  BY <1>4, <1>5, <1>6, <1>7 DEF Wire

LEMMA StepWire ==
    ASSUME IInv, TypeOK', [Next]_vars PROVE Wire'
<1> USE DEF IInv, worker, history, client
<1>1. (\A k : Service!AnswerTo(k)' = Service!AnswerTo(k) /\ Service!FilesAt(k)' = Service!FilesAt(k))
      \/ ~ UNCHANGED <<calls, exit>>
  BY DEF Service!AnswerTo, Service!FilesAt, Service!LastLoad
<1>2. ASSUME UNCHANGED <<calls, phase, inbox, queue, files, exit, outbox>>, pending' \subseteq pending
      PROVE  Wire'
  BY <1>1, <1>2 DEF Wire, CallsInOrder, Mailbox, Ordered, Correct, IsResponse, Handled
<1>3. ASSUME phase' = "stopped", outbox' = <<>> PROVE Wire'
  BY <1>3 DEF Wire, CallsInOrder, Mailbox, Ordered, Correct, IsResponse
<1>4. CASE OnError
  BY <1>2, <1>4 DEF OnError, FailAllPending
<1>5. CASE Terminate
  BY <1>3, <1>5 DEF Terminate
<1>6. CASE Enqueue
  <2>1. /\ Len(inbox) \in Nat \ {0} /\ Head(inbox) = inbox[1] /\ Head(inbox) \in DOMAIN calls
        /\ Len(inbox') = Len(inbox) - 1 /\ DOMAIN inbox' = 1 .. Len(inbox) - 1
        /\ \A i \in 1 .. Len(inbox) - 1 : inbox'[i] = inbox[i + 1]
    BY <1>6, TailSeq, HandledType DEF TypeOK, Enqueue
  <2>2. /\ Len(queue) \in Nat /\ Len(queue') = Len(queue) + 1
        /\ DOMAIN queue = 1 .. Len(queue) /\ DOMAIN queue' = 1 .. Len(queue) + 1
        /\ \A i \in 1 .. Len(queue) : queue'[i] = queue[i]
        /\ queue'[Len(queue) + 1] = inbox[1]
    BY <1>6, <2>1, AppendSeq, HandledType DEF TypeOK, Enqueue
  <2>3. Handled' = Handled /\ Handled \in Int
    BY <1>6, <2>1, <2>2, HandledType DEF Handled, Enqueue
  <2>4. CallsInOrder'
    <3>1. phase # "stopped" /\ phase' = phase /\ outbox' = outbox /\ pending' = pending
      BY <1>6 DEF Enqueue
    <3>2. inbox[1] = Handled + Len(queue) + 1
      BY <2>1, <3>1, HandledType DEF CallsInOrder
    <3>3. \A i \in DOMAIN queue' : queue'[i] = Handled' + i
      BY <2>2, <2>3, <3>1, <3>2 DEF CallsInOrder
    <3>4. ASSUME NEW i \in DOMAIN inbox' PROVE inbox'[i] = Handled' + Len(queue') + i
      <4>1. i \in 1 .. Len(inbox) - 1 /\ i + 1 \in DOMAIN inbox /\ i \in Int
        BY <2>1, <3>4, HandledType
      <4>2. inbox'[i] = inbox[i + 1] /\ inbox[i + 1] = Handled + Len(queue) + (i + 1)
        BY <2>1, <3>1, <4>1 DEF CallsInOrder
      <4> QED
        BY <2>2, <2>3, <4>1, <4>2
    <3> QED
      BY <2>3, <3>1, <3>3, <3>4 DEF CallsInOrder
  <2> QED
    BY <1>1, <1>6, <2>3, <2>4 DEF Wire, Mailbox, Ordered, Correct, IsResponse, Enqueue
<1>7. CASE Receive
  <2>1. /\ Len(inbox) \in Nat \ {0} /\ Head(inbox) = inbox[1] /\ Head(inbox) \in DOMAIN calls
        /\ Len(inbox') = Len(inbox) - 1 /\ DOMAIN inbox' = 1 .. Len(inbox) - 1
        /\ \A i \in 1 .. Len(inbox) - 1 : inbox'[i] = inbox[i + 1]
    BY <1>7, TailSeq, HandledType DEF TypeOK, Receive
  <2>2. queue = <<>> /\ Len(queue) = 0
    BY <1>7 DEF Mailbox, Receive
  <2>3. Head(inbox) = Handled + 1
    BY <1>7, <2>1, <2>2, HandledType DEF CallsInOrder, Receive
  <2>4. Handled' = Handled + 1 /\ Handled \in Int
    BY <1>7, <2>1, <2>2, HandledType DEF Handled, Receive
  <2>5. Mailbox' /\ Ordered' /\ Correct' /\ \A k \in pending' : k <= Handled' => Coming(k)'
    BY <1>7, <2>1, <2>3, <2>4, HandleStep DEF Receive
  <2>6. CallsInOrder'
    <3>1. \A i \in DOMAIN inbox' : inbox'[i] = Handled' + Len(queue') + i
      BY <1>7, <2>1, <2>2, <2>4, HandledType DEF CallsInOrder, Receive
    <3>2. \A i \in DOMAIN queue' : queue'[i] = Handled' + i
      BY <1>7, <2>2, HandledType DEF Receive
    <3> QED
      BY <2>5, <3>1, <3>2 DEF CallsInOrder, Coming
  <2> QED
    BY <2>5, <2>6 DEF Wire
<1>8. CASE Drain
  <2>1. /\ Len(queue) \in Nat \ {0} /\ Head(queue) = queue[1] /\ Head(queue) \in DOMAIN calls
        /\ Len(queue') = Len(queue) - 1 /\ DOMAIN queue' = 1 .. Len(queue) - 1
        /\ \A i \in 1 .. Len(queue) - 1 : queue'[i] = queue[i + 1]
    BY <1>8, TailSeq, HandledType DEF TypeOK, Drain
  <2>3. Head(queue) = Handled + 1
    BY <1>8, <2>1, HandledType DEF CallsInOrder, Drain
  <2>4. Handled' = Handled + 1 /\ Handled \in Int
    BY <1>8, <2>1, HandledType DEF Handled, Drain
  <2>5. Mailbox' /\ Ordered' /\ Correct' /\ \A k \in pending' : k <= Handled' => Coming(k)'
    BY <1>8, <2>1, <2>3, <2>4, HandleStep DEF Drain
  <2>6. CallsInOrder'
    <3>1. \A i \in DOMAIN queue' : queue'[i] = Handled' + i
      BY <1>8, <2>1, <2>4, HandledType DEF CallsInOrder, Drain
    <3>2. \A i \in DOMAIN inbox' : inbox'[i] = Handled' + Len(queue') + i
      BY <1>8, <2>1, <2>4, HandledType DEF CallsInOrder, Drain
    <3> QED
      BY <2>5, <3>1, <3>2 DEF CallsInOrder, Coming
  <2> QED
    BY <2>5, <2>6 DEF Wire
<1>9. CASE Register
  BY <1>1, <1>9 DEF Wire, CallsInOrder, Mailbox, Ordered, Correct, IsResponse, Handled, Register
<1>10. ASSUME NEW e \in {"ready", "ready-error"}, outbox' = Append(outbox, [type |-> e]),
              phase # "stopped", phase' # "stopped",
              UNCHANGED <<calls, pending, inbox, queue, files, exit>>
       PROVE  CallsInOrder' /\ Ordered' /\ Correct'
  <2>1. /\ Len(outbox) \in Nat
        /\ DOMAIN outbox = 1 .. Len(outbox) /\ DOMAIN outbox' = 1 .. Len(outbox) + 1
        /\ \A i \in 1 .. Len(outbox) : outbox'[i] = outbox[i]
        /\ outbox'[Len(outbox) + 1] = [type |-> e]
    BY <1>10, PostedOutbox DEF Event
  <2>2. Handled' = Handled
    BY <1>10 DEF Handled
  <2>3. \A i \in DOMAIN outbox' : IsResponse(i)' => IsResponse(i) /\ outbox'[i] = outbox[i]
    BY <1>10, <2>1 DEF IsResponse
  <2>4. Ordered'
    BY <2>1, <2>2, <2>3 DEF Ordered, IsResponse
  <2>5. Correct'
    BY <1>1, <1>10, <2>2, <2>3 DEF Correct, IsResponse
  <2>6. \A k \in pending' : k <= Handled' => Coming(k)'
    <3>1. \A k \in pending' : k <= Handled' => Coming(k)
      BY <1>10, <2>2 DEF CallsInOrder, Coming
    <3> QED
      BY <2>1, <3>1 DEF Coming
  <2>7. CallsInOrder'
    BY <1>10, <2>2, <2>6 DEF CallsInOrder, Coming
  <2> QED
    BY <2>4, <2>5, <2>7
<1>11. CASE PostReady
  <2>1. Mailbox'
    BY <1>11, PostedOutbox DEF Mailbox, PostReady, Event
  <2> QED
    BY <1>10, <1>11, <2>1 DEF Wire, PostReady
<1>12. CASE BootFails
  <2>1. Mailbox'
    BY <1>12, PostedOutbox DEF Mailbox, BootFails, Event
  <2> QED
    BY <1>10, <1>12, <2>1 DEF Wire, BootFails
<1>13. CASE Uncaught
  <2>1. CASE phase' = phase
    BY <1>2, <1>13, <2>1 DEF Uncaught
  <2>2. CASE phase' # phase
    <3>1. phase = "booting" /\ phase' = "stopped" /\ outbox' = outbox
      BY <1>13, <2>2 DEF Uncaught
    <3> QED
      BY <1>3, <3>1 DEF Mailbox
  <2> QED
    BY <2>1, <2>2
<1>14. CASE UNCHANGED vars
  BY <1>2, <1>14 DEF vars
<1> QED
  BY CallWire, DeliverWire, <1>4, <1>5, <1>6, <1>7, <1>8, <1>9, <1>11, <1>12, <1>13, <1>14
     DEF Next, Boot, Serve

\* The worker's progress through the calls stays ahead of exits and outcomes.
LEMMA BehindStep ==
    ASSUME IInv, TypeOK', [Next]_vars PROVE Behind'
<1> USE DEF IInv, worker, history, client
<1>1. ASSUME phase' = phase, Handled' = Handled, UNCHANGED <<calls, exit>>,
             \A k \in DOMAIN calls : outcome'[k] \in {outcome[k], "failed"}
      PROVE  Behind'
  BY <1>1 DEF Behind
<1>2. UNCHANGED <<calls, queue, inbox>> => Handled' = Handled
  BY DEF Handled
<1>3. ASSUME FailAllPending
      PROVE  \A k \in DOMAIN calls : outcome'[k] \in {outcome[k], "failed"}
  BY <1>3, FailType
<1>4. ASSUME NEW r \in FileSet \cup {Parse}, Call(r) PROVE Behind'
  <2>1. /\ DOMAIN calls' = 1 .. Len(calls) + 1 /\ DOMAIN calls = 1 .. Len(calls)
        /\ Len(calls) \in Nat /\ Len(calls') = Len(calls) + 1
        /\ \A k \in 1 .. Len(calls) : outcome'[k] = outcome[k]
        /\ outcome'[Len(calls) + 1] = "waiting"
    BY <1>4, AppendSeq DEF TypeOK, Call
  <2>2. CASE phase # "stopped"
    <3>1. inbox \in Seq(Int) /\ inbox' = Append(inbox, Len(calls) + 1)
      BY <1>4, <2>1, <2>2, SeqMonotonic, HandledType DEF TypeOK, Call
    <3>2. Len(inbox') = Len(inbox) + 1
      BY <2>1, <3>1, AppendSeq
    <3>3. Handled' = Handled
      BY <1>4, <2>1, <3>2, HandledType DEF Handled, Call
    <3>4. UNCHANGED <<phase, exit>> /\ Handled \in Int
      BY <1>4, HandledType DEF Call
    <3>5. ASSUME NEW k \in DOMAIN calls', outcome'[k] \notin {"waiting", "failed"} PROVE k <= Handled
      <4>1. k \in DOMAIN calls /\ outcome'[k] = outcome[k]
        BY <2>1, <3>5
      <4> QED
        BY <2>2, <3>5, <4>1 DEF Behind
    <3> QED
      BY <2>2, <3>3, <3>4, <3>5 DEF Behind
  <2>3. phase' = phase
    BY <1>4 DEF Call
  <2> QED
    BY <2>2, <2>3 DEF Behind
<1>5. CASE OnMessage
  <2> DEFINE m == Head(outbox)
  <2>1. Handled' = Handled /\ phase' = phase /\ UNCHANGED <<calls, exit>>
    BY <1>2, <1>5 DEF OnMessage
  <2>2. CASE OnResponse(m)
    <3>1. m = outbox[1] /\ 1 \in DOMAIN outbox
      BY <1>5, TailSeq, HandledType DEF TypeOK, OnMessage
    <3>2. m.id <= Handled
      BY <2>2, <3>1 DEF Ordered, IsResponse, OnResponse
    <3>3. \A k \in DOMAIN calls : k # m.id => outcome'[k] = outcome[k]
      BY <2>2 DEF OnResponse, TypeOK
    <3> QED
      BY <2>1, <3>2, <3>3 DEF Behind
  <2>3. CASE OnReady(m)
    BY <1>1, <2>1, <2>3 DEF OnReady
  <2>4. CASE OnReadyError(m)
    BY <1>1, <1>3, <2>1, <2>4 DEF OnReadyError
  <2> QED
    BY <1>5, <2>2, <2>3, <2>4 DEF OnMessage
<1>6. CASE OnError
  BY <1>1, <1>2, <1>3, <1>6 DEF OnError
<1>7. CASE Terminate
  BY <1>7 DEF Behind, Terminate
<1>8. CASE Enqueue
  <2>1. /\ Len(inbox) \in Nat \ {0} /\ Head(inbox) \in DOMAIN calls
        /\ Len(inbox') = Len(inbox) - 1 /\ Len(queue') = Len(queue) + 1
    BY <1>8, TailSeq, AppendSeq DEF TypeOK, Enqueue
  <2>2. Handled' = Handled
    BY <1>8, <2>1, HandledType DEF Handled, Enqueue
  <2> QED
    BY <1>1, <1>8, <2>2 DEF Enqueue
<1>9. ASSUME Handled' = Handled + 1, Handled + 1 \in DOMAIN calls, Handle(Handled + 1),
             phase \in {"draining", "up"}, phase = "up" => queue' = queue,
             UNCHANGED <<history, client, phase>>
      PROVE  Behind'
  <2>1. exit' <= Handled'
    BY <1>9, HandleStep
  <2>2. Handled \in Int /\ \A k \in DOMAIN calls : k \in Int
    BY HandledType
  <2> QED
    BY <1>9, <2>1, <2>2 DEF Behind
<1>10. CASE Receive
  <2>1. /\ Len(inbox) \in Nat \ {0} /\ Head(inbox) = inbox[1] /\ Head(inbox) \in DOMAIN calls
        /\ Len(inbox') = Len(inbox) - 1
    BY <1>10, TailSeq DEF TypeOK, Receive
  <2>2. queue = <<>> /\ Len(queue) = 0
    BY <1>10 DEF Mailbox, Receive
  <2>3. Head(inbox) = Handled + 1
    BY <1>10, <2>1, <2>2, HandledType DEF CallsInOrder, Receive
  <2>4. Handled' = Handled + 1
    BY <1>10, <2>1, <2>2, HandledType DEF Handled, Receive
  <2> QED
    BY <1>9, <1>10, <2>1, <2>3, <2>4 DEF Receive
<1>11. CASE Drain
  <2>1. /\ Len(queue) \in Nat \ {0} /\ Head(queue) = queue[1] /\ Head(queue) \in DOMAIN calls
        /\ Len(queue') = Len(queue) - 1
    BY <1>11, TailSeq DEF TypeOK, Drain
  <2>2. Head(queue) = Handled + 1
    BY <1>11, <2>1, HandledType DEF CallsInOrder, Drain
  <2>3. Handled' = Handled + 1
    BY <1>11, <2>1, HandledType DEF Handled, Drain
  <2> QED
    BY <1>9, <1>11, <2>1, <2>2, <2>3 DEF Drain
<1>12. ASSUME phase # "stopped", UNCHANGED <<history, inbox, queue, exit>> PROVE Behind'
  BY <1>2, <1>12 DEF Behind
<1>13. CASE Register \/ PostReady \/ BootFails
  BY <1>12, <1>13 DEF Register, PostReady, BootFails
<1>14. CASE Uncaught
  <2>1. phase' \in {phase, "stopped"} /\ UNCHANGED <<history, inbox, queue, exit>>
    BY <1>14 DEF Uncaught
  <2> QED
    BY <1>2, <2>1 DEF Behind
<1>15. CASE UNCHANGED vars
  BY <1>1, <1>2, <1>15 DEF vars
<1> QED
  BY <1>4, <1>5, <1>6, <1>7, <1>8, <1>10, <1>11, <1>13, <1>14, <1>15 DEF Next, Boot, Serve

LEMMA WireInit == Init => Wire /\ Behind
<1> SUFFICES ASSUME Init PROVE Wire /\ Behind
  OBVIOUS
<1>1. /\ outbox = <<>> /\ queue = <<>> /\ inbox = <<>> /\ pending = {} /\ calls = <<>>
      /\ phase = "booting" /\ files = NoFiles /\ exit = 0 /\ Len(<<>>) = 0 /\ DOMAIN <<>> = {}
  BY DEF Init
<1>2. Handled = 0
  <2>1. Len(calls) = 0 /\ Len(queue) = 0 /\ Len(inbox) = 0
    BY <1>1
  <2> QED
    BY <2>1 DEF Handled
<1>3. Service!FilesAt(1) = NoFiles
  BY DEF Service!FilesAt
<1> QED
  BY <1>1, <1>2, <1>3 DEF Wire, CallsInOrder, Mailbox, Ordered, Correct, Behind

\* The strengthened invariant: the messages between client and worker are in
\* order and carry what RpcService prescribes.
LEMMA Invariance == Spec => []IInv
<1>1. Init => IInv
  <2>1. Init => NoLostPromise /\ LostAtExit
    BY DEF Init, NoLostPromise, LostAtExit
  <2> QED
    BY <2>1, TypeInit, WireInit DEF IInv, Wire
<1>2. IInv /\ [Next]_vars => IInv'
  BY TypeStep, LostStep, PromiseStep, StepWire, BehindStep DEF IInv, Wire
<1> QED
  BY <1>1, <1>2, PTL DEF Spec

\* Calls queued while the worker boots are not overtaken, and a call that the
\* worker has handled has its response on the way.
THEOREM InOrder == Spec => []CallsInOrder
<1>1. IInv => CallsInOrder
  BY DEF IInv
<1> QED
  BY <1>1, Invariance, PTL

\* Who waits in RpcService is who is in the pending map.
LEMMA WaitingPending ==
    ASSUME TypeOK, NoLostPromise PROVE Service!Waiting = pending
<1>1. DOMAIN outcome = DOMAIN calls /\ pending \subseteq DOMAIN calls
  BY DEF TypeOK
<1> QED
  BY <1>1 DEF Service!Waiting, NoLostPromise

\* A response that settles a call replies to the oldest one that waits.
LEMMA ResponseReplies ==
    ASSUME IInv, OnMessage, OnResponse(Head(outbox)), Head(outbox).id \in pending
    PROVE  \E k \in DOMAIN calls : Service!Reply(k)
<1> USE DEF IInv
<1> DEFINE m == Head(outbox)
<1>1. /\ Len(outbox) \in Nat \ {0} /\ m = outbox[1] /\ 1 \in DOMAIN outbox
      /\ DOMAIN outbox = 1 .. Len(outbox) /\ m.type = "response"
  BY HandledType, TailSeq DEF TypeOK, OnMessage, OnResponse
<1>2. m.id \in DOMAIN calls /\ m.id \in Int
  BY <1>1, ResponseId, HandledType
<1>3. phase \notin {"booting", "stopped", "failed"}
  BY <1>1 DEF Mailbox
<1>4. phase \in {"draining", "up"}
  BY <1>3 DEF TypeOK
<1>5. ASSUME NEW k \in pending PROVE m.id <= k
  <2>1. k \in Int /\ Handled \in Int /\ m.id <= Handled
    <3>1. m.id <= Handled
      BY <1>1 DEF Ordered, IsResponse
    <3>2. k \in Int
      BY HandledType DEF TypeOK
    <3> QED
      BY <3>1, <3>2, HandledType
  <2>2. CASE k <= Handled
    <3>1. PICK i \in DOMAIN outbox : outbox[i].type = "response" /\ outbox[i].id = k
      BY <1>4, <2>2 DEF CallsInOrder, Mailbox
    <3>2. CASE i = 1
      BY <1>1, <2>1, <3>1, <3>2
    <3>3. CASE i # 1
      BY <1>1, <1>2, <2>1, <3>1, <3>3 DEF Ordered, IsResponse
    <3> QED
      BY <3>2, <3>3
  <2>3. CASE ~ (k <= Handled)
    BY <1>2, <2>1, <2>3
  <2> QED
    BY <2>2, <2>3
<1>6. m.answer = Service!AnswerTo(m.id)
  BY <1>1 DEF Correct, IsResponse
<1>7. outcome' = [outcome EXCEPT ![m.id] = Service!AnswerTo(m.id)] /\ UNCHANGED <<calls, exit>>
  BY <1>6 DEF OnMessage, OnResponse, worker
<1>8. m.id \in Service!Waiting /\ \A k \in Service!Waiting : m.id <= k
  BY <1>5, WaitingPending
<1>9. Service!Reply(m.id)
  BY <1>7, <1>8 DEF Service!Reply
<1> QED
  BY <1>2, <1>9

\* The Go program exits on the next call, which is not answered, nor is a later one.
LEMMA HandleMaps ==
    ASSUME IInv, Handled + 1 \in DOMAIN calls, Handle(Handled + 1), phase # "stopped",
           UNCHANGED history
    PROVE  [Service!Next]_<<calls, outcome, exit>>
<1> USE DEF IInv, history
<1>1. exit' = exit \/ (exit = 0 /\ exit' = Handled + 1)
  BY HandleType
<1>2. ASSUME NEW j \in DOMAIN calls, j >= Handled + 1 PROVE outcome[j] \in {"waiting", "failed"}
  <2>1. j \in Int /\ Handled \in Int
    BY HandledType
  <2> QED
    BY <1>2, <2>1 DEF Behind
<1>3. exit' # exit => Service!Exit(Handled + 1)
  BY <1>1, <1>2 DEF Service!Exit
<1> QED
  BY <1>3 DEF Service!Next

\* Every step of client and worker is a step of RpcService or leaves its
\* variables alone.
LEMMA StepMaps ==
    ASSUME IInv, [Next]_vars PROVE [Service!Next]_<<calls, outcome, exit>>
<1> USE DEF IInv, history, worker
<1>1. ASSUME NEW r \in FileSet \cup {Parse}, Call(r) PROVE Service!Next
  BY <1>1 DEF Call, Service!Next, Service!Issue, Service!Request
<1>2. ASSUME FailAllPending, UNCHANGED <<calls, exit>> PROVE Service!Next
  BY <1>2, WaitingPending DEF FailAllPending, Service!Next, Service!Fail
<1>3. CASE OnMessage
  <2>1. CASE OnResponse(Head(outbox))
    BY <1>3, <2>1, ResponseReplies DEF OnMessage, OnResponse, Service!Next
  <2>2. CASE OnReady(Head(outbox))
    BY <1>3, <2>2 DEF OnMessage, OnReady
  <2>3. CASE OnReadyError(Head(outbox))
    BY <1>2, <1>3, <2>3 DEF OnMessage, OnReadyError
  <2> QED
    BY <1>3, <2>1, <2>2, <2>3 DEF OnMessage
<1>4. CASE OnError \/ Terminate
  BY <1>2, <1>4 DEF OnError, Terminate
<1>5. CASE Receive
  <2>1. Head(inbox) = inbox[1] /\ 1 \in DOMAIN inbox /\ Head(inbox) \in DOMAIN calls
    BY <1>5, TailSeq, HandledType DEF TypeOK, Receive
  <2>2. queue = <<>> /\ Len(queue) = 0
    BY <1>5 DEF Mailbox, Receive
  <2>3. Head(inbox) = Handled + 1
    BY <1>5, <2>1, <2>2, HandledType DEF CallsInOrder, Receive
  <2> QED
    BY <1>5, <2>1, <2>3, HandleMaps DEF Receive
<1>6. CASE Drain
  <2>1. Head(queue) = queue[1] /\ 1 \in DOMAIN queue /\ Head(queue) \in DOMAIN calls
    BY <1>6, TailSeq, HandledType DEF TypeOK, Drain
  <2>2. Head(queue) = Handled + 1
    BY <1>6, <2>1, HandledType DEF CallsInOrder, Drain
  <2> QED
    BY <1>6, <2>1, <2>2, HandleMaps DEF Drain
<1>7. CASE Register \/ PostReady \/ BootFails \/ Enqueue \/ Uncaught \/ UNCHANGED vars
  BY <1>7 DEF Register, PostReady, BootFails, Enqueue, Uncaught, vars
<1> QED
  BY <1>1, <1>3, <1>4, <1>5, <1>6, <1>7 DEF Next, Boot, Serve

\* EvalClient and its worker behave like one evaluator that answers the calls
\* in order, each once, from the files installed last, or fails all that wait;
\* if it exits, only the call it exits on is left unsettled.
THEOREM ImplementsService == Spec => Implements
<1>1. Init => Service!Init
  BY DEF Init, Service!Init
<1>2. IInv /\ [Next]_vars => [Service!Next]_<<calls, outcome, exit>>
  BY StepMaps
<1> QED
  BY <1>1, <1>2, Invariance, PTL DEF Spec, Implements, Service!Spec, history
=============================================================================
