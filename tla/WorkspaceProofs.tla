-------------------------- MODULE WorkspaceProofs ---------------------------
(* Why what the workspace shows at rest is the present, although the runs   *)
(* of its parse effect overlap at every await                               *)
(* (web/src/state/workspace.tsx:161-335).                                   *)
EXTENDS Workspace, SequenceTheorems, TLAPS

Phase == {"timer", "ready", "walk", "load", "parse"}
Generations == [vfs : Vfs, root : KsyPath, cancelled : BOOLEAN, phase : Phase, client : Nat,
                todo : Seq(KsyPath), found : FileSet, call : Nat, bytes : Contents \cup {Null}]

OpenTypes ==
    /\ disk \in [Vfs -> [KsyPath -> File]]
    /\ vfs \in Vfs /\ currentKsyPath \in KsyPathOrNull /\ editorKsyPath \in KsyPathOrNull
    /\ ksySource \in Text \cup {NoText}
    /\ buffer \in Contents /\ version \in Nat
    /\ reads \subseteq File
    /\ opening \subseteq [path : BinPath, data : Contents \cup {Missing}]
    /\ due \in BOOLEAN /\ touched \in BOOLEAN /\ events \in Nat /\ faults \in Nat

MountTypes ==
    /\ mounted \in Dependencies \cup {Null}
    /\ mirrored \in (Vfs \X KsyPathOrNull) \cup {Null}
    /\ mounted = Null => due /\ gens = {}
    /\ mirrored = Null => due

RpcTypes ==
    /\ client \in Nat \ {0}
    /\ ready \in Seq({"pending", "resolved", "rejected"}) /\ Len(ready) = client
    /\ calls \in Seq(FileSet \cup {ParseCall})
    /\ outcome \in Seq(FileSet \cup {Loaded, Unanswered, Failed}) /\ Len(outcome) = Len(calls)

GensTypes == /\ loading \in BOOLEAN
             /\ gens \subseteq Generations
             /\ \A g \in gens : g.phase # "timer" => g.client \in 1 .. client

Types == OpenTypes /\ MountTypes /\ RpcTypes /\ GensTypes

\* The kinds of steps.
GenStep(g) == Continue(g) \/ Fire(g) \/ ReadImport(g) \/ ImportUnreadable(g)
WorkerStep == Boot \/ WorkerError \/ Answer
EventStep == \/ \E text \in reads : FileRead(text)
             \/ \E o \in opening : BinaryRead(o)
             \/ UserAction

LEMMA StepKinds ==
    ASSUME [Next]_vars
    PROVE  Render \/ (\E g \in gens : GenStep(g)) \/ WorkerStep \/ EventStep \/ UNCHANGED vars
BY DEF Next, Callback, Fault, GenStep, WorkerStep, EventStep

\* What each kind leaves alone.
LEMMA GenStepKeeps ==
    ASSUME NEW g, GenStep(g)
    PROVE  UNCHANGED <<env, client, ready>>
BY DEF GenStep, Continue, Fire, ReadImport, ImportUnreadable, AfterReady, SendLoad, SendParse,
       ShowResult, CallRejected, rpc

LEMMA WorkerStepKeeps ==
    ASSUME WorkerStep
    PROVE  UNCHANGED local /\ calls' = calls /\ NewTask
BY DEF WorkerStep, Boot, WorkerError, Answer, Client!Fail, Client!Reply

LEMMA EventStepKeeps ==
    ASSUME EventStep
    PROVE  /\ UNCHANGED <<shown, mounted, mirrored, gens, faults>> /\ NewTask
           /\ UNCHANGED <<client, ready, calls, outcome>> \/ ReloadWorker
BY DEF EventStep, FileRead, BinaryRead, UserAction, SelectKsy, SetCurrentKsyPath, SetKsySource,
       EditBuffer, SetBinary, OpenBinary, SetProject, ReloadWorker, PanelWrite, UserEvent, Event,
       rpc, effects

-----------------------------------------------------------------------------
(* Types.                                                                  *)

\* What the evaluator answers, which never exits here.
LEMMA AnswerWhileRunning ==
    ASSUME NEW k \in Nat \ {0}
    PROVE  Client!AnswerTo(k) = IF calls[k] = ParseCall THEN Client!FilesAt(k) ELSE Loaded
BY DEF Client!AnswerTo

LEMMA EmptyFiles == NoFiles \in FileSet /\ DOMAIN NoFiles = {}
<1>1. NoFiles \in [{} -> Text] /\ {} \in SUBSET KsyPath
  BY DEF NoFiles
<1> QED
  BY <1>1 DEF FileSet, NoFiles

LEMMA FileSets ==
    ASSUME NEW f \in FileSet
    PROVE  DOMAIN f \subseteq KsyPath /\ f \in [DOMAIN f -> Text]
BY DEF FileSet

LEMMA MoreFiles ==
    ASSUME NEW f \in FileSet, NEW p \in KsyPath, NEW text \in Text
    PROVE  [q \in DOMAIN f \cup {p} |-> IF q = p THEN text ELSE f[q]] \in FileSet
<1> DEFINE h == [q \in DOMAIN f \cup {p} |-> IF q = p THEN text ELSE f[q]]
<1>1. h \in [DOMAIN f \cup {p} -> Text] /\ DOMAIN f \cup {p} \in SUBSET KsyPath
  BY FileSets
<1> QED
  BY <1>1 DEF FileSet

LEMMA DepsType ==
    ASSUME Types
    PROVE  Deps \in Dependencies /\ Deps # Null /\ EditorDeps \in Vfs \X KsyPathOrNull /\ EditorDeps # Null
<1>1. Deps \in Dependencies
  BY DEF Types, OpenTypes, RpcTypes, Deps, Dependencies
<1>2. EditorDeps \in Vfs \X KsyPathOrNull
  BY DEF Types, OpenTypes, EditorDeps
<1> QED
  BY <1>1, <1>2, DistinctAssumption

LEMMA Rendered ==
    ASSUME Types, NewTask
    PROVE  /\ mounted \in Dependencies /\ mounted.vfs \in Vfs /\ mounted.ksy \in KsyPathOrNull
           /\ mirrored \in Vfs \X KsyPathOrNull /\ mirrored[1] \in Vfs /\ mirrored[2] \in KsyPathOrNull
<1>1. mounted \in Dependencies /\ mirrored \in Vfs \X KsyPathOrNull
  BY DEF Types, MountTypes, NewTask
<1> QED
  BY <1>1 DEF Dependencies

LEMMA OpenTypesKept ==
    ASSUME Types, [Next]_vars
    PROVE  OpenTypes'
<1> USE DEF OpenTypes
<1>0. OpenTypes
  BY DEF Types
<1>1. CASE Render
  <2>1. touched' \in BOOLEAN
    BY <1>0, <1>1 DEF Render, ParseEffect
  <2>2. /\ \/ reads' = reads /\ ksySource' = ksySource
           \/ reads' = {} /\ ksySource' = NoText
           \/ editorKsyPath # Null /\ reads' = {disk[vfs][editorKsyPath]} /\ ksySource' = ksySource
    BY <1>1 DEF Render, EditorEffect
  <2>3. reads' \subseteq File /\ ksySource' \in Text \cup {NoText}
    BY <1>0, <2>2 DEF KsyPathOrNull
  <2> QED
    BY <1>0, <1>1, <2>1, <2>3 DEF Render, project, bytes
<1>2. ASSUME NEW g \in gens, GenStep(g)
      PROVE  OpenTypes'
  <2>1. faults' \in Nat
    BY <1>0, <1>2 DEF GenStep, Continue, Fire, ReadImport, ImportUnreadable, AfterReady, SendLoad,
           SendParse, ShowResult, CallRejected
  <2> QED
    BY <1>0, <1>2, <2>1, GenStepKeeps DEF env, project, bytes, effects
<1>3. CASE WorkerStep
  <2>1. faults' \in Nat
    BY <1>0, <1>3 DEF WorkerStep, Boot, WorkerError, Answer
  <2> QED
    BY <1>0, <1>3, <2>1, WorkerStepKeeps DEF local, env, project, bytes, effects
<1>4. CASE EventStep
  <2>0. faults' = faults
    BY <1>4, EventStepKeeps
  <2>12. NewTask
    BY <1>4, EventStepKeeps
  <2>1. ASSUME NEW text \in reads, FileRead(text)
        PROVE  OpenTypes'
    <3>1. ksySource' \in Text \cup {NoText} /\ reads' \subseteq File
      BY <1>0, <2>1 DEF FileRead, File
    <3> QED
      BY <1>0, <2>1, <3>1 DEF FileRead, project, bytes
  <2>2. ASSUME NEW o \in opening, BinaryRead(o)
        PROVE  OpenTypes'
    <3>1. o.data \in Contents \cup {Missing}
      BY <1>0
    <3>2. buffer' \in Contents /\ version' \in Nat /\ opening' \subseteq opening
      BY <1>0, <2>2, <3>1 DEF BinaryRead, ReplaceBuffer, bytes
    <3> QED
      BY <1>0, <2>2, <3>2 DEF BinaryRead, effects
  <2>3. ASSUME NEW p \in KsyPath, SelectKsy(p)
        PROVE  OpenTypes'
    <3>1. currentKsyPath' \in KsyPathOrNull /\ editorKsyPath' \in KsyPathOrNull
      BY <1>0, <2>3 DEF SelectKsy, KsyPathOrNull
    <3> QED
      BY <1>0, <2>3, <3>1 DEF SelectKsy, UserEvent, Event, bytes, effects
  <2>4. ASSUME NEW p \in KsyPath, SetCurrentKsyPath(p)
        PROVE  OpenTypes'
    BY <1>0, <2>4 DEF SetCurrentKsyPath, UserEvent, Event, bytes, effects, KsyPathOrNull
  <2>5. ASSUME NEW text \in Text, SetKsySource(text)
        PROVE  OpenTypes'
    <3>1. mirrored[1] \in Vfs /\ mirrored[2] \in KsyPath
      BY <2>12, <2>5, Rendered DEF SetKsySource, KsyPathOrNull
    <3>2. disk' \in [Vfs -> [KsyPath -> File]]
      BY <1>0, <2>5, <3>1 DEF SetKsySource, File
    <3> QED
      BY <1>0, <2>5, <3>2 DEF SetKsySource, UserEvent, Event, project, bytes, effects
  <2>6. ASSUME NEW data \in Contents, EditBuffer(data)
        PROVE  OpenTypes'
    BY <1>0, <2>6 DEF EditBuffer, UserEvent, Event, project, effects
  <2>7. ASSUME NEW data \in Contents, SetBinary(data)
        PROVE  OpenTypes'
    BY <1>0, <2>7 DEF SetBinary, Event, ReplaceBuffer, effects
  <2>8. ASSUME NEW p \in BinPath, OpenBinary(p)
        PROVE  OpenTypes'
    <3>1. Binary[mounted.vfs][p] \in Contents \cup {Missing}
      BY <2>12, Rendered, ProjectsAssumption
    <3>2. opening' \subseteq [path : BinPath, data : Contents \cup {Missing}]
      BY <1>0, <2>8, <3>1 DEF OpenBinary
    <3> QED
      BY <1>0, <2>8, <3>2 DEF OpenBinary, UserEvent, Event, project, bytes, effects
  <2>9. ASSUME NEW p \in Projects, SetProject(p)
        PROVE  OpenTypes'
    <3>1. p.vfs \in Vfs /\ p.currentKsyPath \in KsyPathOrNull
      BY ProjectsAssumption
    <3> QED
      BY <1>0, <2>9, <3>1 DEF SetProject, Event, bytes, effects
  <2>10. CASE ReloadWorker
    BY <1>0, <2>10 DEF ReloadWorker, UserEvent, Event, project, bytes, effects
  <2>11. ASSUME NEW p \in KsyPath, NEW file \in PanelText \cup {Missing}, PanelWrite(p, file)
        PROVE  OpenTypes'
    <3>1. mounted.vfs \in Vfs /\ file \in File
      BY <2>12, Rendered, ProjectsAssumption DEF File
    <3>2. disk' \in [Vfs -> [KsyPath -> File]]
      BY <1>0, <2>11, <3>1 DEF PanelWrite
    <3> QED
      BY <1>0, <2>11, <3>2 DEF PanelWrite, UserEvent, Event, project, bytes, effects
  <2> QED
    BY <1>4, <2>1, <2>2, <2>3, <2>4, <2>5, <2>6, <2>7, <2>8, <2>9, <2>10, <2>11 DEF EventStep, UserAction
<1>5. CASE UNCHANGED vars
  BY <1>0, <1>5 DEF vars, project, bytes, effects
<1> QED
  BY <1>1, <1>2, <1>3, <1>4, <1>5, StepKinds

\* A generation goes on as another, or leaves.
Goes(g, h) == gens' = (gens \ {g}) \cup {h} /\ UNCHANGED shown
Leaves(g) == gens' = gens \ {g} /\ IF g.cancelled THEN UNCHANGED shown ELSE loading' = FALSE

LEMMA RpcTypesKept ==
    ASSUME Types, [Next]_vars
    PROVE  RpcTypes'
<1> DEFINE Answered == FileSet \cup {Loaded, Unanswered, Failed}
<1>0. /\ client \in Nat \ {0} /\ ready \in Seq({"pending", "resolved", "rejected"}) /\ Len(ready) = client
      /\ calls \in Seq(FileSet \cup {ParseCall}) /\ outcome \in Seq(Answered)
      /\ Len(outcome) = Len(calls)
  BY DEF Types, RpcTypes
<1>1. CASE UNCHANGED <<client, ready, calls, outcome>>
  BY <1>0, <1>1 DEF RpcTypes
<1>2. ASSUME NEW g \in gens, GenStep(g), ~UNCHANGED <<client, ready, calls, outcome>>
      PROVE  RpcTypes'
  <2>1. \E r \in FileSet \cup {ParseCall} : calls' = Append(calls, r) /\ outcome' = Append(outcome, Unanswered)
    <3>1. g.found \in FileSet
      BY DEF Types, GensTypes, Generations
    <3> QED
      BY <1>2, <3>1 DEF GenStep, Continue, Fire, ReadImport, ImportUnreadable, AfterReady, SendLoad,
             SendParse, ShowResult, CallRejected, rpc, Client!Issue
  <2>2. client' = client /\ ready' = ready
    BY <1>2, GenStepKeeps
  <2> QED
    BY <1>0, <2>1, <2>2 DEF RpcTypes
<1>3. CASE WorkerStep
  <2>1. client' = client /\ calls' = calls
    BY <1>3, WorkerStepKeeps DEF local
  <2>2. ready' \in Seq({"pending", "resolved", "rejected"}) /\ Len(ready') = client
    <3>1. CASE Boot
      BY <1>0, <3>1 DEF Boot
    <3>2. CASE WorkerError
      BY <1>0, <3>2 DEF WorkerError
    <3>3. CASE Answer
      BY <1>0, <3>3 DEF Answer
    <3> QED
      BY <1>3, <3>1, <3>2, <3>3 DEF WorkerStep
  <2>3. outcome' \in Seq(Answered) /\ Len(outcome') = Len(calls)
    <3>1. CASE Boot
      BY <1>0, <3>1 DEF Boot
    <3>2. CASE WorkerError
      <4>1. outcome' \in [1 .. Len(calls) -> Answered] /\ Len(calls) \in Nat
        BY <1>0, <3>2 DEF WorkerError, Client!Fail
      <4> QED
        BY <4>1
    <3>3. CASE Answer
      <4>1. PICK k \in DOMAIN calls : Client!Reply(k)
        BY <3>3 DEF Answer
      <4>2. Client!FilesAt(k) \in FileSet
        <5>1. CASE \E j \in 1 .. k - 1 : Client!LastLoad(j, k)
          <6> DEFINE j == CHOOSE j \in 1 .. k - 1 : Client!LastLoad(j, k)
          <6>1. j \in 1 .. k - 1 /\ Client!LastLoad(j, k)
            BY <5>1
          <6> HIDE DEF j
          <6>2. calls[j] \in FileSet
            BY <1>0, <6>1 DEF Client!LastLoad
          <6> QED
            BY <5>1, <6>2 DEF Client!FilesAt, j
        <5>2. CASE ~ \E j \in 1 .. k - 1 : Client!LastLoad(j, k)
          BY <5>2, EmptyFiles DEF Client!FilesAt
        <5> QED
          BY <5>1, <5>2
      <4>3. Client!AnswerTo(k) \in Answered
        BY <1>0, <4>2, AnswerWhileRunning
      <4> QED
        BY <1>0, <4>1, <4>3 DEF Client!Reply
    <3> QED
      BY <1>3, <3>1, <3>2, <3>3 DEF WorkerStep
  <2> QED
    BY <1>0, <2>1, <2>2, <2>3 DEF RpcTypes
<1>4. CASE ReloadWorker
  BY <1>0, <1>4 DEF ReloadWorker, RpcTypes
<1>5. Render \/ UNCHANGED vars => UNCHANGED <<client, ready, calls, outcome>>
  BY DEF Render, vars, rpc
<1> QED
  BY <1>1, <1>2, <1>3, <1>4, <1>5, StepKinds, EventStepKeeps

LEMMA MountTypesKept ==
    ASSUME Types, [Next]_vars
    PROVE  MountTypes'
<1> USE DEF MountTypes
<1>0. MountTypes
  BY DEF Types
<1>1. CASE Render
  <2>1. mounted' \in Dependencies /\ mounted' # Null
    BY <1>0, <1>1, DepsType, DistinctAssumption DEF Render, ParseEffect
  <2>2. mirrored' \in Vfs \X KsyPathOrNull /\ mirrored' # Null
    BY <1>0, <1>1, DepsType, DistinctAssumption DEF Render, EditorEffect
  <2> QED
    BY <2>1, <2>2
<1>2. ASSUME NEW g \in gens, GenStep(g)
      PROVE  MountTypes'
  BY <1>0, <1>2, GenStepKeeps DEF env, effects
<1>3. CASE WorkerStep
  BY <1>0, <1>3, WorkerStepKeeps DEF local, env, effects
<1>4. CASE EventStep
  BY <1>0, <1>4, EventStepKeeps DEF NewTask
<1>5. CASE UNCHANGED vars
  BY <1>0, <1>5 DEF vars, effects
<1> QED
  BY <1>1, <1>2, <1>3, <1>4, <1>5, StepKinds

\* What a step makes of a generation, by its phase; it stays cancelled or not.
LEMMA GenStepGens ==
    ASSUME Types, NEW g \in gens, GenStep(g)
    PROVE  \/ Leaves(g)
           \/ \E h \in Generations :
                 /\ Goes(g, h) /\ h.phase # "timer" /\ h.client \in 1 .. client
                 /\ h.cancelled = g.cancelled /\ h.vfs = g.vfs /\ h.root = g.root
<1>0. /\ g \in Generations /\ (g.phase # "timer" => g.client \in 1 .. client)
      /\ client \in 1 .. client /\ client \in Nat
  BY DEF Types, GensTypes, RpcTypes
<1> DEFINE Next1(h) == /\ h \in Generations /\ h.phase # "timer" /\ h.client \in 1 .. client
                       /\ h.cancelled = g.cancelled /\ h.vfs = g.vfs /\ h.root = g.root
<1>1. ASSUME NEW why, Fail(g, why)
      PROVE  Leaves(g)
  BY <1>0, <1>1 DEF Fail, Leaves, shown, Generations
<1>2. ASSUME End(g), g.cancelled
      PROVE  Leaves(g)
  BY <1>2 DEF End, Leaves, shown
<1>3. CASE Fire(g)
  <2> DEFINE h == [g EXCEPT !.phase = "ready", !.client = client]
  <2>1. Next1(h)
    BY <1>0 DEF Generations, Phase
  <2> QED
    BY <1>3, <2>1 DEF Fire, Become, Goes
<1>4. CASE AfterReady(g)
  <2> DEFINE h == [g EXCEPT !.phase = "walk", !.todo = <<g.root>>]
  <2>1. g.phase = "ready" => Next1(h)
    <3>1. g.root \in KsyPath /\ <<g.root>> \in Seq(KsyPath)
      BY <1>0 DEF Generations
    <3> QED
      BY <1>0, <3>1 DEF Generations, Phase
  <2> HIDE DEF Next1
  <2>2. Leaves(g) \/ (Goes(g, h) /\ g.phase = "ready")
    BY <1>1, <1>2, <1>4 DEF AfterReady, Become, Goes
  <2> QED
    BY <2>1, <2>2 DEF Next1
<1>5. CASE ReadImport(g)
  <2> DEFINE p == Head(g.todo)  text == disk[g.vfs][p]
             found == [q \in DOMAIN g.found \cup {p} |-> IF q = p THEN text ELSE g.found[q]]
  <2>1. /\ g.phase = "walk" /\ p \in KsyPath /\ Tail(g.todo) \in Seq(KsyPath) /\ text \in File
        /\ g.todo \in Seq(KsyPath) /\ g.found \in FileSet
    BY <1>0, <1>5 DEF ReadImport, Generations, Types, OpenTypes
  <2>2. CASE text = Missing \/ p \in DOMAIN g.found
    <3> DEFINE h == [g EXCEPT !.todo = Tail(@)]
    <3>1. Next1(h)
      BY <1>0, <2>1 DEF Generations
    <3>2. Goes(g, h)
      BY <1>5, <2>2 DEF ReadImport, Become, Goes
    <3> QED
      BY <3>1, <3>2
  <2>3. CASE ~(text = Missing \/ p \in DOMAIN g.found)
    <3> DEFINE h == [g EXCEPT !.todo = Imports[text] \o Tail(@), !.found = found]
    <3>1. text \in Text /\ Imports[text] \o Tail(g.todo) \in Seq(KsyPath)
      BY <2>1, <2>3, ProjectsAssumption DEF File
    <3>2. found \in FileSet
      BY <2>1, <3>1, MoreFiles
    <3>3. Goes(g, h)
      BY <1>5, <2>3 DEF ReadImport, Become, Goes
    <3> HIDE DEF text, p, found
    <3>4. Next1(h)
      BY <1>0, <2>1, <3>1, <3>2 DEF Generations
    <3> QED
      BY <3>3, <3>4
  <2> QED
    BY <2>2, <2>3
<1>6. CASE SendLoad(g)
  <2> DEFINE h == [g EXCEPT !.phase = "load", !.call = Len(calls) + 1]
  <2>1. g.phase = "walk" /\ Len(calls) + 1 \in Nat
    BY <1>6 DEF SendLoad, Types, RpcTypes
  <2>2. Next1(h)
    BY <1>0, <2>1 DEF Generations, Phase
  <2> HIDE DEF Next1
  <2>3. Leaves(g) \/ Goes(g, h)
    BY <1>1, <1>2, <1>6 DEF SendLoad, Become, Goes
  <2> QED
    BY <2>2, <2>3 DEF Next1
<1>7. CASE SendParse(g)
  <2> DEFINE h == [g EXCEPT !.phase = "parse", !.call = Len(calls) + 1, !.bytes = buffer]
  <2>1. g.phase = "load" /\ Len(calls) + 1 \in Nat /\ buffer \in Contents
    BY <1>7 DEF SendParse, Types, RpcTypes, OpenTypes
  <2>2. Next1(h)
    BY <1>0, <2>1 DEF Generations, Phase
  <2> HIDE DEF Next1
  <2>3. Leaves(g) \/ Goes(g, h)
    BY <1>2, <1>7 DEF SendParse, Become, Goes
  <2> QED
    BY <2>2, <2>3 DEF Next1
<1>8. CASE ShowResult(g)
  BY <1>1, <1>2, <1>8 DEF ShowResult, Leaves
<1>9. CASE CallRejected(g) \/ ImportUnreadable(g)
  BY <1>1, <1>9 DEF CallRejected, ImportUnreadable
<1> QED
  BY <1>3, <1>4, <1>5, <1>6, <1>7, <1>8, <1>9 DEF GenStep, Continue

\* What rendering makes of the generations.
LEMMA RenderGens ==
    ASSUME Types, Render
    PROVE  \/ mounted' = mounted /\ mounted = Deps /\ UNCHANGED <<gens, shown, touched>>
           \/ /\ mounted # Deps /\ mounted' = Deps /\ touched' = FALSE
              /\ \A g \in gens' : ~g.cancelled => g = Generation /\ currentKsyPath # Null
              /\ gens' \subseteq Generations /\ \A g \in gens' : g.phase # "timer" => g.client \in 1 .. client
              /\ \/ /\ currentKsyPath = Null
                    /\ tree' = Null /\ error' = Null /\ loading' = FALSE
                 \/ /\ currentKsyPath # Null
                    /\ Generation \in gens' /\ loading' = TRUE
<1>0. gens \subseteq Generations /\ \A g \in gens : g.phase # "timer" => g.client \in 1 .. client
  BY DEF Types, GensTypes
<1>1. ASSUME NEW x \in Cancelled
      PROVE  x.cancelled /\ x \in Generations /\ (x.phase # "timer" => x.client \in 1 .. client)
  <2>1. PICK g \in gens : x = [g EXCEPT !.cancelled = TRUE]
    BY DEF Cancelled
  <2> QED
    BY <1>0, <2>1 DEF Generations
<1>2. currentKsyPath # Null => Generation \in Generations /\ Generation.phase = "timer" /\ ~Generation.cancelled
  BY EmptyFiles DEF Generation, Generations, Phase, Types, OpenTypes, KsyPathOrNull
<1> HIDE DEF Generation
<1>3. CASE mounted = Deps
  BY <1>3 DEF Render, ParseEffect
<1>4. CASE mounted # Deps
  <2>1. CASE currentKsyPath = Null
    BY <1>1, <1>4, <2>1 DEF Render, ParseEffect
  <2>2. CASE currentKsyPath # Null
    BY <1>1, <1>2, <1>4, <2>2 DEF Render, ParseEffect
  <2> QED
    BY <2>1, <2>2
<1> QED
  BY <1>3, <1>4

LEMMA GensTypesKept ==
    ASSUME Types, [Next]_vars
    PROVE  GensTypes'
<1>0. GensTypes /\ client \in Nat
  BY DEF Types, RpcTypes
<1>1. CASE Render
  <2>1. client' = client
    BY <1>1 DEF Render, rpc
  <2> QED
    BY <1>0, <1>1, <2>1, RenderGens DEF GensTypes, shown
<1>2. ASSUME NEW g \in gens, GenStep(g)
      PROVE  GensTypes'
  <2>1. client' = client
    BY <1>2, GenStepKeeps
  <2> QED
    BY <1>0, <1>2, <2>1, GenStepGens DEF GensTypes, Goes, Leaves, shown
<1>3. CASE WorkerStep
  BY <1>0, <1>3, WorkerStepKeeps DEF GensTypes, local, shown
<1>4. CASE EventStep
  <2>1. client' = client \/ client' = client + 1
    BY <1>4, EventStepKeeps DEF ReloadWorker
  <2>2. gens' = gens /\ loading' = loading
    BY <1>4, EventStepKeeps DEF shown
  <2>3. 1 .. client \subseteq 1 .. client'
    BY <1>0, <2>1
  <2> QED
    BY <1>0, <2>2, <2>3 DEF GensTypes
<1>5. CASE UNCHANGED vars
  BY <1>0, <1>5 DEF GensTypes, vars, shown, rpc
<1> QED
  BY <1>1, <1>2, <1>3, <1>4, <1>5, StepKinds

LEMMA TypesKept == Types /\ [Next]_vars => Types'
BY OpenTypesKept, MountTypesKept, RpcTypesKept, GensTypesKept DEF Types

LEMMA TypesBegin == Init => Types
<1> SUFFICES ASSUME Init
             PROVE  Types
  OBVIOUS
<1>1. OpenTypes
  BY ProjectsAssumption DEF Init, OpenTypes
<1>2. MountTypes
  BY DEF Init, MountTypes
<1>3. RpcTypes
  BY DEF Init, RpcTypes, Client!Init
<1>4. GensTypes
  BY DEF Init, GensTypes
<1> QED
  BY <1>1, <1>2, <1>3, <1>4 DEF Types

-----------------------------------------------------------------------------
(* The invariant.                                                          *)

\* Answers are those RpcService prescribes; nothing fails without a fault.
Answers ==
    /\ \A k \in DOMAIN calls : outcome[k] \in {Unanswered, Failed, Client!AnswerTo(k)}
    /\ faults = 0 => /\ \A k \in DOMAIN calls : outcome[k] # Failed
                     /\ \A c \in DOMAIN ready : ready[c] # "rejected"

\* At most one generation is not cancelled, and there is one while loading.
OneCurrent ==
    /\ \A g, h \in gens : ~g.cancelled /\ ~h.cancelled => g = h
    /\ mounted # Null => (loading <=> \E g \in gens : ~g.cancelled)

Since == mounted # Null => mounted.version <= version /\ mounted.client <= client

\* It is of what was last rendered, has parsed those bytes or outdated ones,
\* and no other one has called the evaluator after it.
Own(g) ==
    /\ g.vfs = mounted.vfs /\ g.root = mounted.ksy
    /\ g.phase # "timer" => mounted.client <= g.client
    /\ g.phase = "parse" /\ mounted.version = version => g.bytes = buffer
    /\ g.phase = "load" /\ g.client = client =>
          g.call = Len(calls) /\ Len(calls) > 0 /\ calls[g.call] = g.found
    /\ g.phase = "parse" /\ g.client = client =>
          g.call \in 1 .. Len(calls) /\ calls[g.call] = ParseCall /\ Client!FilesAt(g.call) = g.found
CurrentIsOwn == \A g \in gens : ~g.cancelled => Own(g)

\* The disk has changed since the last render of the parse effect's dependencies.
Stale == touched \/ (due /\ mounted.source # ksySource)

\* The walk has gone over existing files that the root leads to, and to what
\* they import; all of it is on the list, done or not there.
Members(s) == {s[i] : i \in DOMAIN s}
Known(files, g) == DOMAIN g.found \cup Members(g.todo) \cup {p \in KsyPath : files[p] = Missing}
Walking(files, g) ==
    /\ \A p \in DOMAIN g.found : g.found[p] = files[p]
    /\ DOMAIN g.found \cup Members(g.todo) \subseteq Reached(files, g.root)
    /\ g.phase \in {"timer", "ready"} => g.found = NoFiles /\ g.todo = <<>>
    /\ g.phase \in {"walk", "load", "parse"} =>
          /\ g.root \in Known(files, g)
          /\ \A p \in DOMAIN g.found : \A i \in DOMAIN Imports[g.found[p]] :
                Imports[g.found[p]][i] \in Known(files, g)
    /\ g.phase \in {"load", "parse"} => g.todo = <<>>
WalksPresent == ~Stale => \A g \in gens : ~g.cancelled => Walking(disk[g.vfs], g)

\* What is shown once the last generation has come to its end.
Shown ==
    LET files == Collected(disk[mounted.vfs], mounted.ksy) IN
    \/ mounted.ksy = Null /\ tree = Null /\ error = Null
    \/ faults > 0 /\ tree = Null /\ error \in {"worker", "read"}
    \/ mounted.client < client
    \/ mounted.ksy # Null /\ ~Parses(mounted.ksy, files) /\ tree = Null /\ error = "schema"
    \/ /\ mounted.ksy # Null /\ Parses(mounted.ksy, files) /\ error = Null
       /\ \E data : tree = Result(mounted.ksy, files, data) /\ (mounted.version = version => data = buffer)
Settled == mounted # Null /\ ~Stale /\ (\A g \in gens : g.cancelled) => Shown

-----------------------------------------------------------------------------
(* Answers of the evaluator.                                               *)

LEMMA Calls ==
    ASSUME Types
    PROVE  /\ Len(calls) \in Nat /\ DOMAIN calls = 1 .. Len(calls) /\ DOMAIN outcome = 1 .. Len(calls)
           /\ DOMAIN ready = 1 .. client /\ client \in Nat /\ client > 0
BY DEF Types, RpcTypes

\* There is one last load at most.
LEMMA LastLoaded ==
    ASSUME Types, NEW k \in 1 .. Len(calls) + 1, NEW j \in 1 .. k - 1, Client!LastLoad(j, k)
    PROVE  Client!FilesAt(k) = calls[j]
<1>1. k \in Nat /\ j \in Nat
  BY Calls
<1>2. ASSUME NEW i \in 1 .. k - 1, Client!LastLoad(i, k)
      PROVE  i = j
  BY <1>1, <1>2 DEF Client!LastLoad
<1>3. (CHOOSE i \in 1 .. k - 1 : Client!LastLoad(i, k)) = j
  BY <1>2
<1> QED
  BY <1>3 DEF Client!FilesAt

\* A call changes no answer to those before it.
LEMMA CallsStand ==
    ASSUME Types, NEW r, calls' = Append(calls, r)
    PROVE  \A k \in 1 .. Len(calls) + 1 : Client!FilesAt(k)' = Client!FilesAt(k)
<1>1. /\ Len(calls) \in Nat /\ DOMAIN calls = 1 .. Len(calls)
      /\ \A i \in 1 .. Len(calls) : calls'[i] = calls[i]
  BY DEF Types, RpcTypes
<1> SUFFICES ASSUME NEW k \in 1 .. Len(calls) + 1
             PROVE  Client!FilesAt(k)' = Client!FilesAt(k)
  OBVIOUS
<1>2. \A j : j \in 1 .. k - 1 /\ Client!LastLoad(j, k)' <=> j \in 1 .. k - 1 /\ Client!LastLoad(j, k)
  BY <1>1 DEF Client!LastLoad
<1>3. (CHOOSE j : j \in 1 .. k - 1 /\ Client!LastLoad(j, k)')
      = (CHOOSE j : j \in 1 .. k - 1 /\ Client!LastLoad(j, k))
  BY <1>2
<1>4. (\E j \in 1 .. k - 1 : Client!LastLoad(j, k)) =>
         (CHOOSE j : j \in 1 .. k - 1 /\ Client!LastLoad(j, k)) \in 1 .. Len(calls)
  BY <1>1
<1> QED
  BY <1>1, <1>2, <1>3, <1>4 DEF Client!FilesAt

LEMMA AnswersKept ==
    ASSUME Types, Answers, [Next]_vars
    PROVE  Answers'
<1>0. /\ Len(calls) \in Nat /\ DOMAIN calls = 1 .. Len(calls) /\ faults \in Nat
      /\ outcome \in Seq(FileSet \cup {Loaded, Unanswered, Failed}) /\ Len(outcome) = Len(calls)
      /\ calls \in Seq(FileSet \cup {ParseCall})
      /\ ready \in Seq({"pending", "resolved", "rejected"}) /\ Len(ready) = client /\ client \in Nat \ {0}
  BY Calls DEF Types, RpcTypes, OpenTypes
<1>1. ASSUME UNCHANGED <<ready, calls, outcome>>, faults' = faults \/ faults' = faults + 1
      PROVE  Answers'
  <2>1. \A k : Client!AnswerTo(k)' = Client!AnswerTo(k)
    BY <1>1 DEF Client!AnswerTo, Client!FilesAt, Client!LastLoad
  <2>2. faults' = 0 => faults = 0
    BY <1>0, <1>1
  <2> QED
    BY <1>1, <2>1, <2>2 DEF Answers
<1>2. CASE Render
  BY <1>1, <1>2 DEF Render, rpc
<1>3. ASSUME NEW g \in gens, GenStep(g)
      PROVE  Answers'
  <2>1. CASE UNCHANGED <<calls, outcome>>
    <3>1. faults' = faults \/ faults' = faults + 1
      BY <1>3 DEF GenStep, Continue, Fire, ReadImport, ImportUnreadable, AfterReady, SendLoad, SendParse,
             ShowResult, CallRejected
    <3> QED
      BY <1>1, <1>3, <2>1, <3>1, GenStepKeeps
  <2>2. ASSUME NEW r, Client!Issue(r), faults' = faults
        PROVE  Answers'
    <3>1. /\ calls' = Append(calls, r) /\ outcome' = Append(outcome, Unanswered) /\ ready' = ready
      BY <1>3, <2>2, GenStepKeeps DEF Client!Issue
    <3>2. /\ DOMAIN calls' = 1 .. Len(calls) + 1 /\ outcome'[Len(calls) + 1] = Unanswered
          /\ \A k \in 1 .. Len(calls) : calls'[k] = calls[k] /\ outcome'[k] = outcome[k]
      BY <1>0, <3>1
    <3>3. \A k \in 1 .. Len(calls) : Client!AnswerTo(k)' = Client!AnswerTo(k)
      <4>1. \A k \in 1 .. Len(calls) + 1 : Client!FilesAt(k)' = Client!FilesAt(k)
        BY <3>1, CallsStand
      <4> QED
        BY <1>0, <3>2, <4>1 DEF Client!AnswerTo
    <3>4. ASSUME NEW k \in 1 .. Len(calls) + 1
          PROVE  /\ outcome'[k] \in {Unanswered, Failed, Client!AnswerTo(k)'}
                 /\ faults = 0 => outcome'[k] # Failed
      <4>1. CASE k = Len(calls) + 1
        BY <3>2, <4>1, DistinctAssumption
      <4>2. CASE k \in 1 .. Len(calls)
        BY <1>0, <3>2, <3>3, <4>2 DEF Answers
      <4> QED
        BY <1>0, <4>1, <4>2
    <3> QED
      BY <2>2, <3>1, <3>2, <3>4 DEF Answers
  <2>3. UNCHANGED <<calls, outcome>> \/ \E r : Client!Issue(r) /\ faults' = faults
    BY <1>3 DEF GenStep, Continue, Fire, ReadImport, ImportUnreadable, AfterReady, SendLoad, SendParse,
           ShowResult, CallRejected, rpc
  <2> QED
    BY <2>1, <2>2, <2>3
<1>4. CASE WorkerStep
  <2>1. calls' = calls /\ client' = client
    BY <1>4, WorkerStepKeeps DEF local
  <2>2. \A k : Client!AnswerTo(k)' = Client!AnswerTo(k)
    BY <2>1 DEF Client!AnswerTo, Client!FilesAt, Client!LastLoad
  <2>3. CASE Boot
    <3>1. \A c \in 1 .. client : ready'[c] = ready[c] \/ ready'[c] = "resolved"
      BY <1>0, <2>3 DEF Boot
    <3>2. DOMAIN ready' = 1 .. client /\ outcome' = outcome /\ faults' = faults
      BY <1>0, <2>3 DEF Boot
    <3> QED
      BY <1>0, <2>1, <2>2, <3>1, <3>2 DEF Answers
  <2>4. CASE WorkerError
    <3>1. faults' # 0
      BY <1>0, <2>4 DEF WorkerError
    <3>2. \A k \in DOMAIN calls : outcome'[k] \in {outcome[k], Failed}
      BY <2>4 DEF WorkerError, Client!Fail
    <3> QED
      BY <2>1, <2>2, <3>1, <3>2 DEF Answers
  <2>5. CASE Answer
    <3>1. PICK k \in DOMAIN calls : Client!Reply(k)
      BY <2>5 DEF Answer
    <3>2. ready' = ready /\ faults' = faults
      BY <2>5 DEF Answer
    <3>3. Client!AnswerTo(k) # Failed
      <4>1. Client!FilesAt(k) \in FileSet
        <5>1. CASE \E j \in 1 .. k - 1 : Client!LastLoad(j, k)
          <6>1. PICK j \in 1 .. k - 1 : Client!LastLoad(j, k)
            BY <5>1
          <6>2. k \in 1 .. Len(calls) + 1 /\ j \in 1 .. Len(calls)
            BY <1>0
          <6>3. Client!FilesAt(k) = calls[j] /\ calls[j] # ParseCall
            BY <6>1, <6>2, LastLoaded DEF Client!LastLoad
          <6> QED
            BY <1>0, <6>2, <6>3
        <5>2. CASE ~ \E j \in 1 .. k - 1 : Client!LastLoad(j, k)
          BY <5>2, EmptyFiles DEF Client!FilesAt
        <5> QED
          BY <5>1, <5>2
      <4> QED
        <5> k \in Nat \ {0}
          BY <1>0
        <5> QED
          BY <4>1, DistinctAssumption, AnswerWhileRunning
    <3>4. \A i \in DOMAIN calls : outcome'[i] = IF i = k THEN Client!AnswerTo(k) ELSE outcome[i]
      BY <1>0, <3>1 DEF Client!Reply
    <3> QED
      BY <2>1, <2>2, <3>2, <3>3, <3>4 DEF Answers
  <2> QED
    BY <1>4, <2>3, <2>4, <2>5 DEF WorkerStep
<1>5. CASE ReloadWorker
  <2>1. /\ calls' = <<>> /\ faults' = faults /\ ready' = Append(ready, "pending")
    BY <1>5 DEF ReloadWorker
  <2>2. DOMAIN calls' = {}
    BY <2>1
  <2>3. \A c \in DOMAIN ready' : ready'[c] = "pending" \/ (c \in DOMAIN ready /\ ready'[c] = ready[c])
    BY <1>0, <2>1
  <2> QED
    BY <2>1, <2>2, <2>3 DEF Answers
<1>6. CASE EventStep /\ ~ReloadWorker
  BY <1>1, <1>6, EventStepKeeps
<1>7. CASE UNCHANGED vars
  BY <1>1, <1>7 DEF vars, rpc
<1> QED
  BY <1>2, <1>3, <1>4, <1>5, <1>6, <1>7, StepKinds

-----------------------------------------------------------------------------
(* One generation at most is not cancelled.                                *)

\* A cancelled generation changes nothing but what it is itself.
LEMMA CancelledStep ==
    ASSUME Types, NEW g \in gens, g.cancelled, GenStep(g)
    PROVE  /\ UNCHANGED <<env, shown, rpc>>
           /\ \A x : ~x.cancelled => (x \in gens' <=> x \in gens)
           /\ faults' = faults \/ faults' = faults + 1
<1>1. faults' = faults \/ faults' = faults + 1
  BY DEF GenStep, Continue, Fire, ReadImport, ImportUnreadable, AfterReady, SendLoad, SendParse,
         ShowResult, CallRejected
<1>2. UNCHANGED <<env, client, ready>>
  BY GenStepKeeps
<1>3. UNCHANGED <<calls, outcome>>
  BY DEF GenStep, Continue, Fire, ReadImport, ImportUnreadable, AfterReady, SendLoad, SendParse,
         ShowResult, CallRejected, rpc
<1>4. CASE Leaves(g)
  BY <1>1, <1>2, <1>3, <1>4 DEF Leaves, rpc
<1>5. CASE ~Leaves(g)
  <2>1. PICK h : Goes(g, h) /\ h.cancelled = g.cancelled
    BY <1>5, GenStepGens
  <2> QED
    BY <1>1, <1>2, <1>3, <2>1 DEF Goes, rpc
<1> QED
  BY <1>4, <1>5

LEMMA OneCurrentKept ==
    ASSUME Types, OneCurrent, [Next]_vars
    PROVE  OneCurrent'
<1>0. /\ \A g \in gens : g.cancelled \in BOOLEAN
      /\ loading \in BOOLEAN
      /\ mounted = Null => gens = {}
  BY DEF Types, GensTypes, MountTypes, Generations
<1>1. CASE Render
  <2>1. CASE UNCHANGED <<mounted, gens, shown>>
    BY <2>1 DEF OneCurrent, shown
  <2>2. CASE ~UNCHANGED <<mounted, gens, shown>>
    <3>1. /\ \A g \in gens' : ~g.cancelled => g = Generation /\ currentKsyPath # Null
          /\ \/ currentKsyPath = Null /\ loading' = FALSE
             \/ currentKsyPath # Null /\ Generation \in gens' /\ loading' = TRUE
      BY <1>1, <2>2, RenderGens
    <3>2. ~Generation.cancelled
      BY DEF Generation
    <3> QED
      BY <3>1, <3>2 DEF OneCurrent
  <2> QED
    BY <2>1, <2>2
<1>2. ASSUME NEW g \in gens, GenStep(g)
      PROVE  OneCurrent'
  <2>1. mounted' = mounted /\ mounted # Null
    BY <1>0, <1>2, GenStepKeeps DEF env, effects
  <2>2. CASE g.cancelled
    <3>1. loading' = loading /\ \A x : ~x.cancelled => (x \in gens' <=> x \in gens)
      BY <1>2, <2>2, CancelledStep DEF shown
    <3> QED
      BY <2>1, <3>1 DEF OneCurrent
  <2>3. CASE ~g.cancelled
    <3>1. \A x \in gens \ {g} : x.cancelled
      BY <2>3 DEF OneCurrent
    <3>2. CASE Leaves(g)
      BY <2>3, <3>1, <3>2 DEF Leaves, OneCurrent
    <3>3. CASE ~Leaves(g)
      <4>1. PICK h : Goes(g, h) /\ h.cancelled = g.cancelled
        BY <1>2, <3>3, GenStepGens
      <4>2. loading
        BY <2>1, <2>3 DEF OneCurrent
      <4> QED
        BY <2>1, <2>3, <3>1, <4>1, <4>2 DEF Goes, OneCurrent, shown
    <3> QED
      BY <3>2, <3>3
  <2> QED
    BY <2>2, <2>3
<1>3. CASE WorkerStep
  BY <1>3, WorkerStepKeeps DEF OneCurrent, local, env, effects, shown
<1>4. CASE EventStep
  BY <1>4, EventStepKeeps DEF OneCurrent, shown
<1>5. CASE UNCHANGED vars
  BY <1>5 DEF OneCurrent, vars, effects, shown
<1> QED
  BY <1>1, <1>2, <1>3, <1>4, <1>5, StepKinds

-----------------------------------------------------------------------------
(* The current generation is of what was last rendered.                    *)

\* The buffer's versions and the clients only go up.
LEMMA EventStepCounts ==
    ASSUME EventStep
    PROVE  /\ \/ UNCHANGED <<version, buffer>>
              \/ version' = version + 1
           /\ UNCHANGED <<client, calls>> \/ client' = client + 1
BY DEF EventStep, FileRead, BinaryRead, UserAction, SelectKsy, SetCurrentKsyPath, SetKsySource,
       EditBuffer, SetBinary, OpenBinary, SetProject, ReloadWorker, PanelWrite, ReplaceBuffer,
       rpc, bytes

LEMMA SinceKept ==
    ASSUME Types, Since, [Next]_vars
    PROVE  Since'
<1>0. version \in Nat /\ client \in Nat /\ (mounted # Null => mounted \in Dependencies)
  BY DEF Types, OpenTypes, RpcTypes, MountTypes
<1>1. CASE Render
  <2>1. UNCHANGED <<version, client>>
    BY <1>1 DEF Render, bytes, rpc
  <2>2. mounted' = mounted \/ mounted' = Deps
    BY <1>1, RenderGens
  <2>3. Deps.version = version /\ Deps.client = client
    BY DEF Deps
  <2> QED
    BY <1>0, <2>1, <2>2, <2>3 DEF Since
<1>2. CASE UNCHANGED <<mounted, version, client>>
  BY <1>2 DEF Since
<1>3. CASE EventStep
  <2>1. version' >= version /\ client' >= client /\ mounted' = mounted
    BY <1>0, <1>3, EventStepCounts, EventStepKeeps
  <2> QED
    BY <1>0, <1>3, <2>1, EventStepCounts DEF Since, Dependencies
<1>4. (\E g \in gens : GenStep(g)) \/ WorkerStep \/ UNCHANGED vars => UNCHANGED <<mounted, version, client>>
  BY GenStepKeeps, WorkerStepKeeps DEF local, env, effects, bytes, vars, rpc
<1> QED
  BY <1>1, <1>2, <1>3, <1>4, StepKinds

LEMMA OwnStays ==
    ASSUME NEW g, Own(g), UNCHANGED <<mounted, version, buffer, client, calls>>
    PROVE  Own(g)'
BY DEF Own, Client!FilesAt, Client!LastLoad

\* What the current generation goes on as is its own, too.
LEMMA OwnGoesOn ==
    ASSUME Types, NEW g \in gens, ~g.cancelled, GenStep(g), Own(g), Since
    PROVE  Leaves(g) \/ \E h : Goes(g, h) /\ Own(h)'
<1>0. /\ g \in Generations /\ (g.phase # "timer" => g.client \in 1 .. client)
      /\ mounted # Null /\ mounted.client <= client
      /\ Len(calls) \in Nat /\ calls \in Seq(FileSet \cup {ParseCall})
  BY Calls DEF Types, GensTypes, MountTypes, RpcTypes, Since
<1>1. UNCHANGED <<mounted, version, buffer, client>>
  BY GenStepKeeps DEF env, effects, bytes
<1>2. CASE Fire(g)
  <2>0. PICK h : h = [g EXCEPT !.phase = "ready", !.client = client]
    OBVIOUS
  <2>1. h.vfs = g.vfs /\ h.root = g.root /\ h.phase = "ready" /\ h.client = client
    BY <1>0, <2>0 DEF Generations
  <2>2. Goes(g, h)
    BY <1>2, <2>0 DEF Fire, Become, Goes
  <2>3. Own(h)'
    BY <1>0, <1>1, <2>1 DEF Own
  <2> QED
    BY <2>2, <2>3
<1>3. CASE AfterReady(g)
  <2> DEFINE h == [g EXCEPT !.phase = "walk", !.todo = <<g.root>>]
  <2>1. h.vfs = g.vfs /\ h.root = g.root /\ h.phase = "walk" /\ h.client = g.client
    BY <1>0 DEF Generations
  <2>2. Leaves(g) \/ (Goes(g, h) /\ g.phase = "ready")
    BY <1>3 DEF AfterReady, Become, Goes, Fail, Leaves
  <2> HIDE DEF h
  <2>3. g.phase = "ready" => Own(h)'
    BY <1>0, <1>1, <2>1 DEF Own
  <2> QED
    BY <2>2, <2>3
<1>4. CASE ReadImport(g)
  <2>1. PICK h : /\ Goes(g, h) /\ h.vfs = g.vfs /\ h.root = g.root /\ h.phase = "walk" /\ h.client = g.client
                 /\ g.phase = "walk"
    <3>1. g.phase = "walk"
      BY <1>4 DEF ReadImport
    <3>2. \A todo, found :
            LET h == [g EXCEPT !.todo = todo, !.found = found] IN
            h.vfs = g.vfs /\ h.root = g.root /\ h.phase = g.phase /\ h.client = g.client
      BY <1>0 DEF Generations
    <3>3. \A todo :
            LET h == [g EXCEPT !.todo = todo] IN
            h.vfs = g.vfs /\ h.root = g.root /\ h.phase = g.phase /\ h.client = g.client
      BY <1>0 DEF Generations
    <3>4. \E todo, found : \/ Goes(g, [g EXCEPT !.todo = todo, !.found = found])
                           \/ Goes(g, [g EXCEPT !.todo = todo])
      BY <1>4 DEF ReadImport, Become, Goes
    <3> QED
      BY <3>1, <3>2, <3>3, <3>4
  <2>2. Own(h)'
    BY <1>0, <1>1, <2>1 DEF Own
  <2> QED
    BY <2>1, <2>2
<1>5. CASE SendLoad(g)
  <2>0. PICK h : h = [g EXCEPT !.phase = "load", !.call = Len(calls) + 1]
    OBVIOUS
  <2>1. /\ h.vfs = g.vfs /\ h.root = g.root /\ h.phase = "load" /\ h.client = g.client
        /\ h.call = Len(calls) + 1 /\ h.found = g.found
    BY <1>0, <2>0 DEF Generations
  <2>2. g.phase = "walk"
    BY <1>5 DEF SendLoad
  <2>3. Leaves(g) \/ (Goes(g, h) /\ calls' = Append(calls, g.found))
    BY <1>5, <2>0 DEF SendLoad, Become, Goes, Fail, End, Leaves, Client!Issue
  <2>4. ASSUME calls' = Append(calls, g.found)
        PROVE  Own(h)'
    <3>1. Len(calls') = Len(calls) + 1 /\ Len(calls') > 0 /\ calls'[Len(calls) + 1] = g.found
      BY <1>0, <2>4
    <3> QED
      BY <1>0, <1>1, <2>1, <2>2, <3>1 DEF Own
  <2> QED
    BY <2>3, <2>4
<1>6. CASE SendParse(g)
  <2>0. PICK h : h = [g EXCEPT !.phase = "parse", !.call = Len(calls) + 1, !.bytes = buffer]
    OBVIOUS
  <2>1. /\ h.vfs = g.vfs /\ h.root = g.root /\ h.phase = "parse" /\ h.client = g.client
        /\ h.call = Len(calls) + 1 /\ h.found = g.found /\ h.bytes = buffer
    BY <1>0, <2>0 DEF Generations
  <2>2. g.phase = "load" /\ g.client = client
    BY <1>6 DEF SendParse, Rejected
  <2>3. Goes(g, h) /\ calls' = Append(calls, ParseCall)
    BY <1>6, <2>0 DEF SendParse, Become, Goes, Client!Issue
  <2>4. /\ g.call = Len(calls) /\ Len(calls) > 0 /\ calls[Len(calls)] = g.found
    BY <2>2 DEF Own
  <2>5. Len(calls') = Len(calls) + 1 /\ calls'[Len(calls) + 1] = ParseCall
    BY <1>0, <2>3
  <2>6. Client!FilesAt(h.call)' = g.found
    <3>1. Client!LastLoad(Len(calls), Len(calls) + 1)
      <4>1. g.found # ParseCall
        BY <1>0, DistinctAssumption DEF Generations
      <4> QED
        BY <1>0, <2>4, <4>1 DEF Client!LastLoad
    <3>2. Len(calls) + 1 \in 1 .. Len(calls) + 1 /\ Len(calls) \in 1 .. Len(calls) + 1 - 1
      BY <1>0, <2>4
    <3>3. Client!FilesAt(Len(calls) + 1) = g.found
      BY <2>4, <3>1, <3>2, LastLoaded
    <3>4. \A k \in 1 .. Len(calls) + 1 : Client!FilesAt(k)' = Client!FilesAt(k)
      BY <2>3, CallsStand
    <3> QED
      BY <2>1, <3>2, <3>3, <3>4
  <2>7. Own(h)'
    BY <1>0, <1>1, <2>1, <2>2, <2>5, <2>6 DEF Own
  <2> QED
    BY <2>3, <2>7
<1>7. CASE ShowResult(g) \/ CallRejected(g) \/ ImportUnreadable(g)
  BY <1>7 DEF ShowResult, CallRejected, ImportUnreadable, Fail, Leaves
<1> QED
  BY <1>2, <1>3, <1>4, <1>5, <1>6, <1>7 DEF GenStep, Continue

LEMMA OwnKept ==
    ASSUME Types, OneCurrent, Since, CurrentIsOwn, [Next]_vars
    PROVE  CurrentIsOwn'
<1> SUFFICES ASSUME NEW x \in gens', ~x.cancelled
             PROVE  Own(x)'
  BY DEF CurrentIsOwn
<1>1. CASE Render
  <2>1. UNCHANGED <<version, buffer, client, calls>>
    BY <1>1 DEF Render, bytes, rpc
  <2>2. CASE UNCHANGED <<mounted, gens>>
    BY <2>1, <2>2, OwnStays DEF CurrentIsOwn
  <2>3. CASE ~UNCHANGED <<mounted, gens>>
    <3>1. x = Generation /\ mounted' = Deps
      BY <1>1, <2>3, RenderGens
    <3>2. /\ x.vfs = mounted'.vfs /\ x.root = mounted'.ksy /\ x.phase = "timer"
      BY <3>1 DEF Generation, Deps
    <3> QED
      BY <3>2 DEF Own
  <2> QED
    BY <2>2, <2>3
<1>2. ASSUME NEW g \in gens, GenStep(g)
      PROVE  Own(x)'
  <2>1. CASE g.cancelled
    <3>1. x \in gens /\ UNCHANGED <<mounted, version, buffer, client, calls>>
      BY <1>2, <2>1, CancelledStep DEF env, effects, bytes, rpc
    <3> QED
      BY <3>1, OwnStays DEF CurrentIsOwn
  <2>2. CASE ~g.cancelled
    <3>1. \A y \in gens \ {g} : y.cancelled
      BY <2>2 DEF OneCurrent, Types, GensTypes, Generations
    <3>2. CASE Leaves(g)
      BY <3>1, <3>2 DEF Leaves
    <3>3. CASE ~Leaves(g)
      <4>1. PICK h : Goes(g, h) /\ Own(h)'
        BY <1>2, <2>2, <3>3, OwnGoesOn DEF CurrentIsOwn
      <4> QED
        BY <3>1, <4>1 DEF Goes
    <3> QED
      BY <3>2, <3>3
  <2> QED
    BY <2>1, <2>2
<1>3. CASE WorkerStep
  <2>1. UNCHANGED <<gens, mounted, version, buffer, client, calls>>
    BY <1>3, WorkerStepKeeps DEF local, env, effects, bytes
  <2> QED
    BY <2>1, OwnStays DEF CurrentIsOwn
<1>4. CASE EventStep
  <2>1. UNCHANGED <<gens, mounted>>
    BY <1>4, EventStepKeeps
  <2>2. Own(x) /\ x \in gens /\ mounted # Null
    BY <2>1 DEF CurrentIsOwn, Types, MountTypes
  <2>3. /\ x \in Generations /\ (x.phase # "timer" => x.client \in 1 .. client) /\ client \in Nat
        /\ version \in Nat /\ mounted.version <= version /\ mounted \in Dependencies
    BY <2>2 DEF Types, GensTypes, RpcTypes, OpenTypes, MountTypes, Since
  <2>4. /\ x.vfs = mounted'.vfs /\ x.root = mounted'.ksy
        /\ x.phase # "timer" => mounted'.client <= x.client
    BY <2>1, <2>2 DEF Own
  <2>5. x.phase = "parse" /\ mounted'.version = version' => x.bytes = buffer'
    <3>1. CASE UNCHANGED <<version, buffer>>
      BY <2>1, <2>2, <3>1 DEF Own
    <3>2. CASE version' = version + 1
      BY <2>1, <2>3, <3>2 DEF Dependencies
    <3> QED
      BY <1>4, <3>1, <3>2, EventStepCounts
  <2>6. CASE UNCHANGED <<client, calls>>
    <3>1. \A k : Client!FilesAt(k)' = Client!FilesAt(k)
      BY <2>6 DEF Client!FilesAt, Client!LastLoad
    <3> QED
      BY <2>2, <2>4, <2>5, <2>6, <3>1 DEF Own
  <2>7. CASE client' = client + 1
    <3>1. x.phase \in {"load", "parse"} => x.client # client'
      BY <2>3, <2>7
    <3> QED
      BY <2>4, <2>5, <3>1 DEF Own
  <2> QED
    BY <1>4, <2>6, <2>7, EventStepCounts
<1>5. CASE UNCHANGED vars
  <2>1. UNCHANGED <<gens, mounted, version, buffer, client, calls>>
    BY <1>5 DEF vars, effects, bytes, rpc
  <2> QED
    BY <2>1, OwnStays DEF CurrentIsOwn
<1> QED
  BY <1>1, <1>2, <1>3, <1>4, <1>5, StepKinds

-----------------------------------------------------------------------------
(* Its walk goes over what is there.                                       *)

LEMMA MembersOf ==
    /\ Members(<<>>) = {}
    /\ \A x : Members(<<x>>) = {x}
    /\ \A s \in Seq(KsyPath) : s # <<>> => Members(s) = Members(Tail(s)) \cup {Head(s)}
    /\ \A s, t \in Seq(KsyPath) : Members(s \o t) = Members(s) \cup Members(t)
<1>1. Members(<<>>) = {} /\ \A x : Members(<<x>>) = {x}
  BY DEF Members
<1>2. ASSUME NEW s \in Seq(KsyPath), s # <<>>
      PROVE  Members(s) = Members(Tail(s)) \cup {Head(s)}
  <2>1. /\ Len(s) \in Nat /\ Len(s) > 0 /\ DOMAIN s = 1 .. Len(s) /\ Head(s) = s[1]
        /\ DOMAIN Tail(s) = 1 .. Len(s) - 1 /\ \A i \in 1 .. Len(s) - 1 : Tail(s)[i] = s[i + 1]
    BY <1>2
  <2>2. ASSUME NEW x \in Members(s)
        PROVE  x \in Members(Tail(s)) \cup {Head(s)}
    <3>1. PICK i \in 1 .. Len(s) : x = s[i]
      BY <2>1 DEF Members
    <3>2. CASE i = 1
      BY <2>1, <3>1, <3>2
    <3>3. CASE i # 1
      <4>1. i - 1 \in 1 .. Len(s) - 1 /\ Tail(s)[i - 1] = s[i]
        BY <2>1, <3>3
      <4> QED
        BY <2>1, <3>1, <4>1 DEF Members
    <3> QED
      BY <3>2, <3>3
  <2>3. ASSUME NEW x \in Members(Tail(s)) \cup {Head(s)}
        PROVE  x \in Members(s)
    <3>1. CASE x \in Members(Tail(s))
      <4>1. PICK i \in 1 .. Len(s) - 1 : x = s[i + 1]
        BY <2>1, <3>1 DEF Members
      <4>2. i + 1 \in DOMAIN s
        BY <2>1
      <4> QED
        BY <4>1, <4>2 DEF Members
    <3>2. CASE x = Head(s)
      <4>1. 1 \in DOMAIN s
        BY <2>1
      <4> QED
        BY <2>1, <3>2, <4>1 DEF Members
    <3> QED
      BY <3>1, <3>2
  <2> QED
    BY <2>2, <2>3
<1>3. ASSUME NEW s \in Seq(KsyPath), NEW t \in Seq(KsyPath)
      PROVE  Members(s \o t) = Members(s) \cup Members(t)
  <2>1. Len(s) \in Nat /\ Len(t) \in Nat /\ DOMAIN s = 1 .. Len(s) /\ DOMAIN t = 1 .. Len(t)
    BY <1>3
  <2> DEFINE r == s \o t
  <2>2. /\ DOMAIN r = 1 .. Len(s) + Len(t)
        /\ \A i \in 1 .. Len(s) + Len(t) : r[i] = IF i <= Len(s) THEN s[i] ELSE t[i - Len(s)]
    <3>1. Len(r) = Len(s) + Len(t) /\ r \in Seq(KsyPath)
      BY <1>3, ConcatProperties
    <3>2. DOMAIN r = 1 .. Len(r)
      BY <3>1
    <3> QED
      BY <1>3, <3>1, <3>2, ConcatProperties
  <2> HIDE DEF r
  <2>3. ASSUME NEW x \in Members(r)
        PROVE  x \in Members(s) \cup Members(t)
    <3>1. PICK i \in 1 .. Len(s) + Len(t) : x = r[i]
      BY <2>2 DEF Members
    <3>2. CASE i <= Len(s)
      <4>1. i \in DOMAIN s /\ x = s[i]
        BY <2>1, <2>2, <3>1, <3>2
      <4> QED
        BY <4>1 DEF Members
    <3>3. CASE ~(i <= Len(s))
      <4>1. i - Len(s) \in DOMAIN t /\ x = t[i - Len(s)]
        BY <2>1, <2>2, <3>1, <3>3
      <4> QED
        BY <4>1 DEF Members
    <3> QED
      BY <3>2, <3>3
  <2>4. ASSUME NEW x \in Members(s)
        PROVE  x \in Members(r)
    <3>1. PICK i \in 1 .. Len(s) : x = s[i]
      BY <2>1 DEF Members
    <3>2. i \in DOMAIN r /\ x = r[i]
      BY <2>1, <2>2, <3>1
    <3> QED
      BY <3>2 DEF Members
  <2>5. ASSUME NEW x \in Members(t)
        PROVE  x \in Members(r)
    <3>1. PICK i \in 1 .. Len(t) : x = t[i]
      BY <2>1 DEF Members
    <3>2. Len(s) + i \in DOMAIN r /\ ~(Len(s) + i <= Len(s)) /\ Len(s) + i - Len(s) = i
      BY <2>1, <2>2
    <3>3. x = r[Len(s) + i]
      BY <2>2, <3>1, <3>2
    <3> QED
      BY <3>2, <3>3 DEF Members
  <2>6. Members(r) = Members(s) \cup Members(t)
    BY <2>3, <2>4, <2>5
  <2> QED
    BY <2>6 DEF r
<1> QED
  BY <1>1, <1>2, <1>3

LEMMA MembersPopped ==
    ASSUME NEW s \in Seq(KsyPath), s # <<>>
    PROVE  Head(s) \in KsyPath /\ Tail(s) \in Seq(KsyPath) /\ Members(s) = Members(Tail(s)) \cup {Head(s)}
<1>1. Members(s) = Members(Tail(s)) \cup {Head(s)}
  BY MembersOf
<1>2. Head(s) \in KsyPath /\ Tail(s) \in Seq(KsyPath)
  OBVIOUS
<1> QED
  BY <1>1, <1>2

LEMMA MembersIn ==
    ASSUME NEW s \in Seq(KsyPath)
    PROVE  \A i \in DOMAIN s : s[i] \in KsyPath
OBVIOUS

\* At its end it has collected what a parse of those files needs.
LEMMA WalkCollects ==
    ASSUME NEW files \in [KsyPath -> File], NEW g \in Generations, Walking(files, g),
           g.phase \in {"walk", "load", "parse"}, g.todo = <<>>
    PROVE  g.found = Collected(files, g.root)
<1>0. /\ g.found \in FileSet /\ g.root \in KsyPath
  BY DEF Generations
<1>1. /\ DOMAIN g.found \subseteq KsyPath /\ g.found \in [DOMAIN g.found -> Text]
  BY <1>0, FileSets
<1> DEFINE missing == {p \in KsyPath : files[p] = Missing}
           S == DOMAIN g.found \cup missing
<1>2. Known(files, g) = S
  BY MembersOf DEF Known
<1>3. \A p \in DOMAIN g.found : g.found[p] = files[p] /\ files[p] # Missing
  BY <1>1, DistinctAssumption DEF Walking
<1>4. Reached(files, g.root) \subseteq S
  <2>1. S \in SUBSET KsyPath /\ g.root \in S
    BY <1>1, <1>2 DEF Walking
  <2>2. Closed(files, S)
    BY <1>2, <1>3 DEF Walking, Closed
  <2> QED
    BY <2>1, <2>2 DEF Reached
<1>5. DOMAIN g.found = {q \in Reached(files, g.root) : files[q] # Missing}
  BY <1>3, <1>4 DEF Walking
<1>6. g.found = [p \in DOMAIN g.found |-> files[p]]
  BY <1>1, <1>3
<1> QED
  BY <1>5, <1>6 DEF Collected

\* Reading one file keeps the walk on what is there.
LEMMA HeadReached ==
    ASSUME NEW files \in [KsyPath -> File], NEW g \in Generations, Walking(files, g),
           g.phase = "walk", g.todo # <<>>, NEW p, p = Head(g.todo)
    PROVE  /\ p \in KsyPath /\ files[p] \in File /\ Tail(g.todo) \in Seq(KsyPath)
           /\ Members(g.todo) = Members(Tail(g.todo)) \cup {p}
           /\ p \in Reached(files, g.root) /\ Members(Tail(g.todo)) \subseteq Reached(files, g.root)
           /\ DOMAIN g.found \subseteq Reached(files, g.root)
<1>1. g.todo \in Seq(KsyPath)
  BY DEF Generations
<1>2. p \in KsyPath /\ Tail(g.todo) \in Seq(KsyPath) /\ Members(g.todo) = Members(Tail(g.todo)) \cup {p}
  BY <1>1, MembersPopped
<1> QED
  BY <1>1, <1>2 DEF Walking

LEMMA PassWalks ==
    ASSUME NEW files \in [KsyPath -> File], NEW g \in Generations, Walking(files, g),
           g.phase = "walk", g.todo # <<>>, NEW p, p = Head(g.todo),
           files[p] = Missing \/ p \in DOMAIN g.found,
           NEW h, h.phase = "walk", h.root = g.root, h.todo = Tail(g.todo), h.found = g.found
    PROVE  Walking(files, h)
<1>0. /\ p \in KsyPath /\ Members(g.todo) = Members(Tail(g.todo)) \cup {p}
      /\ Members(Tail(g.todo)) \subseteq Reached(files, g.root) /\ DOMAIN g.found \subseteq Reached(files, g.root)
  BY HeadReached
<1>1. Known(files, h) = Known(files, g)
  BY <1>0 DEF Known
<1> QED
  BY <1>0, <1>1 DEF Walking

LEMMA ReadWalks ==
    ASSUME NEW files \in [KsyPath -> File], NEW g \in Generations, Walking(files, g),
           g.phase = "walk", g.todo # <<>>, NEW p, p = Head(g.todo),
           NEW text, text = files[p], text # Missing, p \notin DOMAIN g.found,
           NEW im, im = Imports[text],
           NEW todo, Members(todo) = Members(im) \cup Members(Tail(g.todo)),
           NEW found, DOMAIN found = DOMAIN g.found \cup {p}, found[p] = text,
           \A q \in DOMAIN g.found : found[q] = g.found[q],
           NEW h, h.phase = "walk", h.root = g.root, h.todo = todo, h.found = found
    PROVE  Walking(files, h)
<1>0. /\ p \in KsyPath /\ text \in File
      /\ Members(g.todo) = Members(Tail(g.todo)) \cup {p}
      /\ p \in Reached(files, g.root) /\ Members(Tail(g.todo)) \subseteq Reached(files, g.root)
      /\ DOMAIN g.found \subseteq Reached(files, g.root)
  <2>1. /\ p \in KsyPath /\ files[p] \in File
        /\ Members(g.todo) = Members(Tail(g.todo)) \cup {p}
        /\ p \in Reached(files, g.root) /\ Members(Tail(g.todo)) \subseteq Reached(files, g.root)
        /\ DOMAIN g.found \subseteq Reached(files, g.root)
    BY HeadReached, SMTT(60)
  <2> QED
    BY <2>1
<1>2. text \in Text /\ im \in Seq(KsyPath)
  BY <1>0, ProjectsAssumption DEF File
<1>4. DOMAIN found = DOMAIN g.found \cup {p} /\ \A q \in DOMAIN found : found[q] = files[q]
  BY DEF Walking
<1>5. Members(im) \subseteq Reached(files, g.root)
  <2>1. ASSUME NEW i \in DOMAIN im, NEW S \in SUBSET KsyPath, g.root \in S, Closed(files, S)
        PROVE  im[i] \in S
    <3>1. p \in S
      BY <1>0, <2>1 DEF Reached
    <3> QED
      BY <2>1, <3>1 DEF Closed
  <2>2. \A i \in DOMAIN im : im[i] \in KsyPath
    BY <1>2, MembersIn
  <2>3. \A i \in DOMAIN im : im[i] \in Reached(files, g.root)
    BY <2>1, <2>2 DEF Reached
  <2> QED
    BY <2>3 DEF Members
<1>6. Known(files, g) \subseteq Known(files, h)
  BY <1>0, <1>4 DEF Known
<1>7. \A q \in DOMAIN found : \A i \in DOMAIN Imports[found[q]] : Imports[found[q]][i] \in Known(files, h)
  <2>1. ASSUME NEW i \in DOMAIN im
        PROVE  im[i] \in Known(files, h)
    <3>1. im[i] \in Members(im)
      BY DEF Members
    <3> QED
      BY <3>1 DEF Known
  <2> QED
    BY <1>4, <1>6, <2>1 DEF Walking
<1> QED
  BY <1>0, <1>4, <1>5, <1>6, <1>7 DEF Walking

LEMMA WalkBegins ==
    ASSUME NEW files, NEW h, h.root \in KsyPath, h.found = NoFiles,
           \/ h.phase \in {"timer", "ready"} /\ h.todo = <<>>
           \/ h.phase = "walk" /\ h.todo = <<h.root>>
    PROVE  Walking(files, h)
<1>1. DOMAIN h.found = {}
  BY EmptyFiles
<1>2. h.root \in Reached(files, h.root)
  BY DEF Reached
<1>3. CASE h.phase \in {"timer", "ready"} /\ h.todo = <<>>
  <2>1. Members(h.todo) = {}
    BY <1>3, MembersOf
  <2> QED
    BY <1>1, <1>3, <2>1 DEF Walking
<1>4. CASE h.phase = "walk" /\ h.todo = <<h.root>>
  <2>1. Members(h.todo) = {h.root}
    BY <1>4, MembersOf
  <2> QED
    BY <1>1, <1>2, <1>4, <2>1 DEF Walking, Known
<1> QED
  BY <1>3, <1>4

\* What the current generation goes on as has walked over what is there, too.
LEMMA WalkGoesOn ==
    ASSUME Types, NEW g \in gens, ~g.cancelled, GenStep(g), Walking(disk[g.vfs], g)
    PROVE  Leaves(g) \/ \E h : Goes(g, h) /\ h.vfs = g.vfs /\ Walking(disk[g.vfs], h)
<1>0. g \in Generations /\ disk[g.vfs] \in [KsyPath -> File] /\ g.root \in KsyPath
  BY DEF Types, GensTypes, OpenTypes, Generations
<1>1. PICK files : files = disk[g.vfs]
  OBVIOUS
<1>2. CASE Fire(g)
  <2> DEFINE h == [g EXCEPT !.phase = "ready", !.client = client]
  <2>1. /\ h.vfs = g.vfs /\ h.root = g.root /\ h.phase = "ready" /\ h.found = g.found /\ h.todo = g.todo
    BY <1>0 DEF Generations
  <2>2. g.phase = "timer" /\ Goes(g, h)
    BY <1>2 DEF Fire, Become, Goes
  <2> HIDE DEF h
  <2>3. Walking(files, h)
    <3>1. h.found = NoFiles /\ h.todo = <<>>
      BY <1>1, <2>1, <2>2 DEF Walking
    <3> QED
      BY <1>0, <2>1, <3>1, WalkBegins
  <2> QED
    BY <1>1, <2>1, <2>2, <2>3
<1>3. CASE AfterReady(g)
  <2> DEFINE h == [g EXCEPT !.phase = "walk", !.todo = <<g.root>>]
  <2>1. /\ h.vfs = g.vfs /\ h.root = g.root /\ h.phase = "walk" /\ h.found = g.found /\ h.todo = <<g.root>>
    BY <1>0 DEF Generations
  <2>2. Leaves(g) \/ Goes(g, h)
    BY <1>3 DEF AfterReady, Become, Goes, Fail, Leaves
  <2>3. g.phase = "ready"
    BY <1>3 DEF AfterReady
  <2> HIDE DEF h
  <2>4. Walking(files, h)
    <3>1. h.found = NoFiles
      BY <1>1, <2>1, <2>3 DEF Walking
    <3> QED
      BY <1>0, <2>1, <3>1, WalkBegins
  <2> QED
    BY <1>1, <2>1, <2>2, <2>4
<1>4. CASE ReadImport(g)
  <2>0. PICK p, text : p = Head(g.todo) /\ text = files[p]
    OBVIOUS
  <2>1. g.phase = "walk" /\ g.todo # <<>>
    BY <1>4 DEF ReadImport
  <2>2. CASE text = Missing \/ p \in DOMAIN g.found
    <3> DEFINE h == [g EXCEPT !.todo = Tail(g.todo)]
    <3>1. h.vfs = g.vfs /\ h.root = g.root /\ h.phase = "walk" /\ h.found = g.found /\ h.todo = Tail(g.todo)
      BY <1>0, <2>1 DEF Generations
    <3>2. Goes(g, h)
      BY <1>1, <1>4, <2>0, <2>2 DEF ReadImport, Become, Goes
    <3> HIDE DEF h
    <3>3. Walking(files, h)
      BY <1>0, <1>1, <2>0, <2>1, <2>2, <3>1, PassWalks
    <3> QED
      BY <1>1, <3>1, <3>2, <3>3
  <2>3. CASE ~(text = Missing \/ p \in DOMAIN g.found)
    <3>0. PICK im, rest, todo, found :
             /\ im = Imports[text] /\ rest = Tail(g.todo) /\ todo = im \o rest
             /\ found = [q \in DOMAIN g.found \cup {p} |-> IF q = p THEN text ELSE g.found[q]]
      OBVIOUS
    <3> DEFINE h == [g EXCEPT !.todo = todo, !.found = found]
    <3>1. h.vfs = g.vfs /\ h.root = g.root /\ h.phase = "walk" /\ h.todo = todo /\ h.found = found
      BY <1>0, <2>1 DEF Generations
    <3>2. Goes(g, h)
      BY <1>1, <1>4, <2>0, <2>3, <3>0 DEF ReadImport, Become, Goes
    <3> HIDE DEF h
    <3>3. Walking(files, h)
      <4>1. files \in [KsyPath -> File] /\ Walking(files, g)
        BY <1>0, <1>1
      <4>2. text # Missing /\ p \notin DOMAIN g.found
        BY <2>3
      <4>3. p = Head(g.todo) /\ text = files[p]
        BY <2>0
      <4>4. /\ DOMAIN found = DOMAIN g.found \cup {p} /\ found[p] = text
            /\ \A q \in DOMAIN g.found : found[q] = g.found[q]
        BY <3>0, <4>2
      <4>5. Members(todo) = Members(im) \cup Members(Tail(g.todo))
        <5>1. p \in KsyPath /\ text \in File /\ rest \in Seq(KsyPath)
          BY <1>0, <2>1, <3>0, <4>1, <4>3, HeadReached
        <5>2. im \in Seq(KsyPath)
          BY <3>0, <4>2, <5>1, ProjectsAssumption DEF File
        <5>3. Members(im \o rest) = Members(im) \cup Members(rest)
          BY <5>1, <5>2, MembersOf, Zenon
        <5> QED
          BY <3>0, <5>3
      <4>6. im = Imports[text]
        BY <3>0
      <4> QED
        BY <1>0, <2>1, <3>1, <4>1, <4>2, <4>3, <4>4, <4>5, <4>6, ReadWalks
    <3> QED
      BY <1>1, <3>1, <3>2, <3>3
  <2> QED
    BY <2>2, <2>3
<1>5. ASSUME NEW h, h.root = g.root, h.found = g.found, h.todo = g.todo, g.todo = <<>>,
             g.phase \in {"walk", "load"}, h.phase \in {"load", "parse"}
      PROVE  Walking(files, h)
  BY <1>1, <1>5 DEF Walking, Known
<1>6. CASE SendLoad(g)
  <2> DEFINE h == [g EXCEPT !.phase = "load", !.call = Len(calls) + 1]
  <2>1. h.vfs = g.vfs /\ h.root = g.root /\ h.phase = "load" /\ h.found = g.found /\ h.todo = g.todo
    BY <1>0 DEF Generations
  <2>2. g.phase = "walk" /\ g.todo = <<>> /\ (Leaves(g) \/ Goes(g, h))
    BY <1>6 DEF SendLoad, Become, Goes, Fail, Leaves
  <2> HIDE DEF h
  <2> QED
    BY <1>1, <1>5, <2>1, <2>2
<1>7. CASE SendParse(g)
  <2> DEFINE h == [g EXCEPT !.phase = "parse", !.call = Len(calls) + 1, !.bytes = buffer]
  <2>1. h.vfs = g.vfs /\ h.root = g.root /\ h.phase = "parse" /\ h.found = g.found /\ h.todo = g.todo
    BY <1>0 DEF Generations
  <2>2. g.phase = "load" /\ g.todo = <<>> /\ Goes(g, h)
    BY <1>7 DEF SendParse, Become, Goes, Walking
  <2> HIDE DEF h
  <2> QED
    BY <1>1, <1>5, <2>1, <2>2
<1>8. CASE ShowResult(g) \/ CallRejected(g) \/ ImportUnreadable(g)
  BY <1>8 DEF ShowResult, CallRejected, ImportUnreadable, Fail, Leaves
<1> QED
  BY <1>2, <1>3, <1>4, <1>6, <1>7, <1>8 DEF GenStep, Continue

\* Only an event changes the disk, and what is shown is stale then.
LEMMA EventStepDisk ==
    ASSUME EventStep, ~Stale'
    PROVE  disk' = disk /\ ~Stale /\ ~touched
<1>0. ~due /\ mounted' = mounted
  BY EventStepKeeps DEF NewTask
<1>1. ASSUME NEW text \in Text, SetKsySource(text)
      PROVE  FALSE
  BY <1>0, <1>1 DEF SetKsySource, UserEvent, Stale
<1>2. ASSUME NEW p, NEW file, PanelWrite(p, file)
      PROVE  FALSE
  BY <1>2 DEF PanelWrite, Stale
<1>3. disk' = disk /\ touched' = touched
  BY <1>1, <1>2 DEF EventStep, FileRead, BinaryRead, UserAction, SelectKsy, SetCurrentKsyPath,
         EditBuffer, SetBinary, OpenBinary, SetProject, ReloadWorker
<1> QED
  BY <1>0, <1>3 DEF Stale

LEMMA WalksKept ==
    ASSUME Types, OneCurrent, WalksPresent, [Next]_vars
    PROVE  WalksPresent'
<1> SUFFICES ASSUME ~Stale', NEW x \in gens', ~x.cancelled
             PROVE  Walking(disk'[x.vfs], x)
  BY DEF WalksPresent
<1>0. mounted = Null => gens = {}
  BY DEF Types, MountTypes
<1>1. CASE Render
  <2>1. disk' = disk /\ due' = FALSE
    BY <1>1 DEF Render
  <2>2. CASE mounted' = mounted /\ mounted = Deps /\ UNCHANGED <<gens, touched>>
    <3>1. ~Stale
      BY <2>2 DEF Stale, Deps
    <3> QED
      BY <2>1, <2>2, <3>1 DEF WalksPresent
  <2>3. CASE \A g \in gens' : ~g.cancelled => g = Generation /\ currentKsyPath # Null
    <3>1. x = Generation /\ currentKsyPath \in KsyPath
      BY <2>3 DEF Types, OpenTypes, KsyPathOrNull
    <3>2. x.root \in KsyPath /\ x.found = NoFiles /\ x.phase = "timer" /\ x.todo = <<>>
      BY <3>1 DEF Generation
    <3> QED
      BY <3>2, WalkBegins
  <2> QED
    BY <1>1, <2>2, <2>3, RenderGens
<1>2. ASSUME NEW g \in gens, GenStep(g)
      PROVE  Walking(disk'[x.vfs], x)
  <2>1. disk' = disk /\ ~Stale
    BY <1>2, GenStepKeeps DEF env, effects, Stale
  <2>2. CASE g.cancelled
    <3>1. x \in gens
      BY <1>2, <2>2, CancelledStep
    <3> QED
      BY <2>1, <3>1 DEF WalksPresent
  <2>3. CASE ~g.cancelled
    <3>1. \A y \in gens \ {g} : y.cancelled
      BY <2>3 DEF OneCurrent, Types, GensTypes, Generations
    <3>2. CASE Leaves(g)
      BY <3>1, <3>2 DEF Leaves
    <3>3. CASE ~Leaves(g)
      <4>1. PICK h : Goes(g, h) /\ h.vfs = g.vfs /\ Walking(disk[g.vfs], h)
        BY <1>2, <2>1, <2>3, <3>3, WalkGoesOn DEF WalksPresent
      <4>2. x = h
        BY <3>1, <4>1 DEF Goes
      <4> QED
        BY <2>1, <4>1, <4>2
    <3> QED
      BY <3>2, <3>3
  <2> QED
    BY <2>2, <2>3
<1>3. CASE WorkerStep
  <2>1. UNCHANGED <<disk, gens>> /\ ~Stale
    BY <1>3, WorkerStepKeeps DEF local, env, effects, Stale
  <2> QED
    BY <2>1 DEF WalksPresent
<1>4. CASE EventStep
  <2>1. UNCHANGED <<disk, gens>> /\ ~Stale
    BY <1>4, EventStepKeeps, EventStepDisk
  <2> QED
    BY <2>1 DEF WalksPresent
<1>5. CASE UNCHANGED vars
  <2>1. UNCHANGED <<disk, gens>> /\ ~Stale
    BY <1>5 DEF vars, effects, Stale
  <2> QED
    BY <2>1 DEF WalksPresent
<1> QED
  BY <1>1, <1>2, <1>3, <1>4, <1>5, StepKinds

-----------------------------------------------------------------------------
(* What is shown at its end.                                               *)

\* The answer to its parse is what it has collected.
LEMMA OwnAnswer ==
    ASSUME Types, Answers, NEW g \in gens, Own(g), g.phase = "parse",
           ~Rejected(g), outcome[g.call] # Unanswered
    PROVE  outcome[g.call] = g.found
<1>1. g.client = client /\ outcome[g.call] # Failed
  BY Calls DEF Rejected
<1>2. g.call \in DOMAIN calls /\ calls[g.call] = ParseCall /\ Client!FilesAt(g.call) = g.found
  BY <1>1, Calls DEF Own
<1>3. Client!AnswerTo(g.call) = g.found
  <2> g.call \in Nat \ {0}
    BY <1>2 DEF Types, RpcTypes
  <2> QED
    BY <1>2, AnswerWhileRunning
<1>4. outcome[g.call] \in {Unanswered, Failed, Client!AnswerTo(g.call)}
  BY <1>2 DEF Answers
<1> QED
  BY <1>1, <1>3, <1>4

\* A rejected call tells of a fault or of another client.
LEMMA Rejection ==
    ASSUME Types, Answers, NEW g \in gens, Own(g), g.phase \in {"load", "parse"}, Rejected(g)
    PROVE  faults > 0 \/ mounted.client < client
<1>0. /\ g.client \in 1 .. client /\ client \in Nat /\ mounted.client <= g.client
      /\ mounted \in Dependencies /\ faults \in Nat
  BY DEF Types, GensTypes, RpcTypes, MountTypes, OpenTypes, Own
<1>1. mounted.client \in Nat
  BY <1>0 DEF Dependencies
<1>2. CASE g.client # client
  BY <1>0, <1>1, <1>2
<1>3. CASE g.client = client /\ outcome[g.call] = Failed
  <2>1. g.call \in DOMAIN calls
    BY <1>3, Calls DEF Own
  <2> QED
    BY <1>0, <1>3, <2>1 DEF Answers
<1> QED
  BY <1>2, <1>3 DEF Rejected

LEMMA EndShown ==
    ASSUME Types, Answers, NEW g \in gens, ~g.cancelled, Own(g), Walking(disk[g.vfs], g), GenStep(g)
    PROVE  (\E h \in gens' : ~h.cancelled) \/ Shown'
<1>0. /\ g \in Generations /\ g.root \in KsyPath /\ g.root # Null
      /\ disk[g.vfs] \in [KsyPath -> File]
      /\ g.vfs = mounted.vfs /\ g.root = mounted.ksy
      /\ faults \in Nat /\ mounted \in Dependencies
  BY DistinctAssumption DEF Types, GensTypes, OpenTypes, MountTypes, Own, Generations
<1>1. UNCHANGED <<disk, mounted, version, buffer, client>>
  BY GenStepKeeps DEF env, effects, bytes
<1>2. ASSUME NEW why \in {"worker", "read"}, Fail(g, why), faults' > 0 \/ mounted.client < client
      PROVE  Shown'
  BY <1>1, <1>2 DEF Fail, Shown
<1>3. ASSUME NEW h, Become(g, h), h.cancelled = g.cancelled
      PROVE  \E x \in gens' : ~x.cancelled
  BY <1>3 DEF Become
<1>4. CASE Fire(g)
  <2> DEFINE h == [g EXCEPT !.phase = "ready", !.client = client]
  <2>1. h.cancelled = g.cancelled
    BY <1>0 DEF Generations
  <2> QED
    BY <1>3, <1>4, <2>1 DEF Fire
<1>5. CASE AfterReady(g)
  <2> DEFINE h == [g EXCEPT !.phase = "walk", !.todo = <<g.root>>]
  <2>1. h.cancelled = g.cancelled
    BY <1>0 DEF Generations
  <2>2. CASE ready[g.client] = "rejected" /\ Fail(g, "worker")
    <3>1. g.client \in 1 .. client /\ faults' = faults
      BY <1>5 DEF AfterReady, Types, GensTypes
    <3>2. faults' > 0
      BY <1>0, <2>2, <3>1, Calls DEF Answers
    <3> QED
      BY <1>2, <2>2, <3>2
  <2>3. CASE Become(g, h)
    BY <1>3, <2>1, <2>3
  <2> QED
    BY <1>5, <2>2, <2>3 DEF AfterReady
<1>6. CASE ReadImport(g)
  <2>1. \A todo, found : [g EXCEPT !.todo = todo, !.found = found].cancelled = g.cancelled
    BY <1>0 DEF Generations
  <2>2. \A todo : [g EXCEPT !.todo = todo].cancelled = g.cancelled
    BY <1>0 DEF Generations
  <2>3. \E todo, found : \/ Become(g, [g EXCEPT !.todo = todo, !.found = found])
                         \/ Become(g, [g EXCEPT !.todo = todo])
    BY <1>6 DEF ReadImport
  <2> QED
    BY <1>3, <2>1, <2>2, <2>3
<1>7. CASE ImportUnreadable(g)
  <2>1. faults' > 0
    BY <1>0, <1>7 DEF ImportUnreadable
  <2> QED
    BY <1>2, <1>7, <2>1 DEF ImportUnreadable
<1>8. CASE SendLoad(g)
  <2> DEFINE h == [g EXCEPT !.phase = "load", !.call = Len(calls) + 1]
  <2>1. h.cancelled = g.cancelled
    BY <1>0 DEF Generations
  <2>2. CASE g.client # client /\ Fail(g, "worker")
    <3>1. g.client \in 1 .. client /\ client \in Nat /\ mounted.client <= g.client
      BY <1>8 DEF SendLoad, Types, GensTypes, RpcTypes, Own
    <3>2. mounted.client < client
      BY <1>0, <2>2, <3>1 DEF Dependencies
    <3> QED
      BY <1>2, <2>2, <3>2
  <2>3. CASE Become(g, h)
    BY <1>3, <2>1, <2>3
  <2> QED
    BY <1>8, <2>2, <2>3 DEF SendLoad
<1>9. CASE SendParse(g)
  <2> DEFINE h == [g EXCEPT !.phase = "parse", !.call = Len(calls) + 1, !.bytes = buffer]
  <2>1. h.cancelled = g.cancelled
    BY <1>0 DEF Generations
  <2> QED
    BY <1>3, <1>9, <2>1 DEF SendParse
<1>10. CASE CallRejected(g)
  <2>1. faults' > 0 \/ mounted.client < client
    BY <1>10, Rejection DEF CallRejected
  <2> QED
    BY <1>2, <1>10, <2>1 DEF CallRejected
<1>11. CASE ShowResult(g)
  <2>1. g.phase = "parse" /\ ~Rejected(g) /\ outcome[g.call] # Unanswered
    BY <1>11 DEF ShowResult
  <2>2. outcome[g.call] = g.found
    BY <2>1, OwnAnswer
  <2>3. g.found = Collected(disk[g.vfs], g.root)
    <3>1. g.todo = <<>>
      BY <2>1 DEF Walking
    <3> QED
      BY <1>0, <2>1, <3>1, WalkCollects
  <2>4. PICK files : files = Collected(disk[g.vfs], g.root)
    OBVIOUS
  <2>5. files = Collected(disk[mounted.vfs], mounted.ksy)' /\ outcome[g.call] = files
    <3>1. outcome[g.call] = files /\ files = Collected(disk[mounted.vfs], mounted.ksy)
      BY <1>0, <2>2, <2>3, <2>4
    <3>2. Collected(disk[mounted.vfs], mounted.ksy)' = Collected(disk[mounted.vfs], mounted.ksy)
      BY <1>1 DEF Collected, Reached, Closed
    <3> QED
      BY <3>1, <3>2
  <2>6. CASE ~Parses(g.root, files)
    <3>1. Fail(g, "schema")
      BY <1>11, <2>5, <2>6 DEF ShowResult
    <3>2. tree' = Null /\ error' = "schema" /\ mounted'.ksy # Null /\ ~Parses(mounted'.ksy, files)
      BY <1>0, <1>1, <2>6, <3>1 DEF Fail
    <3> QED
      BY <2>5, <3>2 DEF Shown, Parses
  <2>7. CASE Parses(g.root, files)
    <3>1. tree' = Result(g.root, files, g.bytes) /\ error' = Null
      BY <1>11, <2>5, <2>7 DEF ShowResult
    <3>2. mounted'.version = version' => g.bytes = buffer'
      BY <1>1, <2>1 DEF Own
    <3>3. mounted'.ksy # Null /\ Parses(mounted'.ksy, files) /\ tree' = Result(mounted'.ksy, files, g.bytes)
      BY <1>0, <1>1, <2>7, <3>1
    <3> QED
      BY <2>5, <3>1, <3>2, <3>3 DEF Shown, Parses, Result
  <2> QED
    BY <2>6, <2>7
<1> QED
  BY <1>4, <1>5, <1>6, <1>7, <1>8, <1>9, <1>10, <1>11 DEF GenStep, Continue

LEMMA ShownStays ==
    ASSUME Shown, UNCHANGED <<disk, mounted, shown>>, faults > 0 => faults' > 0,
           mounted.client < client => mounted.client < client',
           mounted.version = version' => version' = version /\ buffer' = buffer
    PROVE  Shown'
BY DEF Shown, shown, Collected, Reached, Closed, Parses, Result

LEMMA SettledKept ==
    ASSUME Types, Answers, OneCurrent, Since, CurrentIsOwn, WalksPresent, Settled, [Next]_vars
    PROVE  Settled'
<1> SUFFICES ASSUME mounted' # Null, ~Stale', \A g \in gens' : g.cancelled
             PROVE  Shown'
  BY DEF Settled
<1>0. /\ mounted = Null => due /\ gens = {}
      /\ faults \in Nat /\ version \in Nat /\ client \in Nat
      /\ mounted # Null => /\ mounted \in Dependencies /\ mounted.version <= version
                           /\ mounted.version \in Nat /\ mounted.client \in Nat
  BY DEF Types, MountTypes, OpenTypes, RpcTypes, Since, Dependencies
<1>1. CASE Render
  <2>1. UNCHANGED <<disk, faults, version, buffer, client>> /\ due' = FALSE
    BY <1>1 DEF Render, bytes, rpc
  <2>2. CASE mounted' = mounted /\ mounted = Deps /\ UNCHANGED <<gens, shown, touched>>
    <3>1. ~Stale
      BY <2>2 DEF Stale, Deps
    <3>2. Shown
      BY <2>2, <3>1 DEF Settled
    <3> QED
      BY <2>1, <2>2, <3>2, ShownStays
  <2>3. CASE mounted' = Deps /\ currentKsyPath = Null /\ tree' = Null /\ error' = Null
    <3>1. mounted'.ksy = Null
      BY <2>3 DEF Deps
    <3> QED
      BY <2>3, <3>1 DEF Shown
  <2>4. ~Generation.cancelled
    BY DEF Generation
  <2> QED
    BY <1>1, <2>2, <2>3, <2>4, RenderGens
<1>2. ASSUME NEW g \in gens, GenStep(g)
      PROVE  Shown'
  <2>1. UNCHANGED <<disk, mounted, version, buffer, client>> /\ ~Stale /\ mounted # Null
    BY <1>0, <1>2, GenStepKeeps DEF env, effects, bytes, Stale
  <2>2. CASE g.cancelled
    <3>1. UNCHANGED shown /\ \A x \in gens : ~x.cancelled => x \in gens'
      BY <1>2, <2>2, CancelledStep
    <3>2. Shown
      BY <2>1, <3>1 DEF Settled
    <3>3. faults > 0 => faults' > 0
      BY <1>0, <1>2 DEF GenStep, Continue, Fire, ReadImport, ImportUnreadable, AfterReady, SendLoad,
             SendParse, ShowResult, CallRejected
    <3> QED
      BY <2>1, <3>1, <3>2, <3>3, ShownStays
  <2>3. CASE ~g.cancelled
    BY <1>2, <2>1, <2>3, EndShown DEF CurrentIsOwn, WalksPresent
  <2> QED
    BY <2>2, <2>3
<1>3. CASE WorkerStep
  <2>1. UNCHANGED <<disk, mounted, version, buffer, client, gens, shown>> /\ ~Stale
    BY <1>3, WorkerStepKeeps DEF local, env, effects, bytes, Stale
  <2>2. Shown
    BY <2>1 DEF Settled
  <2>3. faults > 0 => faults' > 0
    BY <1>0, <1>3 DEF WorkerStep, Boot, WorkerError, Answer
  <2> QED
    BY <2>1, <2>2, <2>3, ShownStays
<1>4. CASE EventStep
  <2>1. UNCHANGED <<disk, mounted, gens, shown, faults>> /\ ~Stale
    BY <1>4, EventStepKeeps, EventStepDisk
  <2>2. Shown
    BY <2>1 DEF Settled
  <2>3. mounted.client < client => mounted.client < client'
    BY <1>0, <1>4, <2>1, EventStepCounts
  <2>4. mounted.version = version' => version' = version /\ buffer' = buffer
    BY <1>0, <1>4, <2>1, EventStepCounts
  <2> QED
    BY <2>1, <2>2, <2>3, <2>4, ShownStays
<1>5. CASE UNCHANGED vars
  <2>1. UNCHANGED <<disk, mounted, version, buffer, client, gens, shown, faults>> /\ ~Stale
    BY <1>5 DEF vars, effects, bytes, rpc, Stale
  <2>2. Shown
    BY <2>1 DEF Settled
  <2> QED
    BY <2>1, <2>2, ShownStays
<1> QED
  BY <1>1, <1>2, <1>3, <1>4, <1>5, StepKinds

-----------------------------------------------------------------------------
(* The theorems.                                                           *)

IInv == Types /\ Answers /\ OneCurrent /\ Since /\ CurrentIsOwn /\ WalksPresent /\ Settled

LEMMA InvBegins == Init => IInv
<1> SUFFICES ASSUME Init
             PROVE  IInv
  OBVIOUS
<1>1. gens = {} /\ mounted = Null /\ calls = <<>> /\ ready = <<"pending">>
  BY DEF Init, Client!Init
<1>2. Answers
  BY <1>1 DEF Answers
<1> QED
  BY <1>1, <1>2, TypesBegin DEF IInv, OneCurrent, Since, CurrentIsOwn, WalksPresent, Settled

LEMMA InvKept == IInv /\ [Next]_vars => IInv'
BY TypesKept, AnswersKept, OneCurrentKept, SinceKept, OwnKept, WalksKept, SettledKept DEF IInv

\* What holds of the workspace at all times, as far as the theorems need it.
THEOREM Invariance == Spec => []IInv
BY InvBegins, InvKept, PTL DEF Spec

\* At rest the tree panel shows the parse of what is on disk, in the buffer
\* and selected, or an error that has occurred (workspace.tsx:203-265).
THEOREM RestShowsPresent == Spec => []ShowsPresent
<1>1. IInv => ShowsPresent
  <2> SUFFICES ASSUME IInv, Quiet, ~touched
               PROVE  LET files == Collected(disk[vfs], currentKsyPath) IN
                      \/ currentKsyPath = Null /\ tree = Null /\ error = Null
                      \/ faults > 0 /\ tree = Null /\ error \in {"worker", "read"}
                      \/ /\ currentKsyPath # Null /\ ~Parses(currentKsyPath, files)
                         /\ tree = Null /\ error = "schema"
                      \/ /\ currentKsyPath # Null /\ Parses(currentKsyPath, files)
                         /\ tree = Result(currentKsyPath, files, buffer) /\ error = Null
    BY DEF ShowsPresent
  <2>1. ~due /\ mounted = Deps /\ (\A g \in gens : g.cancelled) /\ ~Stale /\ client \in Nat
    BY DEF Quiet, Stale, IInv, Types, RpcTypes
  <2>2. /\ mounted.vfs = vfs /\ mounted.ksy = currentKsyPath /\ mounted.version = version
        /\ mounted.client = client
    BY <2>1 DEF Deps
  <2>3. mounted # Null /\ Shown
    BY <2>1 DEF IInv, Types, MountTypes, Settled
  <2> QED
    BY <2>1, <2>2, <2>3 DEF Shown
<1> QED
  BY <1>1, Invariance, PTL

\* The loading flag tells whether a run of the parse effect that may still
\* show a result is under way (workspace.tsx:217-255).
THEOREM LoadingFlag == Spec => []LoadingIsTrue
<1>1. IInv => LoadingIsTrue
  BY DEF IInv, OneCurrent, LoadingIsTrue
<1> QED
  BY <1>1, Invariance, PTL

\* Although all runs share one evaluator, the current one parses with the
\* files it has collected itself (workspace.tsx:229-240).
THEOREM ParsesItsOwn == Spec => []OwnFiles
<1>1. IInv => OwnFiles
  BY DEF IInv, CurrentIsOwn, Own, OwnFiles
<1> QED
  BY <1>1, Invariance, PTL

\* A result that appears is of the schema and the project last rendered, and
\* of the files that the run that is not cancelled has collected
\* (workspace.tsx:237-244).
THEOREM ResultsAreCurrent == Spec => NoStaleResult
<1>1. ASSUME IInv, [Next]_vars, tree' # tree, tree' # Null
      PROVE  /\ tree'.root = mounted.ksy
             /\ \E g \in gens : ~g.cancelled /\ g.vfs = mounted.vfs /\ g.found = tree'.files
  <2>1. PICK g \in gens : GenStep(g)
    <3>1. Render => tree' = tree \/ tree' = Null
      BY DEF Render, ParseEffect, shown
    <3>2. WorkerStep \/ EventStep \/ UNCHANGED vars => tree' = tree
      BY WorkerStepKeeps, EventStepKeeps DEF local, shown, vars
    <3> QED
      BY <1>1, <3>1, <3>2, StepKinds
  <2>2. ShowResult(g) /\ ~g.cancelled /\ tree' = Result(g.root, outcome[g.call], g.bytes)
    BY <1>1, <2>1 DEF GenStep, Continue, Fire, ReadImport, ImportUnreadable, AfterReady, SendLoad,
       SendParse, ShowResult, CallRejected, Become, End, Fail, shown
  <2>3. Own(g)
    BY <1>1, <2>2 DEF IInv, CurrentIsOwn
  <2>4. outcome[g.call] = g.found
    BY <1>1, <2>2, <2>3, OwnAnswer DEF IInv, ShowResult
  <2> QED
    BY <2>2, <2>3, <2>4 DEF Own, Result
<1>2. IInv /\ [Next]_vars => [ResultIsCurrent]_vars
  BY <1>1 DEF ResultIsCurrent
<1> QED
  BY <1>2, Invariance, PTL DEF Spec, NoStaleResult

\* The file marked as analyzed is the one loaded last, in whatever order the
\* files being read arrive (workspace.tsx:311-331).
THEOREM MarkIsTrue == Spec => []MarkedIsLoaded
<1>1. Init => MarkedIsLoaded
  BY ProjectsAssumption DEF Init, MarkedIsLoaded
<1>2. ASSUME MarkedIsLoaded, [Next]_vars
      PROVE  MarkedIsLoaded'
  <2>1. CASE UNCHANGED <<currentBinaryPath, origin>>
    BY <1>2, <2>1 DEF MarkedIsLoaded
  <2>2. ASSUME NEW data, SetBinary(data)
        PROVE  MarkedIsLoaded'
    BY <2>2 DEF SetBinary, MarkedIsLoaded
  <2>3. ASSUME NEW o, BinaryRead(o)
        PROVE  MarkedIsLoaded'
    BY <1>2, <2>3 DEF BinaryRead, ReplaceBuffer, MarkedIsLoaded, bytes
  <2>4. ASSUME NEW p \in Projects, SetProject(p)
        PROVE  MarkedIsLoaded'
    BY <2>4, ProjectsAssumption DEF SetProject, MarkedIsLoaded
  <2>5. Render \/ (\E g \in gens : GenStep(g)) \/ WorkerStep \/ UNCHANGED vars =>
           UNCHANGED <<currentBinaryPath, origin>>
    BY GenStepKeeps, WorkerStepKeeps DEF Render, vars, local, env, project, bytes
  <2>6. CASE EventStep
    BY <2>1, <2>2, <2>3, <2>4, <2>6 DEF EventStep, UserAction, FileRead, SelectKsy, SetCurrentKsyPath,
       SetKsySource, EditBuffer, OpenBinary, ReloadWorker, PanelWrite, project, bytes
  <2> QED
    BY <1>2, <2>1, <2>5, <2>6, StepKinds
<1> QED
  BY <1>1, <1>2, PTL DEF Spec
=============================================================================
