----------------------------- MODULE Workspace -----------------------------
(***************************************************************************)
(* The state that WorkspaceProvider keeps (web/src/state/workspace.tsx):   *)
(* which project, schema and binary are open, the editor's text, and the   *)
(* parse result shown for them.                                            *)
(*                                                                         *)
(* Handlers set state; React then renders and runs the effects whose       *)
(* dependencies changed: after a user's event in the same task, after any  *)
(* other change in a later one.  Each run of the parse effect is a         *)
(* generation: an async function that goes on from await to await until    *)
(* the next run of the effect cancels it.  What an await waits for happens *)
(* in some task; the function goes on before the next task begins.         *)
(***************************************************************************)
EXTENDS Integers, Sequences

CONSTANTS
    Vfs, KsyPath, BinPath,
    Text,       \* contents of KSY files
    PanelText,  \* those that the project panel writes
    Contents,   \* contents of binaries
    NoText,     \* the empty text
    Imports,    \* the paths each text imports, in order
    Invalid,    \* the texts that the evaluator rejects
    Files0,     \* the KSY files of each vfs, to begin with
    Binary,     \* the binaries of each vfs
    Missing,    \* stands for a file that is not there
    Null,       \* the code's null
    Project0, Projects,  \* the first project, those that may be opened later
    Contents0,  \* the buffer to begin with
    ParseCall, Loaded, Unanswered, Failed,  \* as in RpcService
    MaxEvents   \* bound: user's events, failed reads and worker errors, all in all

File == Text \cup {Missing}
NoFiles == [p \in {} |-> NoText]
FileSet == UNION {[S -> Text] : S \in SUBSET KsyPath}
KsyPathOrNull == KsyPath \cup {Null}
Dependencies == [vfs : Vfs, ksy : KsyPathOrNull, source : Text \cup {NoText}, version : Nat, client : Nat]

ASSUME ProjectsAssumption ==
    /\ Imports \in [Text -> Seq(KsyPath)] /\ PanelText \subseteq Text
    /\ Files0 \in [Vfs -> [KsyPath -> File]]
    /\ Binary \in [Vfs -> [BinPath -> Contents \cup {Missing}]] /\ Contents0 \in Contents
    /\ \A p \in Projects \cup {Project0} :  \* none opens a binary
          p.vfs \in Vfs /\ p.currentKsyPath \in KsyPathOrNull /\ p.currentBinaryPath = Null
    /\ MaxEvents \in Nat
ASSUME DistinctAssumption ==
    /\ Missing \notin Text \cup Contents
    /\ Null \notin KsyPath \cup BinPath \cup Dependencies \cup (Vfs \X KsyPathOrNull)
    /\ ParseCall \notin FileSet
    /\ {Loaded, Unanswered, Failed} \cap FileSet = {}
    /\ Unanswered # Failed /\ Loaded \notin {Unanswered, Failed}

VARIABLES
    disk,       \* what the virtual file systems hold
    vfs, currentKsyPath, editorKsyPath, currentBinaryPath,
    ksySource,  \* the editor's text
    buffer,     \* the bytes of the piece table
    version,    \* its version, which bufferVersion follows
    tree,       \* the parse result shown, or Null
    error,      \* the error shown, or Null
    loading,
    client,     \* which EvalClient is in use; clientVersion
    ready,      \* the state of each client's readyPromise
    calls, outcome,  \* of the client in use, as in RpcService
    mounted,    \* the dependencies of the parse effect's last run
    mirrored,   \* those of the effect that reads the editor's file
    reads,      \* the results that effect still waits for
    gens,       \* the generations that have not ended
    opening,    \* the binary files being read
    due,        \* a user's event has to be rendered in its task
    events, faults,
    touched,    \* history: another panel has written files since mounted
    origin      \* history: the path whose file the buffer was loaded from

project == <<vfs, currentKsyPath, currentBinaryPath>>
shown == <<tree, error, loading>>
rpc == <<client, ready, calls, outcome>>
effects == <<mounted, mirrored, reads>>
bytes == <<buffer, version, origin>>
vars == <<disk, project, editorKsyPath, ksySource, bytes, shown, rpc, effects, gens,
          opening, due, events, faults, touched>>

\* The evaluator is taken not to exit.
Client == INSTANCE RpcService WITH Parse <- ParseCall, Lost <- "lost", exit <- 0

-----------------------------------------------------------------------------
(* What a parse shows.                                                     *)

\* The files an import walk collects: the existing ones in every set that
\* holds the root and what its members import.
Closed(files, S) == \A p \in S : files[p] # Missing => \A i \in DOMAIN Imports[files[p]] :
                                                            Imports[files[p]][i] \in S
Reached(files, root) == {p \in KsyPath : \A S \in SUBSET KsyPath :
                                            root \in S /\ Closed(files, S) => p \in S}
Collected(files, root) == [p \in {q \in Reached(files, root) : files[q] # Missing} |-> files[p]]

\* A parse fails without its root or with a text that is no schema.
Parses(root, files) == root \in DOMAIN files /\ \A p \in DOMAIN files : files[p] \notin Invalid
Result(root, files, data) == [root |-> root, files |-> files, bytes |-> data]

-----------------------------------------------------------------------------
(* Tasks.                                                                  *)

Rejected(g) == \/ g.client # client
               \/ g.client = client /\ outcome[g.call] = Failed

\* What the generation awaits has happened.
Runnable(g) == \/ g.phase = "ready" /\ ready[g.client] # "pending"
               \/ g.phase = "walk" /\ g.todo = <<>>
               \/ g.phase \in {"load", "parse"} /\ Rejected(g)
               \/ g.phase \in {"load", "parse"} /\ g.client = client /\ outcome[g.call] # Unanswered

NewTask == ~due /\ \A g \in gens : ~Runnable(g)

-----------------------------------------------------------------------------
(* Rendering.                                                              *)

Deps == [vfs |-> vfs, ksy |-> currentKsyPath, source |-> ksySource,
         version |-> version, client |-> client]
EditorDeps == <<vfs, editorKsyPath>>

\* Cleanup stops a timer; a generation past it finds out at its next check.
Cancelled == {[g EXCEPT !.cancelled = TRUE] : g \in {h \in gens : h.phase # "timer"}}
Generation == [vfs |-> vfs, root |-> currentKsyPath, cancelled |-> FALSE, phase |-> "timer",
               client |-> 0, todo |-> <<>>, found |-> NoFiles, call |-> 0, bytes |-> Null]

\* Faulty variant: the generation is not cancelled.
UncancelledParseEffect ==
    \/ /\ mounted = Deps
       /\ UNCHANGED <<mounted, gens, shown, touched>>
    \/ /\ mounted # Deps
       /\ mounted' = Deps
       /\ touched' = FALSE
       /\ \/ /\ currentKsyPath = Null
             /\ gens' = gens
             /\ tree' = Null /\ error' = Null /\ loading' = FALSE
          \/ /\ currentKsyPath # Null
             /\ gens' = gens \cup {Generation}
             /\ loading' = TRUE
             /\ UNCHANGED <<tree, error>>

ParseEffect ==
    \/ /\ mounted = Deps
       /\ UNCHANGED <<mounted, gens, shown, touched>>
    \/ /\ mounted # Deps
       /\ mounted' = Deps
       /\ touched' = FALSE
       /\ \/ /\ currentKsyPath = Null
             /\ gens' = Cancelled
             /\ tree' = Null /\ error' = Null /\ loading' = FALSE
          \/ /\ currentKsyPath # Null
             /\ gens' = Cancelled \cup {Generation}
             /\ loading' = TRUE
             /\ UNCHANGED <<tree, error>>

EditorEffect ==
    \/ /\ mirrored = EditorDeps
       /\ UNCHANGED <<mirrored, reads, ksySource>>
    \/ /\ mirrored # EditorDeps
       /\ mirrored' = EditorDeps
       /\ \/ /\ editorKsyPath = Null
             /\ reads' = {} /\ ksySource' = NoText
          \/ /\ editorKsyPath # Null
             /\ reads' = {disk[vfs][editorKsyPath]}
             /\ UNCHANGED ksySource

Render == /\ due \/ NewTask
          /\ due \/ mounted # Deps \/ mirrored # EditorDeps
          /\ ParseEffect /\ EditorEffect
          /\ due' = FALSE
          /\ UNCHANGED <<disk, project, editorKsyPath, bytes, rpc, opening, events, faults>>

\* The editor's file has been read; an error leaves the editor empty.
FileRead(text) ==
    /\ NewTask
    /\ text \in reads
    /\ reads' = reads \ {text}
    /\ ksySource' = IF text = Missing THEN NoText ELSE text
    /\ UNCHANGED <<disk, project, editorKsyPath, bytes, shown, rpc, mounted, mirrored, gens,
                   opening, due, events, faults, touched>>

-----------------------------------------------------------------------------
(* A generation, from await to await.                                      *)

env == <<disk, project, editorKsyPath, ksySource, bytes, effects, opening, due, events, touched>>

Become(g, h) == gens' = (gens \ {g}) \cup {h} /\ UNCHANGED shown
End(g) == gens' = gens \ {g} /\ UNCHANGED shown
\* Faulty variant: the loading flag stays.
FailStillLoading(g, why) == /\ gens' = gens \ {g}
                            /\ IF g.cancelled THEN UNCHANGED shown
                               ELSE error' = why /\ tree' = Null /\ loading' = loading
Fail(g, why) == /\ gens' = gens \ {g}
                /\ IF g.cancelled THEN UNCHANGED shown
                   ELSE error' = why /\ tree' = Null /\ loading' = FALSE

Fire(g) == /\ NewTask /\ g.phase = "timer"
           /\ Become(g, [g EXCEPT !.phase = "ready", !.client = client])
           /\ UNCHANGED <<env, rpc, faults>>

AfterReady(g) ==
    /\ g.phase = "ready"
    /\ \/ ready[g.client] = "rejected" /\ Fail(g, "worker")
       \/ ready[g.client] = "resolved" /\ g.cancelled /\ End(g)
       \/ /\ ready[g.client] = "resolved" /\ ~g.cancelled
          /\ Become(g, [g EXCEPT !.phase = "walk", !.todo = <<g.root>>])
    /\ UNCHANGED <<env, rpc, faults>>

\* collectImportGraph, depth first; a file that is not found is passed over.
ReadImport(g) ==
    LET p == Head(g.todo)
        text == disk[g.vfs][p] IN
    /\ NewTask /\ g.phase = "walk" /\ g.todo # <<>>
    /\ \/ /\ text = Missing \/ p \in DOMAIN g.found
          /\ Become(g, [g EXCEPT !.todo = Tail(@)])
       \/ /\ text # Missing /\ p \notin DOMAIN g.found
          /\ Become(g, [g EXCEPT !.todo = Imports[text] \o Tail(@),
                                 !.found = [q \in DOMAIN @ \cup {p} |->
                                               IF q = p THEN text ELSE @[q]]])
    /\ UNCHANGED <<env, rpc, faults>>

ImportUnreadable(g) ==
    /\ g.phase = "walk" /\ g.todo # <<>>
    /\ NewTask /\ events + faults < MaxEvents
    /\ faults' = faults + 1
    /\ Fail(g, "read")
    /\ UNCHANGED <<env, rpc>>

\* Faulty variant: not checked whether the generation is cancelled.
SendLoadRegardless(g) ==
    /\ g.phase = "walk" /\ g.todo = <<>>
    /\ \/ /\ g.client # client
          /\ Fail(g, "worker")
          /\ UNCHANGED rpc
       \/ /\ g.client = client
          /\ Client!Issue(g.found)
          /\ Become(g, [g EXCEPT !.phase = "load", !.call = Len(calls) + 1])
          /\ UNCHANGED <<client, ready>>
    /\ UNCHANGED <<env, faults>>

\* The call of a terminated client is rejected at once.
SendLoad(g) ==
    /\ g.phase = "walk" /\ g.todo = <<>>
    /\ \/ /\ g.cancelled
          /\ End(g)
          /\ UNCHANGED rpc
       \/ /\ ~g.cancelled /\ g.client # client
          /\ Fail(g, "worker")
          /\ UNCHANGED rpc
       \/ /\ ~g.cancelled /\ g.client = client
          /\ Client!Issue(g.found)
          /\ Become(g, [g EXCEPT !.phase = "load", !.call = Len(calls) + 1])
          /\ UNCHANGED <<client, ready>>
    /\ UNCHANGED <<env, faults>>

CallRejected(g) == /\ g.phase \in {"load", "parse"} /\ Rejected(g)
                   /\ Fail(g, "worker")
                   /\ UNCHANGED <<env, rpc, faults>>

\* The bytes are those of the buffer now, not of the render.
SendParse(g) ==
    /\ g.phase = "load" /\ ~Rejected(g) /\ outcome[g.call] # Unanswered
    /\ \/ g.cancelled /\ End(g) /\ UNCHANGED rpc
       \/ /\ ~g.cancelled
          /\ Client!Issue(ParseCall)
          /\ Become(g, [g EXCEPT !.phase = "parse", !.call = Len(calls) + 1, !.bytes = buffer])
          /\ UNCHANGED <<client, ready>>
    /\ UNCHANGED <<env, faults>>

\* Faulty variant: not checked whether the generation is cancelled.
ShowAnyResult(g) ==
    /\ g.phase = "parse" /\ ~Rejected(g) /\ outcome[g.call] # Unanswered
    /\ gens' = gens \ {g}
    /\ \/ /\ Parses(g.root, outcome[g.call])
          /\ tree' = Result(g.root, outcome[g.call], g.bytes) /\ error' = Null
       \/ /\ ~Parses(g.root, outcome[g.call])
          /\ tree' = Null /\ error' = "schema"
    /\ loading' = FALSE
    /\ UNCHANGED <<env, rpc, faults>>

ShowResult(g) ==
    /\ g.phase = "parse" /\ ~Rejected(g) /\ outcome[g.call] # Unanswered
    /\ \/ g.cancelled /\ End(g)
       \/ /\ ~g.cancelled /\ ~Parses(g.root, outcome[g.call])
          /\ Fail(g, "schema")
       \/ /\ ~g.cancelled /\ Parses(g.root, outcome[g.call])
          /\ gens' = gens \ {g}
          /\ tree' = Result(g.root, outcome[g.call], g.bytes)
          /\ error' = Null /\ loading' = FALSE
    /\ UNCHANGED <<env, rpc, faults>>

Continue(g) == AfterReady(g) \/ SendLoad(g) \/ SendParse(g) \/ ShowResult(g) \/ CallRejected(g)

-----------------------------------------------------------------------------
(* The client in use: it behaves like RpcService.                          *)

\* All but what the client changes.
local == <<env, shown, client, gens>>

Boot == /\ NewTask
        /\ ready[client] = "pending"
        /\ ready' = [ready EXCEPT ![client] = "resolved"]
        /\ UNCHANGED <<local, calls, outcome, faults>>

\* A boot error or an error event.
WorkerError == /\ NewTask /\ events + faults < MaxEvents
               /\ faults' = faults + 1
               /\ ready' = [ready EXCEPT ![client] = IF @ = "pending" THEN "rejected" ELSE @]
               /\ Client!Fail
               /\ UNCHANGED local

Answer == /\ NewTask
          /\ \E k \in DOMAIN calls : Client!Reply(k)
          /\ UNCHANGED <<local, ready, faults>>

-----------------------------------------------------------------------------
(* Events.  User's events find what was rendered last: mounted, mirrored.  *)

Event == NewTask /\ events + faults < MaxEvents /\ events' = events + 1
UserEvent == Event /\ due' = TRUE

\* A click on a schema in the project panel.
SelectKsy(p) ==
    /\ UserEvent
    /\ editorKsyPath' = p
    /\ currentKsyPath' = IF mounted.ksy = Null THEN p ELSE currentKsyPath
    /\ UNCHANGED <<disk, vfs, currentBinaryPath, ksySource, bytes, shown, rpc, effects, gens,
                   opening, faults, touched>>

\* "Make Current" in the project panel.
SetCurrentKsyPath(p) ==
    /\ UserEvent
    /\ p # mounted.ksy
    /\ currentKsyPath' = p
    /\ UNCHANGED <<disk, vfs, editorKsyPath, currentBinaryPath, ksySource, bytes, shown, rpc,
                   effects, gens, opening, faults, touched>>

\* The editor reports text other than what it was given.  Writing is over
\* before any other event, both file systems being in memory there.
SetKsySource(text) ==
    /\ UserEvent
    /\ mirrored[2] # Null /\ text # mounted.source
    /\ ksySource' = text
    /\ disk' = [disk EXCEPT ![mirrored[1]][mirrored[2]] = text]
    /\ UNCHANGED <<project, editorKsyPath, bytes, shown, rpc, effects, gens, opening, faults,
                   touched>>

\* A key in the hex editor.
EditBuffer(data) ==
    /\ UserEvent
    /\ buffer' = data /\ version' = version + 1
    /\ UNCHANGED <<disk, project, editorKsyPath, ksySource, origin, shown, rpc, effects, gens,
                   opening, faults, touched>>

ReplaceBuffer(data, from) ==
    /\ buffer' = data /\ version' = version + 1
    /\ origin' = from

\* A dropped file, read before the handler is called.
SetBinary(data) ==
    /\ Event
    /\ currentBinaryPath' = Null
    /\ ReplaceBuffer(data, Null)
    /\ UNCHANGED <<disk, vfs, currentKsyPath, editorKsyPath, ksySource, shown, rpc, effects,
                   gens, opening, due, faults, touched>>

\* Faulty variant: the path is set before the file is read.
OpenBinaryEagerly(p) ==
    /\ UserEvent
    /\ opening' = opening \cup {[path |-> p, data |-> Binary[mounted.vfs][p]]}
    /\ currentBinaryPath' = p
    /\ UNCHANGED <<disk, vfs, currentKsyPath, editorKsyPath, ksySource, bytes, shown, rpc,
                   effects, gens, faults, touched>>

OpenBinary(p) ==
    /\ UserEvent
    /\ opening' = opening \cup {[path |-> p, data |-> Binary[mounted.vfs][p]]}
    /\ UNCHANGED <<disk, project, editorKsyPath, ksySource, bytes, shown, rpc, effects, gens,
                   faults, touched>>

BinaryRead(o) ==
    /\ NewTask
    /\ o \in opening
    /\ opening' = opening \ {o}
    /\ \/ /\ o.data = Missing
          /\ UNCHANGED <<currentBinaryPath, bytes>>
       \/ /\ o.data # Missing
          /\ ReplaceBuffer(o.data, o.path)
          /\ currentBinaryPath' = o.path
    /\ UNCHANGED <<disk, vfs, currentKsyPath, editorKsyPath, ksySource, shown, rpc, effects,
                   gens, due, events, faults, touched>>

\* A repository has been fetched.
SetProject(p) ==
    /\ Event
    /\ vfs' = p.vfs
    /\ currentKsyPath' = p.currentKsyPath
    /\ editorKsyPath' = p.currentKsyPath
    /\ currentBinaryPath' = p.currentBinaryPath
    /\ UNCHANGED <<disk, ksySource, bytes, shown, rpc, effects, gens, opening, due, faults,
                   touched>>

\* Faulty variant: clientVersion stays.
ReloadUnnoticed ==
    /\ UserEvent
    /\ client' = client + 1
    /\ ready' = Append(ready, "pending")
    /\ calls' = <<>> /\ outcome' = <<>>
    /\ mounted' = [mounted EXCEPT !.client = client']
    /\ UNCHANGED <<disk, project, editorKsyPath, ksySource, bytes, shown, mirrored, reads, gens,
                   opening, faults, touched>>

\* The old client's calls are rejected: see Rejected.
ReloadWorker ==
    /\ UserEvent
    /\ client' = client + 1
    /\ ready' = Append(ready, "pending")
    /\ calls' = <<>> /\ outcome' = <<>>
    /\ UNCHANGED <<disk, project, editorKsyPath, ksySource, bytes, shown, effects, gens,
                   opening, faults, touched>>

\* The project panel creates, overwrites or deletes a file.
PanelWrite(p, file) ==
    /\ UserEvent
    /\ disk' = [disk EXCEPT ![mounted.vfs][p] = file]
    /\ touched' = TRUE
    /\ UNCHANGED <<project, editorKsyPath, ksySource, bytes, shown, rpc, effects, gens, opening,
                   faults>>

-----------------------------------------------------------------------------
Init ==
    /\ disk = Files0
    /\ vfs = Project0.vfs
    /\ currentKsyPath = Project0.currentKsyPath
    /\ editorKsyPath = Project0.currentKsyPath
    /\ currentBinaryPath = Project0.currentBinaryPath
    /\ ksySource = NoText
    /\ buffer = Contents0 /\ version = 0 /\ origin = Null
    /\ tree = Null /\ error = Null /\ loading = TRUE
    /\ client = 1 /\ ready = <<"pending">> /\ Client!Init
    /\ mounted = Null /\ mirrored = Null /\ reads = {}
    /\ gens = {} /\ opening = {}
    /\ due = TRUE
    /\ events = 0 /\ faults = 0
    /\ touched = FALSE

Callback == \/ Render
            \/ \E text \in reads : FileRead(text)
            \/ \E o \in opening : BinaryRead(o)
            \/ \E g \in gens : Continue(g) \/ Fire(g) \/ ReadImport(g)
            \/ Boot \/ Answer
UserAction == \/ \E p \in KsyPath : SelectKsy(p) \/ SetCurrentKsyPath(p)
              \/ \E text \in Text : SetKsySource(text)
              \/ \E data \in Contents : EditBuffer(data) \/ SetBinary(data)
              \/ \E p \in BinPath : OpenBinary(p)
              \/ \E p \in Projects : SetProject(p)
              \/ ReloadWorker
              \/ \E p \in KsyPath, file \in PanelText \cup {Missing} : PanelWrite(p, file)
Fault == WorkerError \/ \E g \in gens : ImportUnreadable(g)

Next == Callback \/ UserAction \/ Fault
Spec == Init /\ [][Next]_vars /\ WF_vars(Callback)

-----------------------------------------------------------------------------
(* Properties.                                                             *)

\* Nothing is under way: what is shown is to stay.
Quiet == ~due /\ mounted = Deps /\ \A g \in gens : g.cancelled

\* At rest the tree panel shows the parse of what is now on disk, in the
\* buffer and selected, whatever overlapped on the way there; or an error
\* that has occurred.  Files written by other panels are the exception:
\* the parse effect does not watch them.
ShowsPresent ==
    Quiet /\ ~touched =>
        LET files == Collected(disk[vfs], currentKsyPath) IN
        \/ currentKsyPath = Null /\ tree = Null /\ error = Null
        \/ faults > 0 /\ tree = Null /\ error \in {"worker", "read"}
        \/ /\ currentKsyPath # Null /\ ~Parses(currentKsyPath, files)
           /\ tree = Null /\ error = "schema"
        \/ /\ currentKsyPath # Null /\ Parses(currentKsyPath, files)
           /\ tree = Result(currentKsyPath, files, buffer) /\ error = Null

\* The loading flag tells whether a generation that may still show a result
\* is under way.
LoadingIsTrue == mounted # Null => (loading <=> \E g \in gens : ~g.cancelled)

\* Generations share one evaluator; still each one parses with the files it
\* has collected itself.
OwnFiles == \A g \in gens : g.phase = "parse" /\ ~g.cancelled /\ g.client = client
                               => Client!FilesAt(g.call) = g.found

\* The file marked as the one analyzed is the one that was loaded last, even
\* if several were being read at once.
MarkedIsLoaded == currentBinaryPath # Null => origin = currentBinaryPath

\* A result that appears is one for the schema and project last rendered.
\* ResultIsCurrent says it of a step, NoStaleResult of all of them.
ResultIsCurrent ==
    tree' # tree /\ tree' # Null =>
       /\ tree'.root = mounted.ksy
       /\ \E g \in gens : ~g.cancelled /\ g.vfs = mounted.vfs /\ g.found = tree'.files
NoStaleResult == [][ResultIsCurrent]_vars

\* Every generation comes to an end: the panel does not load forever.
LoadingEnds == []<>~loading
=============================================================================
