------------------------ MODULE LazyTreeDirtyProofs ------------------------
(***************************************************************************)
(* Theorems about the edits of LazyTree, when only the whole tree is       *)
(* invalidated (Tree.Invalidate, Tree.SetStream): the dependency edges     *)
(* mirror each other and name what expressions refer to, no edit leaves a  *)
(* stale dependent behind or disturbs what is unrelated, and what a caller *)
(* reads after edits is what a fresh resolution would read.                *)
(***************************************************************************)
EXTENDS LazyTreeProofs

\* The inductive form of NoStaleDependent: an unresolved node has no edges
\* left, and an activation has read what it depends on or waits for it.
DepsSettled ==
    /\ \A n \in Node : state[n] = "unresolved" => deps[n] = {}
    /\ NoStaleDependent
    /\ \A k \in DOMAIN frames : \A m \in deps[frames[k].node] :
          state[m] = "resolved" \/ (frames[k].pc \in EvalPc /\ Waits(frames[k], m))

-----------------------------------------------------------------------------
(* The dependency graph.                                                   *)

LEMMA EdgesInit == Init => EdgesMirror /\ DepsSettled
BY DEF Init, EdgesMirror, DepsSettled, NoStaleDependent

\* markDirty reaches every dependent of what it reaches.
LEMMA ReachedClosed ==
    ASSUME TypeOK, NEW S \in SUBSET Node
    PROVE  LET D == Reached(S) IN
             /\ S \subseteq D
             /\ D \subseteq Node
             /\ \A m \in D : rdeps[m] \subseteq D
BY DEF Reached, TypeOK

\* Cutting the forward edges of D keeps the two directions in step.
LEMMA CutMirror ==
    ASSUME TypeOK, EdgesMirror, NEW D, CutEdges(D)
    PROVE  /\ EdgesMirror'
           /\ \A n \in Node : deps'[n] = IF n \in D THEN {} ELSE deps[n]
BY DEF CutEdges, EdgesMirror, TypeOK

\* A member access adds the edge in both directions.
LEMMA RecordMirror ==
    ASSUME TypeOK, EdgesMirror, Top.node \in Node, NEW r \in Ref, RecordDep(r)
    PROVE  /\ EdgesMirror'
           /\ \A n \in Node \ {Top.node} : deps'[n] = deps[n]
           /\ deps'[Top.node] \subseteq deps[Top.node] \cup {r.node}
<1>1. r.node \in Node
  BY DEF Ref, Node
<1>2. CASE UNCHANGED <<deps, rdeps>>
  BY <1>2 DEF EdgesMirror
<1>3. CASE /\ deps' = [deps EXCEPT ![Top.node] = @ \cup {r.node}]
           /\ rdeps' = [rdeps EXCEPT ![r.node] = @ \cup {Top.node}]
  <2>1. \A n \in Node : deps'[n] = IF n = Top.node THEN deps[n] \cup {r.node} ELSE deps[n]
    BY <1>3 DEF TypeOK
  <2>2. \A n \in Node : rdeps'[n] = IF n = r.node THEN rdeps[n] \cup {Top.node} ELSE rdeps[n]
    BY <1>1, <1>3 DEF TypeOK
  <2>3. ASSUME NEW m \in Node, NEW n \in Node
        PROVE  m \in deps'[n] <=> n \in rdeps'[m]
    <3>1. m \in deps[n] <=> n \in rdeps[m]
      BY DEF EdgesMirror
    <3>2. m \in deps'[n] <=> m \in deps[n] \/ (n = Top.node /\ m = r.node)
      BY <2>1
    <3>3. n \in rdeps'[m] <=> n \in rdeps[m] \/ (n = Top.node /\ m = r.node)
      BY <2>2
    <3> QED
      BY <3>1, <3>2, <3>3
  <2> QED
    BY <2>1, <2>3 DEF EdgesMirror
<1> QED
  BY <1>2, <1>3 DEF RecordDep, edges

LEMMA ResolveMirror ==
    ASSUME TypeOK, StackDiscipline, EdgesMirror, Resolve
    PROVE  EdgesMirror'
<1>1. CASE EvaluateReference
  <2>1. ~Idle /\ HasNextRef /\ Top.pc # "root" /\ RecordDep(NextRef)
    BY <1>1 DEF EvaluateReference, HasNextRef, Evaluating, EvalPc
  <2> QED
    BY <2>1, FieldType, NextRefType, TopState, RecordMirror
<1>2. CASE UNCHANGED edges
  BY <1>2 DEF edges, EdgesMirror
<1>3. UNCHANGED edges \/ EvaluateReference
  BY DEF Resolve, ResolveRoot, FindPosition, AfterPredecessor, SkipCondition, ExceedDepth,
         FinishCondition, ReadByte, ReadSized, ComputeValue, EnsureSibling, AfterSibling,
         ReadInstance
<1> QED
  BY <1>1, <1>2, <1>3

LEMMA CallersMirror ==
    ASSUME TypeOK, EdgesMirror, Invalidatable \subseteq {Root}
    PROVE  /\ \A n \in Node : Access(n) => EdgesMirror'
           /\ \A n \in Dirtiable : MarkDirty(n) => EdgesMirror'
           /\ \A n \in Dirtiable, v \in EditValues : SetValue(n, v) => EdgesMirror'
           /\ \A n \in Invalidatable : Invalidate(n) => EdgesMirror'
<1>1. \A n \in Node : Access(n) => EdgesMirror'
  BY DEF Access, edges, EdgesMirror
<1>2. ASSUME NEW n \in Dirtiable, MarkDirty(n) PROVE EdgesMirror'
  BY <1>2, CutMirror DEF MarkDirty
<1>3. ASSUME NEW n \in Dirtiable, NEW v \in EditValues, SetValue(n, v) PROVE EdgesMirror'
  BY <1>3, CutMirror DEF SetValue
<1>4. ASSUME NEW n \in Invalidatable, Invalidate(n) PROVE EdgesMirror'
  <2>1. n = Root
    BY <1>4
  <2>2. deps' = Cleared(deps, Node, {}) /\ rdeps' = Cleared(rdeps, Node, {})
    BY <1>4, <2>1 DEF Invalidate
  <2> QED
    BY <2>2 DEF Cleared, EdgesMirror
<1> QED
  BY <1>1, <1>2, <1>3, <1>4

\* deps and rdeps stay the two directions of one graph, through every
\* resolution, failed ones included, and every edit.
THEOREM EdgesMirrored ==
    ASSUME Invalidatable \subseteq {Root}
    PROVE  Spec => []EdgesMirror
<1>1. TypeOK /\ StackDiscipline /\ EdgesMirror /\ [Next]_vars => EdgesMirror'
  <2>1. UNCHANGED vars /\ EdgesMirror => EdgesMirror'
    BY DEF vars, EdgesMirror
  <2> QED
    BY <2>1, ResolveMirror, CallersMirror DEF Next
<1> QED
  BY EdgesInit, TypeCorrect, StackSafe, <1>1, PTL DEF Spec
-----------------------------------------------------------------------------
(* No stale dependent: the steps of resolve.                               *)

\* What the movements have in common: edges are added to the running
\* activation's node only, and an entry of the new stack is an old one below
\* the top, a fresh one, or the top one with its dependencies read or awaited.
LEMMA SettleStep ==
    ASSUME TypeOK, ~Idle, StackDiscipline, DepsSettled, UNCHANGED schema, Kept,
           \A n \in Node : state'[n] = "unresolved" => state[n] = "unresolved",
           \A n \in Node \ {Top.node} : deps'[n] = deps[n],
           \A n \in Node \ edited' : state'[n] = "resolved" =>
              \/ state[n] = "resolved" /\ n \notin edited
              \/ n = Top.node /\ \A m \in deps'[n] : state'[m] = "resolved",
           \A k \in DOMAIN frames' :
              \/ k \in 1 .. Len(frames) - 1 /\ frames'[k] = frames[k]
              \/ deps'[frames'[k].node] = {}
              \/ /\ frames'[k].node = Top.node
                 /\ \A m \in deps'[Top.node] :
                      \/ state'[m] = "resolved"
                      \/ frames'[k].pc \in EvalPc /\ Waits(frames'[k], m),
           deps' \in [Node -> SUBSET Node]
    PROVE  DepsSettled'
<1> PICK l \in Nat \ {0} : /\ l = Len(frames)
                          /\ DOMAIN frames = 1 .. l
                          /\ Top = frames[l]
                          /\ \A k \in 1 .. l : frames[k] \in Frame /\ frames[k].node \in Node
  BY StackType
<1>1. Top.node \in Node /\ state[Top.node] \in {"resolving", "error"}
  BY TopState
<1>2. ASSUME NEW n \in Node, state'[n] = "unresolved" PROVE deps'[n] = {}
  BY <1>1, <1>2 DEF DepsSettled
<1>3. NoStaleDependent'
  <2> SUFFICES ASSUME NEW n \in Node \ edited', state'[n] = "resolved", NEW m \in deps'[n]
               PROVE  state'[m] = "resolved"
    BY DEF NoStaleDependent
  <2>1. CASE state[n] = "resolved" /\ n \notin edited
    <3>1. deps'[n] = deps[n] /\ m \in Node
      BY <1>1, <2>1
    <3>2. state[m] = "resolved"
      BY <2>1, <3>1 DEF DepsSettled, NoStaleDependent
    <3> QED
      BY <3>1, <3>2 DEF Kept
  <2> QED
    BY <2>1
<1>4. ASSUME NEW k \in DOMAIN frames', NEW m \in deps'[frames'[k].node]
      PROVE  state'[m] = "resolved" \/ (frames'[k].pc \in EvalPc /\ Waits(frames'[k], m))
  <2>1. CASE k \in 1 .. l - 1 /\ frames'[k] = frames[k]
    <3>1. k \in 1 .. l /\ k # l /\ frames[k].node \in Node
      BY <2>1
    <3>2. frames[k].node # Top.node
      BY <3>1 DEF StackDiscipline, Distinct
    <3>3. m \in deps[frames[k].node] /\ m \in Node
      BY <2>1, <3>1, <3>2
    <3>4. state[m] = "resolved" \/ (frames[k].pc \in EvalPc /\ Waits(frames[k], m))
      BY <3>1, <3>3 DEF DepsSettled
    <3> QED
      BY <2>1, <3>3, <3>4 DEF Kept
  <2> QED
    BY <1>4, <2>1
<1> QED
  BY <1>2, <1>3, <1>4, WaitsNext DEF DepsSettled

\* The dependencies of the running activation.
LEMMA TopDeps ==
    ASSUME TypeOK, ~Idle, DepsSettled
    PROVE  \A m \in deps[Top.node] :
              state[m] = "resolved" \/ (Top.pc \in EvalPc /\ Waits(Top, m))
BY TopType DEF DepsSettled, Top

LEMMA SettleAdvance ==
    ASSUME TypeOK, ~Idle, StackDiscipline, DepsSettled, Kept, UNCHANGED <<schema, state, edited>>,
           frames' \in Seq(Frame), Len(frames') = Len(frames),
           \A k \in 1 .. Len(frames) - 1 : frames'[k] = frames[k],
           frames'[Len(frames)].node = Top.node,
           deps' \in [Node -> SUBSET Node],
           \A n \in Node \ {Top.node} : deps'[n] = deps[n],
           \A m \in deps'[Top.node] : state[m] = "resolved"
    PROVE  DepsSettled'
<1>1. Len(frames) \in Nat \ {0}
  BY TopType
<1>2. \A k \in DOMAIN frames' : k \in 1 .. Len(frames) - 1 \/ k = Len(frames)
  BY <1>1
<1>3. \A n \in Node \ edited' : state'[n] = "resolved" => state[n] = "resolved" /\ n \notin edited
  OBVIOUS
<1>4. \A k \in DOMAIN frames' :
         \/ k \in 1 .. Len(frames) - 1 /\ frames'[k] = frames[k]
         \/ frames'[k].node = Top.node /\ \A m \in deps'[Top.node] : state'[m] = "resolved"
  BY <1>2
<1> QED
  BY <1>3, <1>4, SettleStep

LEMMA SettleGoto ==
    ASSUME TypeOK, ~Idle, StackDiscipline, DepsSettled, Kept,
           UNCHANGED <<schema, state, edited, edges>>, NEW pc \in Pc, Goto(pc),
           Top.pc \in EvalPc => \A m : ~Waits(Top, m)
    PROVE  DepsSettled'
<1>1. \A m \in deps[Top.node] : state[m] = "resolved"
  BY TopDeps
<1>2. frames'[Len(frames)].node = Top.node
  <2>1. FrameOf(Top.node, pc, 1, 0).node = Top.node
    BY DEF FrameOf
  <2> QED
    BY <2>1, GotoFrames
<1>3. deps' = deps /\ deps \in [Node -> SUBSET Node]
  BY DEF edges, TypeOK
<1> QED
  BY <1>1, <1>2, <1>3, GotoFrames, SettleAdvance

LEMMA SettlePop ==
    ASSUME TypeOK, ~Idle, StackDiscipline, DepsSettled, Kept, UNCHANGED <<schema, edited>>,
           NEW m \in Node, NEW outcome \in {"resolved", "error"},
           frames' = SubSeq(frames, 1, Len(frames) - 1),
           state' = [state EXCEPT ![m] = outcome, ![Top.node] = outcome],
           deps' \in [Node -> SUBSET Node],
           \A n \in Node \ {Top.node} : deps'[n] = deps[n],
           outcome = "resolved" => /\ m = Top.node /\ UNCHANGED edges
                                   /\ \A n : ~Waits(Top, n)
    PROVE  DepsSettled'
<1>1. \A n \in Node : state'[n] = IF n \in {m, Top.node} THEN outcome ELSE state[n]
  BY TopState DEF TypeOK
<1>2. \A k \in DOMAIN frames' : k \in 1 .. Len(frames) - 1 /\ frames'[k] = frames[k]
  BY PopFrames
<1>3. \A n \in Node : state'[n] = "unresolved" => state[n] = "unresolved"
  BY <1>1
<1>4. ASSUME NEW n \in Node \ edited', state'[n] = "resolved"
      PROVE  \/ state[n] = "resolved" /\ n \notin edited
             \/ n = Top.node /\ \A x \in deps'[n] : state'[x] = "resolved"
  <2>1. CASE outcome = "resolved" /\ n = Top.node
    <3>1. \A x \in deps[Top.node] : state[x] = "resolved" /\ x \in Node
      BY <2>1, TopDeps, TopState DEF TypeOK
    <3> QED
      BY <2>1, <3>1 DEF Kept, edges
  <2>2. CASE ~(outcome = "resolved" /\ n = Top.node)
    BY <1>1, <1>4, <2>2
  <2> QED
    BY <2>1, <2>2
<1> QED
  BY <1>2, <1>3, <1>4, SettleStep
LEMMA SettleReturn ==
    ASSUME TypeOK, ~Idle, StackDiscipline, DepsSettled, Kept, UNCHANGED <<schema, edges>>,
           NEW outcome \in {"resolved", "error"}, Return(outcome),
           outcome = "resolved" => \A n : ~Waits(Top, n)
    PROVE  DepsSettled'
<1>1. state' = [state EXCEPT ![Top.node] = outcome, ![Top.node] = outcome]
  BY TopState DEF Return, TypeOK
<1>2. frames' = SubSeq(frames, 1, Len(frames) - 1) /\ UNCHANGED edited
  BY DEF Return
<1>3. deps' = deps /\ deps \in [Node -> SUBSET Node]
  BY DEF edges, TypeOK
<1> QED
  BY <1>1, <1>2, <1>3, TopState, SettlePop

LEMMA SettleReadAt ==
    ASSUME TypeOK, ~Idle, StackDiscipline, DepsSettled, Kept, UNCHANGED <<schema, edges>>,
           NEW n, NEW at, NEW len, NEW v, ReadAt(n, at, len, v), \A m : ~Waits(Top, m)
    PROVE  DepsSettled'
<1>1. Return("resolved") \/ Return("error")
  BY DEF ReadAt
<1> QED
  BY <1>1, SettleReturn

LEMMA SettleCall ==
    ASSUME TypeOK, ~Idle, StackDiscipline, DepsSettled, Kept, UNCHANGED schema,
           NEW m \in Node, NEW pc \in Pc, NEW next \in Nat \ {0}, Call(m, pc, next),
           state[m] = "unresolved",
           deps' \in [Node -> SUBSET Node],
           \A n \in Node \ {Top.node} : deps'[n] = deps[n],
           \A n \in deps'[Top.node] :
              \/ state[n] = "resolved"
              \/ pc \in EvalPc /\ Waits(FrameOf(Top.node, pc, next, Top.acc), n)
    PROVE  DepsSettled'
<1> PICK l \in Nat \ {0} : /\ l = Len(frames)
                          /\ DOMAIN frames = 1 .. l
                          /\ Top = frames[l]
                          /\ \A k \in 1 .. l : frames[k] \in Frame /\ frames[k].node \in Node
  BY StackType
<1> DEFINE f == FrameOf(Top.node, pc, next, Top.acc)
<1>1. /\ Len(frames') = l + 1
      /\ DOMAIN frames' = 1 .. l + 1
      /\ \A k \in 1 .. l - 1 : frames'[k] = frames[k]
      /\ frames'[l] = f
      /\ frames'[l + 1] = Activation(m)
  BY CallFrames
<1>2. f.node = Top.node /\ f.pc = pc /\ Activation(m).node = m
  BY DEF FrameOf, Activation
<1>3. \A n \in Node : state'[n] = IF n = m THEN "resolving" ELSE state[n]
  BY DEF Call, TypeOK
<1>4. edited' = edited \ {m}
  BY DEF Call
<1> HIDE DEF f
<1>5. m # Top.node /\ deps'[m] = {}
  BY TopState DEF DepsSettled
<1>6. \A n \in Node : state'[n] = "unresolved" => state[n] = "unresolved"
  BY <1>3
<1>7. \A n \in Node \ edited' : state'[n] = "resolved" => state[n] = "resolved" /\ n \notin edited
  BY <1>3, <1>4
<1>8. ASSUME NEW k \in DOMAIN frames'
      PROVE  \/ k \in 1 .. Len(frames) - 1 /\ frames'[k] = frames[k]
             \/ deps'[frames'[k].node] = {}
             \/ /\ frames'[k].node = Top.node
                /\ \A n \in deps'[Top.node] :
                     \/ state'[n] = "resolved"
                     \/ frames'[k].pc \in EvalPc /\ Waits(frames'[k], n)
  <2>1. CASE k = l + 1
    BY <1>1, <1>2, <1>5, <2>1
  <2>2. CASE k = l
    <3>1. \A n \in deps'[Top.node] : n \in Node
      BY TopState
    <3>2. \A n \in deps'[Top.node] : state'[n] = "resolved" \/ (pc \in EvalPc /\ Waits(f, n))
      BY <3>1 DEF Kept, f
    <3> QED
      BY <1>1, <1>2, <2>2, <3>2
  <2>3. CASE k \in 1 .. l - 1
    BY <1>1, <2>3
  <2> QED
    BY <1>1, <2>1, <2>2, <2>3
<1> QED
  BY <1>6, <1>7, <1>8, SettleStep

LEMMA SettleReference ==
    ASSUME TypeOK, StackDiscipline, EdgesMirror, DepsSettled, Kept, TypeOK', EvaluateReference
    PROVE  DepsSettled'
<1> DEFINE m == NextRef.node
<1>1. /\ ~Idle /\ Top.pc \in EvalPc /\ Top.pc \in Pc /\ HasNextRef
      /\ UNCHANGED schema /\ Top.pc # "root" /\ RecordDep(NextRef)
  BY DEF EvaluateReference, HasNextRef, Evaluating, Pc, EvalPc
<1>2. NextRef \in Ref /\ m \in Node /\ Top.next \in Nat \ {0} /\ Top.acc \in Int
  BY <1>1, FieldType, NextRefType
<1>3. \A n : Waits(Top, n) <=> n = m
  BY <1>1, WaitsAt
<1>4. /\ deps' \in [Node -> SUBSET Node]
      /\ \A n \in Node \ {Top.node} : deps'[n] = deps[n]
      /\ \A n \in deps'[Top.node] : state[n] = "resolved" \/ n = m
  <2>1. Top.node \in Node
    BY <1>1, TopState
  <2>2. \A n \in Node \ {Top.node} : deps'[n] = deps[n]
    BY <1>1, <1>2, <2>1, RecordMirror
  <2>3. deps'[Top.node] \subseteq deps[Top.node] \cup {m}
    BY <1>1, <1>2, <2>1, RecordMirror
  <2>4. \A n \in deps[Top.node] : state[n] = "resolved" \/ n = m
    BY <1>1, <1>3, TopDeps
  <2> QED
    BY <2>2, <2>3, <2>4 DEF TypeOK
<1>5. CASE state[m] = "unresolved" /\ Call(m, Top.pc, Top.next)
  <2>1. FrameOf(Top.node, Top.pc, Top.next, Top.acc) = Top
    BY <1>1, TopType DEF FrameOf, Frame
  <2> QED
    BY <1>1, <1>2, <1>3, <1>4, <1>5, <2>1, SettleCall
<1>6. CASE /\ state[m] = "resolved"
           /\ frames' = [frames EXCEPT ![Len(frames)] =
                  FrameOf(Top.node, Top.pc, Top.next + 1, Top.acc + value[m])]
           /\ UNCHANGED <<state, edited>>
  <2> DEFINE f == FrameOf(Top.node, Top.pc, Top.next + 1, Top.acc + value[m])
  <2>1. f.node = Top.node
    BY DEF FrameOf
  <2>2. /\ frames' \in Seq(Frame)
        /\ Len(frames') = Len(frames)
        /\ \A k \in 1 .. Len(frames) - 1 : frames'[k] = frames[k]
        /\ frames'[Len(frames)] = f
    BY <1>1, <1>6, TopType DEF TypeOK
  <2> QED
    BY <1>1, <1>4, <1>6, <2>1, <2>2, SettleAdvance
<1>7. CASE Return("error")
  <2>1. state' = [state EXCEPT ![Top.node] = "error", ![Top.node] = "error"]
    BY <1>1, <1>7, TopState DEF Return, TypeOK
  <2>2. frames' = SubSeq(frames, 1, Len(frames) - 1) /\ UNCHANGED edited
    BY <1>7 DEF Return
  <2> QED
    BY <1>1, <1>4, <2>1, <2>2, TopState, SettlePop
<1>8. CASE Cycle(m)
  <2>1. /\ state' = [state EXCEPT ![m] = "error", ![Top.node] = "error"]
        /\ frames' = SubSeq(frames, 1, Len(frames) - 1) /\ UNCHANGED edited
    BY <1>8 DEF Cycle
  <2> QED
    BY <1>1, <1>2, <1>4, <2>1, SettlePop
<1> QED
  BY <1>5, <1>6, <1>7, <1>8 DEF EvaluateReference
LEMMA ResolveSettles ==
    ASSUME TypeOK, StackDiscipline, EdgesMirror, DepsSettled, Resolve
    PROVE  DepsSettled'
<1>0. Kept /\ TypeOK'
  BY ResolveKeeps, ResolveType
<1>1. {"cond", "pos", "siblings", "predecessor", "sibling"} \subseteq Pc
  BY DEF Pc, EvalPc
<1>2. CASE ResolveRoot
  <2>1. ~Idle /\ Top.pc = "root" /\ UNCHANGED <<schema, edges>> /\ Return("resolved")
    BY <1>2 DEF ResolveRoot, At
  <2> QED
    BY <1>0, <2>1, WaitsAt, SettleReturn
<1>3. CASE FindPosition
  <2>1. ~Idle /\ Top.pc = "position" /\ UNCHANGED <<schema, edges>>
    BY <1>3 DEF FindPosition, At
  <2>2. \A n \in deps[Top.node] : state[n] = "resolved"
    BY <2>1, TopDeps DEF EvalPc
  <2>3. Before(Top.node) \in Node /\ deps' = deps /\ deps \in [Node -> SUBSET Node]
    BY <2>1, TopType, BeforeType DEF Fits, edges, TypeOK
  <2>4. CASE Goto("cond") /\ UNCHANGED <<state, edited>>
    BY <1>0, <1>1, <2>1, <2>4, SettleGoto DEF EvalPc
  <2>5. CASE Call(Before(Top.node), "predecessor", 1) /\ state[Before(Top.node)] = "unresolved"
    BY <1>0, <1>1, <2>1, <2>2, <2>3, <2>5, SettleCall
  <2>6. CASE Cycle(Before(Top.node))
    <3>1. /\ state' = [state EXCEPT ![Before(Top.node)] = "error", ![Top.node] = "error"]
          /\ frames' = SubSeq(frames, 1, Len(frames) - 1) /\ UNCHANGED edited
      BY <2>6 DEF Cycle
    <3> QED
      BY <1>0, <2>1, <2>3, <3>1, SettlePop
  <2> QED
    BY <1>3, <2>4, <2>5, <2>6 DEF FindPosition
<1>4. CASE AfterPredecessor
  <2>1. ~Idle /\ Top.pc = "predecessor" /\ UNCHANGED <<schema, edges>> /\ Top.pc \notin EvalPc
    BY <1>4 DEF AfterPredecessor, At, EvalPc
  <2>2. CASE Return("error")
    BY <1>0, <2>1, <2>2, SettleReturn
  <2>3. CASE Goto("cond") /\ UNCHANGED <<state, edited>>
    BY <1>0, <1>1, <2>1, <2>3, SettleGoto
  <2> QED
    BY <1>4, <2>2, <2>3 DEF AfterPredecessor
<1>5. CASE SkipCondition
  <2>1. /\ ~Idle /\ Top.pc = "cond" /\ UNCHANGED <<schema, state, edited, edges>>
        /\ Goto(BodyPc(Top.node)) /\ AttrOf(Top.node).cond = NoExpr
    BY <1>5 DEF SkipCondition, At
  <2>2. Top.pc \in EvalPc /\ ~HasNextRef
    BY <2>1 DEF HasNextRef, Evaluating, ExprAt, EvalPc
  <2>3. BodyPc(Top.node) \in Pc
    BY <2>1, FieldType, BodyPcType DEF Pc, EvalPc
  <2> QED
    BY <1>0, <2>1, <2>2, <2>3, WaitsAt, SettleGoto
<1>6. CASE EvaluateReference
  BY <1>0, <1>6, SettleReference
<1>7. CASE ExceedDepth
  <2>1. ~Idle /\ UNCHANGED <<schema, edges>> /\ Return("error")
    BY <1>7 DEF ExceedDepth, Evaluating
  <2> QED
    BY <1>0, <2>1, SettleReturn
<1>8. CASE FinishCondition
  <2>1. ~Idle /\ Top.pc = "cond" /\ Top.pc # "root" /\ \A m : ~Waits(Top, m)
    BY <1>8, EvaluatedWaits DEF FinishCondition, EvalPc
  <2>2. UNCHANGED <<schema, edges>>
    BY <1>8 DEF FinishCondition
  <2>3. CASE Goto(BodyPc(Top.node)) /\ UNCHANGED <<state, edited>>
    <3>1. BodyPc(Top.node) \in Pc
      BY <2>1, FieldType, BodyPcType DEF Pc, EvalPc
    <3> QED
      BY <1>0, <2>1, <2>2, <2>3, <3>1, SettleGoto
  <2>4. CASE Return("resolved")
    BY <1>0, <2>1, <2>2, <2>4, SettleReturn
  <2> QED
    BY <1>8, <2>3, <2>4 DEF FinishCondition
<1>9. CASE ReadByte
  <2>1. ~Idle /\ \A m : ~Waits(Top, m)
    BY <1>9, WaitsAt DEF ReadByte, At
  <2> QED
    BY <1>0, <1>9, <2>1, SettleReadAt DEF ReadByte
<1>10. CASE ReadSized
  <2>1. ~Idle /\ \A m : ~Waits(Top, m)
    BY <1>10, EvaluatedWaits DEF ReadSized, EvalPc
  <2> QED
    BY <1>0, <1>10, <2>1, SettleReadAt DEF ReadSized
<1>11. CASE ComputeValue
  <2>1. ~Idle /\ \A m : ~Waits(Top, m)
    BY <1>11, EvaluatedWaits DEF ComputeValue, EvalPc
  <2> QED
    BY <1>0, <1>11, <2>1, SettleReturn DEF ComputeValue
<1>12. CASE EnsureSibling
  <2>1. ~Idle /\ Top.pc = "siblings" /\ UNCHANGED <<schema, edges>> /\ Top.pc \notin EvalPc
    BY <1>12 DEF EnsureSibling, At, EvalPc
  <2>2. \A n \in deps[Top.node] : state[n] = "resolved"
    BY <2>1, TopDeps
  <2>3. deps' = deps /\ deps \in [Node -> SUBSET Node]
    BY <2>1 DEF edges, TypeOK
  <2>4. CASE \E k \in FirstUnread : Call(schema.seq[k], "sibling", k)
    <3>1. PICK k \in FirstUnread : Call(schema.seq[k], "sibling", k)
      BY <2>4
    <3>2. /\ k \in Nat \ {0} /\ schema.seq[k] \in Node
          /\ state[schema.seq[k]] = "unresolved"
      BY SchemaType DEF FirstUnread, Node
    <3> QED
      BY <1>0, <1>1, <2>1, <2>2, <2>3, <3>1, <3>2, SettleCall
  <2>5. CASE Goto("pos") /\ UNCHANGED <<state, edited>>
    BY <1>0, <1>1, <2>1, <2>5, SettleGoto
  <2> QED
    BY <1>12, <2>4, <2>5 DEF EnsureSibling
<1>13. CASE AfterSibling
  <2>1. ~Idle /\ Top.pc = "sibling" /\ UNCHANGED <<schema, edges>> /\ Top.pc \notin EvalPc
    BY <1>13 DEF AfterSibling, At, EvalPc
  <2>2. CASE Return("error")
    BY <1>0, <2>1, <2>2, SettleReturn
  <2>3. CASE Goto("siblings") /\ UNCHANGED <<state, edited>>
    BY <1>0, <1>1, <2>1, <2>3, SettleGoto
  <2> QED
    BY <1>13, <2>2, <2>3 DEF AfterSibling
<1>14. CASE ReadInstance
  <2>1. ~Idle /\ \A m : ~Waits(Top, m)
    <3>1. CASE Evaluated("pos")
      BY <3>1, EvaluatedWaits DEF EvalPc
    <3>2. CASE At("pos") /\ AttrOf(Top.node).expr = NoExpr
      <4>1. ~Idle /\ Top.pc \in EvalPc /\ ~HasNextRef
        BY <3>2 DEF At, EvalPc, HasNextRef, Evaluating, ExprAt
      <4> QED
        BY <4>1, WaitsAt
    <3> QED
      BY <1>14, <3>1, <3>2 DEF ReadInstance
  <2> QED
    BY <1>0, <1>14, <2>1, SettleReadAt DEF ReadInstance
<1> QED
  BY <1>2, <1>3, <1>4, <1>5, <1>6, <1>7, <1>8, <1>9, <1>10, <1>11, <1>12, <1>13, <1>14
     DEF Resolve

-----------------------------------------------------------------------------
(* No stale dependent: the callers.                                        *)

\* An edit clears a set D that is closed under rdeps; the nodes outside of it
\* keep their state but for the edited node, which is resolved.
LEMMA EditSettles ==
    ASSUME TypeOK, EdgesMirror, DepsSettled, NEW D, CutEdges(D), frames' = <<>>,
           \A m \in D : rdeps[m] \subseteq D, NEW E,
           \A n \in Node : state'[n] = IF n \in E THEN "resolved"
                                       ELSE IF n \in D THEN "unresolved" ELSE state[n],
           edited' = (edited \ D) \cup E
    PROVE  DepsSettled'
<1>1. \A n \in Node : deps'[n] = IF n \in D THEN {} ELSE deps[n]
  BY CutMirror
<1>2. ASSUME NEW n \in Node, state'[n] = "unresolved" PROVE deps'[n] = {}
  BY <1>1, <1>2 DEF DepsSettled
<1>3. NoStaleDependent'
  <2> SUFFICES ASSUME NEW n \in Node \ edited', state'[n] = "resolved", NEW m \in deps'[n]
               PROVE  state'[m] = "resolved"
    BY DEF NoStaleDependent
  <2>1. n \notin D /\ n \notin E /\ state[n] = "resolved" /\ n \notin edited
    OBVIOUS
  <2>2. m \in deps[n] /\ m \in Node
    BY <1>1, <2>1 DEF TypeOK
  <2>3. n \in rdeps[m]
    BY <2>2 DEF EdgesMirror
  <2>4. m \notin D
    BY <2>1, <2>3
  <2>5. state[m] = "resolved"
    BY <2>1, <2>2 DEF DepsSettled, NoStaleDependent
  <2> QED
    BY <2>2, <2>4, <2>5
<1>4. DOMAIN frames' = {}
  OBVIOUS
<1> QED
  BY <1>2, <1>3, <1>4 DEF DepsSettled

LEMMA CallersSettle ==
    ASSUME TypeOK, StackDiscipline, EdgesMirror, DepsSettled, Invalidatable \subseteq {Root}
    PROVE  /\ \A n \in Node : Access(n) => DepsSettled'
           /\ \A n \in Dirtiable : MarkDirty(n) => DepsSettled'
           /\ \A n \in Dirtiable, v \in EditValues : SetValue(n, v) => DepsSettled'
           /\ \A n \in Invalidatable : Invalidate(n) => DepsSettled'
<1>1. ASSUME NEW n \in Node, Access(n) PROVE DepsSettled'
  <2>1. /\ frames' = <<Activation(n)>> /\ Activation(n).node = n /\ state[n] = "unresolved"
        /\ edited' = edited \ {n} /\ deps' = deps
    BY <1>1 DEF Access, Activation, FrameOf, edges
  <2>2. DOMAIN frames' = {1} /\ frames'[1].node = n
    BY <2>1
  <2>3. \A m \in Node : state'[m] = IF m = n THEN "resolving" ELSE state[m]
    BY <1>1 DEF Access, TypeOK
  <2>4. deps[n] = {}
    BY <2>1 DEF DepsSettled
  <2>5. NoStaleDependent'
    <3> SUFFICES ASSUME NEW x \in Node \ edited', state'[x] = "resolved", NEW m \in deps'[x]
                 PROVE  state'[m] = "resolved"
      BY DEF NoStaleDependent
    <3>1. x \notin edited /\ state[x] = "resolved" /\ m \in deps[x] /\ m \in Node
      BY <2>1, <2>3 DEF TypeOK
    <3>2. state[m] = "resolved"
      BY <3>1 DEF DepsSettled, NoStaleDependent
    <3> QED
      BY <2>1, <2>3, <3>1, <3>2
  <2>6. \A m \in Node : state'[m] = "unresolved" => deps'[m] = {}
    BY <2>1, <2>3 DEF DepsSettled
  <2> QED
    BY <2>1, <2>2, <2>4, <2>5, <2>6 DEF DepsSettled
<1>2. ASSUME NEW n \in Dirtiable, MarkDirty(n) PROVE DepsSettled'
  <2> DEFINE D == Reached({n})
  <2>1. n \in Node
    BY EditsAssumption DEF Node
  <2>2. /\ CutEdges(D) /\ frames' = <<>> /\ edited' = (edited \ D) \cup {}
        /\ state' = Cleared(state, D, "unresolved")
    BY <1>2 DEF MarkDirty, Idle
  <2>3. \A m \in Node : state'[m] = IF m \in {} THEN "resolved"
                                    ELSE IF m \in D THEN "unresolved" ELSE state[m]
    BY <2>2 DEF Cleared
  <2>4. \A m \in D : rdeps[m] \subseteq D
    BY <2>1, ReachedClosed
  <2> HIDE DEF D
  <2> QED
    BY <2>2, <2>3, <2>4, EditSettles
<1>3. ASSUME NEW n \in Dirtiable, NEW v \in EditValues, SetValue(n, v) PROVE DepsSettled'
  <2> DEFINE D == Reached(rdeps[n])
  <2>1. n \in Node /\ rdeps[n] \in SUBSET Node
    BY EditsAssumption DEF Node, TypeOK
  <2>2. /\ CutEdges(D) /\ frames' = <<>> /\ edited' = (edited \ D) \cup {n}
        /\ state' = [Cleared(state, D, "unresolved") EXCEPT ![n] = "resolved"]
    BY <1>3 DEF SetValue, Idle
  <2>3. \A m \in Node : state'[m] = IF m \in {n} THEN "resolved"
                                    ELSE IF m \in D THEN "unresolved" ELSE state[m]
    BY <2>1, <2>2 DEF Cleared
  <2>4. \A m \in D : rdeps[m] \subseteq D
    BY <2>1, ReachedClosed
  <2> HIDE DEF D
  <2> QED
    BY <2>2, <2>3, <2>4, EditSettles
<1>4. ASSUME NEW n \in Invalidatable, Invalidate(n) PROVE DepsSettled'
  <2>1. n = Root /\ frames' = <<>>
    BY <1>4 DEF Invalidate, Idle
  <2>2. \A m \in Node : deps'[m] = {} /\ state'[m] = "unresolved"
    BY <1>4, <2>1 DEF Invalidate, Cleared
  <2> QED
    BY <2>1, <2>2 DEF DepsSettled, NoStaleDependent
<1> QED
  BY <1>1, <1>2, <1>3, <1>4

LEMMA StutterSettles ==
    ASSUME DepsSettled, UNCHANGED vars
    PROVE  DepsSettled'
<1>1. UNCHANGED <<schema, state, deps, frames, edited>>
  BY DEF vars, edges
<1> QED
  BY <1>1, WaitsNext DEF DepsSettled, NoStaleDependent

\* After any history of reads, MarkDirty, SetValue and whole-tree
\* invalidations, what a resolved node recorded as its dependencies is
\* resolved: markDirty's walk along rdeps missed nobody.
THEOREM NoDependentMissed ==
    ASSUME Invalidatable \subseteq {Root}
    PROVE  Spec => []NoStaleDependent
<1>1. TypeOK /\ StackDiscipline /\ EdgesMirror /\ DepsSettled /\ [Next]_vars => DepsSettled'
  BY ResolveSettles, CallersSettle, StutterSettles DEF Next
<1>2. DepsSettled => NoStaleDependent
  BY DEF DepsSettled
<1>3. Spec => []EdgesMirror
  BY EdgesMirrored
<1> QED
  BY EdgesInit, TypeCorrect, StackSafe, <1>1, <1>2, <1>3, PTL DEF Spec

-----------------------------------------------------------------------------
(* What an edit leaves alone.                                              *)

CondNames(n) == {r.node : r \in RefsOf(AttrOf(n).cond)}
Names(n) == CondNames(n) \cup {r.node : r \in RefsOf(AttrOf(n).expr)}
Early == {"position", "predecessor", "cond"}

\* A node has edges to what its expressions name only, and, where its if: was
\* false, to what that one names.
DepsNamed ==
    /\ deps[Root] = {}
    /\ \A n \in Field : /\ deps[n] \subseteq Names(n)
                        /\ state[n] = "resolved" /\ value[n] = Null => deps[n] \subseteq CondNames(n)
    /\ \A k \in DOMAIN frames :
          frames[k].pc \in Early => deps[frames[k].node] \subseteq CondNames(frames[k].node)

\* The names depend on the schema alone.
LEMMA NamesKept ==
    ASSUME UNCHANGED schema
    PROVE  \A n : CondNames(n)' = CondNames(n) /\ Names(n)' = Names(n)
BY DEF CondNames, Names, RefsOf, AttrOf

\* A step of resolve adds at most an edge to what the running activation's
\* expression names.
LEMMA StepRecords ==
    ASSUME TypeOK, StackDiscipline, EdgesMirror, Resolve
    PROVE  /\ \A n \in Node \ {Top.node} : deps'[n] = deps[n]
           /\ \/ deps'[Top.node] = deps[Top.node]
              \/ /\ Top.node \in Field /\ Top.pc \in EvalPc
                 /\ deps'[Top.node] \subseteq deps[Top.node] \cup Names(Top.node)
                 /\ Top.pc = "cond" => deps'[Top.node] \subseteq deps[Top.node] \cup CondNames(Top.node)
<1>1. CASE EvaluateReference
  <2>1. ~Idle /\ HasNextRef /\ Top.pc # "root" /\ RecordDep(NextRef) /\ Top.pc \in EvalPc
    BY <1>1 DEF EvaluateReference, HasNextRef, Evaluating, EvalPc
  <2>2. Top.node \in Field /\ Top.node \in Node
    BY <2>1, FieldType DEF Node
  <2>3. /\ NextRef \in Ref /\ NextRef = ExprAt(Top.node, Top.pc).refs[Top.next]
        /\ Top.next \in DOMAIN ExprAt(Top.node, Top.pc).refs
    BY <2>1, <2>2, NextRefType
  <2>4. /\ \A n \in Node \ {Top.node} : deps'[n] = deps[n]
        /\ deps'[Top.node] \subseteq deps[Top.node] \cup {NextRef.node}
    BY <2>1, <2>2, <2>3, RecordMirror
  <2>5. NextRef \in RefsOf(ExprAt(Top.node, Top.pc))
    BY <2>3 DEF RefsOf
  <2>6. NextRef.node \in Names(Top.node) /\ (Top.pc = "cond" => NextRef.node \in CondNames(Top.node))
    BY <2>5 DEF Names, CondNames, ExprAt
  <2> QED
    BY <2>1, <2>2, <2>4, <2>6
<1>2. CASE UNCHANGED edges
  BY <1>2 DEF edges
<1>3. UNCHANGED edges \/ EvaluateReference
  BY DEF Resolve, ResolveRoot, FindPosition, AfterPredecessor, SkipCondition, ExceedDepth,
         FinishCondition, ReadByte, ReadSized, ComputeValue, EnsureSibling, AfterSibling,
         ReadInstance
<1> QED
  BY <1>1, <1>2, <1>3

\* A resolved node whose field is null has been skipped by its if:.
LEMMA NullIsSkipped ==
    ASSUME TypeOK, Succeeds, Top.node \in Field, ~Idle, value'[Top.node] = Null
    PROVE  Top.pc = "cond" /\ UNCHANGED edges
<1>1. Top.pc # "root"
  BY RootAssumption, TopType DEF Fits
<1>2. \A at, len : Reads(at, len) /\ len \in Nat => value'[Top.node] \in Nat
  <2>1. \A at : ByteAt(at) \in Nat
    BY SchemaType DEF ByteAt
  <2> QED
    BY <2>1 DEF Reads
<1>3. Evaluating => Result \in Nat
  BY <1>1, ResultType
<1>4. \A pc : Evaluated(pc) => Evaluating
  BY DEF Evaluated
<1>5. Null \notin Nat
  BY DEF Null
<1>6. Top.pc \in {"cond", "size", "value", "pos", "read"}
  BY <1>1 DEF Succeeds, EvalPc
<1>7. Top.pc \notin {"size", "value", "pos", "read"}
  BY <1>2, <1>3, <1>4, <1>5 DEF Succeeds, Settles
<1> QED
  BY <1>6, <1>7 DEF Succeeds, Settles

\* The edges a step of resolve records are to what the expressions name.
LEMMA ResolveNames ==
    ASSUME TypeOK, StackDiscipline, EdgesMirror, DepsSettled, Answered, DepsNamed, Resolve
    PROVE  DepsNamed'
<1>1. /\ ~Idle /\ UNCHANGED schema /\ Top.node \in Node /\ state[Top.node] # "resolved"
      /\ Top = frames[Len(frames)] /\ Len(frames) \in DOMAIN frames /\ Len(frames) \in Nat
      /\ \A n \in Node : state[n] = "resolved" => state'[n] = "resolved" /\ value'[n] = value[n]
      /\ \A k \in DOMAIN frames : frames[k].node \in Node
  BY StepKeeps, TopState, TopType, StackType DEF Top, Settled
<1>2. \A n : CondNames(n)' = CondNames(n) /\ Names(n)' = Names(n)
  BY <1>1, NamesKept
<1>3. /\ \A n \in Node \ {Top.node} : deps'[n] = deps[n]
      /\ \/ deps'[Top.node] = deps[Top.node]
         \/ /\ Top.node \in Field /\ Top.pc \in EvalPc
            /\ deps'[Top.node] \subseteq deps[Top.node] \cup Names(Top.node)
            /\ Top.pc = "cond" => deps'[Top.node] \subseteq deps[Top.node] \cup CondNames(Top.node)
  BY StepRecords
<1>4. deps'[Root] = {}
  BY <1>1, <1>3, RootAssumption DEF DepsNamed, Node
<1>5. \A n \in Field : deps'[n] \subseteq Names(n)
  BY <1>3 DEF DepsNamed, Node
<1>6. ASSUME NEW k \in DOMAIN frames', frames'[k].pc \in Early
      PROVE  deps'[frames'[k].node] \subseteq CondNames(frames'[k].node)
  <2>1. CASE k \in 1 .. Len(frames) - 1 /\ k \in DOMAIN frames /\ frames'[k] = frames[k]
    <3>1. frames[k].node # Top.node
      BY <1>1, <2>1 DEF StackDiscipline, Distinct
    <3> QED
      BY <1>1, <1>3, <1>6, <2>1, <3>1 DEF DepsNamed
  <2>2. CASE frames'[k].node = Top.node /\ Top.pc \in Early
    <3>1. deps[Top.node] \subseteq CondNames(Top.node)
      BY <1>1, <2>2 DEF DepsNamed
    <3>2. Top.pc \in EvalPc => Top.pc = "cond"
      BY <2>2 DEF Early, EvalPc
    <3> QED
      BY <1>3, <2>2, <3>1, <3>2
  <2>3. CASE frames'[k].node \in Node /\ state[frames'[k].node] = "unresolved"
    <3>1. deps[frames'[k].node] = {} /\ frames'[k].node # Top.node
      BY <1>1, <2>3, TopState DEF DepsSettled
    <3> QED
      BY <1>3, <2>3, <3>1
  <2>4. CASE \E pc : Advanced(pc) /\ (pc \in Early => Top.pc \in Early)
    BY <1>1, <1>6, <2>1, <2>2, <2>4, FramesAfter
  <2>5. CASE \E m \in Node : \E pc : Called(m, pc) /\ (pc \in Early => Top.pc \in Early)
    <3>1. PICK m \in Node : \E pc : Called(m, pc) /\ (pc \in Early => Top.pc \in Early)
      BY <2>5
    <3> PICK pc : Called(m, pc) /\ (pc \in Early => Top.pc \in Early)
      BY <3>1
    <3>2. state[m] = "unresolved"
      BY <3>1 DEF Called
    <3> QED
      BY <1>1, <1>6, <2>1, <2>2, <2>3, <3>1, <3>2, FramesAfter
  <2>6. CASE \E m, o : Popped(m, o)
    BY <1>1, <2>1, <2>6, FramesAfter
  <2>7. Enters \/ Begins \/ Seeks \/ GoesOn => \E pc : Advanced(pc) /\ (pc \in Early => Top.pc \in Early)
    BY DEF Enters, Begins, Seeks, GoesOn, Early
  <2>8. Asks \/ Ensures => \E m \in Node : \E pc : Called(m, pc) /\ (pc \in Early => Top.pc \in Early)
    <3>1. Top.pc = "position" => Before(Top.node) \in Node
      BY <1>1, TopType, BeforeType DEF Fits
    <3> QED
      BY <3>1 DEF Asks, Ensures, Early
  <2>9. Refers => \/ \E m \in Node : \E pc : Called(m, pc) /\ (pc \in Early => Top.pc \in Early)
                  \/ \E pc : Advanced(pc) /\ (pc \in Early => Top.pc \in Early)
    <3>1. HasNextRef => Top.node \in Field
      BY <1>1, FieldType DEF HasNextRef, Evaluating, EvalPc
    <3>2. HasNextRef => NextRef.node \in Node
      BY <3>1, NextRefType
    <3> QED
      BY <3>2 DEF Refers
  <2>10. Fails \/ Succeeds => \E m, o : Popped(m, o)
    BY DEF Fails, Succeeds
  <2> QED
    BY <2>4, <2>5, <2>6, <2>7, <2>8, <2>9, <2>10, Movements
<1>7. ASSUME NEW n \in Field, state'[n] = "resolved", value'[n] = Null
      PROVE  deps'[n] \subseteq CondNames(n)
  <2>0. n \in Node
    BY DEF Node
  <2>1. CASE state[n] = "resolved"
    BY <1>1, <1>3, <1>7, <2>0, <2>1 DEF DepsNamed
  <2>2. CASE state[n] # "resolved"
    <3>1. Succeeds /\ n = Top.node
      BY <1>7, <2>0, <2>2, NewlyResolved
    <3>2. Top.pc = "cond" /\ UNCHANGED edges
      BY <1>1, <1>7, <3>1, NullIsSkipped
    <3> QED
      BY <1>1, <3>1, <3>2 DEF DepsNamed, Early, edges
  <2> QED
    BY <2>1, <2>2
<1> QED
  BY <1>2, <1>4, <1>5, <1>6, <1>7 DEF DepsNamed

\* KindFits and Answered are about activations only: edits keep them too.
LEMMA PointsKept ==
    ASSUME TypeOK, StackDiscipline, KindFits, Answered, [Next]_vars
    PROVE  KindFits' /\ Answered'
<1>1. CASE Resolve
  BY <1>1, KindKept, AnsweredKept
<1>2. ASSUME NEW n \in Node, Access(n)
      PROVE  KindFits' /\ Answered'
  <2>1. /\ frames' = <<Activation(n)>> /\ Activation(n).node = n /\ Activation(n).pc = EntryPc(n)
    BY <1>2 DEF Access, Activation, FrameOf
  <2>2. DOMAIN frames' = {1} /\ frames'[1] = Activation(n) /\ Top' = Activation(n)
    BY <2>1 DEF Top
  <2>3. EntryPc(n) \in {"root", "position", "cond"}
    BY DEF EntryPc
  <2> QED
    BY <2>1, <2>2, <2>3 DEF KindFits, Answered
<1>3. CASE Idle /\ UNCHANGED frames
  BY <1>3 DEF Idle, KindFits, Answered
<1>4. CASE UNCHANGED vars
  BY <1>4, SchemaKept DEF vars, KindFits, Answered, Settled, Idle, Top
<1> QED
  BY <1>1, <1>2, <1>3, <1>4 DEF Next, MarkDirty, SetValue, Invalidate

\* Neither an access nor an edit adds an edge.
LEMMA CallersName ==
    ASSUME TypeOK, EdgesMirror, DepsSettled, DepsNamed, Invalidatable \subseteq {Root}
    PROVE  /\ \A n \in Node : Access(n) => DepsNamed'
           /\ \A n \in Dirtiable : MarkDirty(n) => DepsNamed'
           /\ \A n \in Dirtiable, v \in EditValues : SetValue(n, v) => DepsNamed'
           /\ \A n \in Invalidatable : Invalidate(n) => DepsNamed'
           /\ UNCHANGED vars => DepsNamed'
<1>0. Field \subseteq Node /\ Root \in Node
  BY DEF Node
<1>1. ASSUME NEW n \in Node, Access(n) PROVE DepsNamed'
  <2>1. /\ frames' = <<Activation(n)>> /\ Activation(n).node = n /\ UNCHANGED <<schema, value, deps>>
        /\ deps[n] = {}
    BY <1>1 DEF Access, Activation, FrameOf, stored, edges, DepsSettled
  <2>2. DOMAIN frames' = {1} /\ frames'[1].node = n
    BY <2>1
  <2>3. \A m \in Node : state'[m] = "resolved" => state[m] = "resolved"
    BY <1>1 DEF Access, TypeOK
  <2> QED
    BY <1>0, <2>1, <2>2, <2>3, NamesKept DEF DepsNamed
<1>2. ASSUME NEW D \in SUBSET Node, NEW E, CutEdges(D), frames' = <<>>, UNCHANGED schema,
             \A n \in Node : state'[n] = "resolved" /\ value'[n] = Null =>
                 n \in D \/ (state[n] = "resolved" /\ value[n] = Null)
      PROVE  DepsNamed'
  <2>1. \A n \in Node : deps'[n] = IF n \in D THEN {} ELSE deps[n]
    BY <1>2, CutMirror
  <2>2. DOMAIN frames' = {}
    BY <1>2
  <2> QED
    BY <1>0, <1>2, <2>1, <2>2, NamesKept DEF DepsNamed
<1>3. ASSUME NEW n \in Dirtiable, MarkDirty(n) PROVE DepsNamed'
  <2> PICK D : D = Reached({n})
    OBVIOUS
  <2>1. D \in SUBSET Node /\ CutEdges(D) /\ frames' = <<>> /\ UNCHANGED schema
    BY <1>3 DEF MarkDirty, Idle, Reached
  <2>2. \A m \in Node : m \notin D => state'[m] = state[m] /\ value'[m] = value[m]
    BY <1>3 DEF MarkDirty, Cleared
  <2> QED
    BY <1>2, <2>1, <2>2
<1>4. ASSUME NEW n \in Dirtiable, NEW v \in EditValues, SetValue(n, v) PROVE DepsNamed'
  <2> PICK D : D = Reached(rdeps[n])
    OBVIOUS
  <2>1. D \in SUBSET Node /\ CutEdges(D) /\ frames' = <<>> /\ UNCHANGED schema
    BY <1>4 DEF SetValue, Idle, Reached
  <2>2. n \in Node /\ v # Null
    BY EditsAssumption DEF Node, Null
  <2>3. \A m \in Node : m \notin D /\ m # n => state'[m] = state[m] /\ value'[m] = value[m]
    BY <1>4 DEF SetValue, Cleared
  <2>4. value'[n] = v
    BY <1>4, <2>2 DEF SetValue, Cleared
  <2> QED
    BY <1>2, <2>1, <2>2, <2>3, <2>4
<1>5. ASSUME NEW n \in Invalidatable, Invalidate(n) PROVE DepsNamed'
  <2>1. n = Root /\ frames' = <<>> /\ UNCHANGED schema
    BY <1>5 DEF Invalidate, Idle
  <2>2. \A m \in Node : deps'[m] = {}
    BY <1>5, <2>1 DEF Invalidate, Cleared
  <2> QED
    BY <1>0, <2>1, <2>2 DEF DepsNamed
<1>6. UNCHANGED vars => DepsNamed'
  BY <1>0, NamesKept DEF vars, edges, stored, DepsNamed
<1> QED
  BY <1>1, <1>3, <1>4, <1>5, <1>6

\* What markDirty reaches but does not start from depends on something else
\* that it reaches.
LEMMA ReachedBy ==
    ASSUME TypeOK, NEW S \in SUBSET Node, NEW n \in Reached(S), n \notin S
    PROVE  \E m \in Reached(S) : n \in rdeps[m]
<1> PICK D : D = Reached(S)
  OBVIOUS
<1>1. S \subseteq D /\ D \subseteq Node /\ \A m \in D : rdeps[m] \subseteq D
  BY ReachedClosed
<1> SUFFICES ASSUME \A m \in D : n \notin rdeps[m]
             PROVE  FALSE
  OBVIOUS
<1>2. /\ D \ {n} \in SUBSET Node /\ S \subseteq D \ {n}
      /\ \A x \in D \ {n} : rdeps[x] \subseteq D \ {n}
  BY <1>1
<1>3. n \in D \ {n}
  BY <1>2 DEF Reached
<1> QED
  BY <1>3

\* An edit is felt only through the nodes that the dirtied ones referred to
\* (node.go:190-260: MarkDirty, SetValue): for every schema and every edit,
\* what does not refer to the edited node, through others or directly, keeps
\* its value.
THEOREM UnrelatedKept ==
    ASSUME Invalidatable \subseteq {Root}
    PROVE  Spec => UnrelatedStayIntact
<1> DEFINE Felt(t) ==
        Idle /\ Idle' /\ (MarkDirty(t) \/ \E v \in EditValues : SetValue(t, v)) =>
            \A n \in Node \ {t} : state[n] = "resolved" /\ state'[n] # "resolved" =>
                \E m \in Consulted(n) : m = t \/ state'[m] = "unresolved"
<1>1. ASSUME TypeOK, EdgesMirror, DepsNamed, NEW t \in Dirtiable
      PROVE  Felt(t)
  <2> SUFFICES ASSUME MarkDirty(t) \/ \E v \in EditValues : SetValue(t, v),
                      NEW n \in Node \ {t}, state[n] = "resolved", state'[n] # "resolved"
               PROVE  \E m \in Consulted(n) : m = t \/ state'[m] = "unresolved"
    OBVIOUS
  <2>0. t \in Node /\ rdeps[t] \in SUBSET Node
    BY <1>1, EditsAssumption DEF Node, TypeOK
  <2>1. \A m \in Node : n \in rdeps[m] => m \in Consulted(n)
    <3>1. \A m \in Node : n \in rdeps[m] => m \in deps[n]
      BY <1>1 DEF EdgesMirror
    <3>2. n \in Field \/ deps[n] = {}
      BY <1>1 DEF DepsNamed, Node
    <3>3. n \in Field => deps[n] \subseteq Consulted(n)
      <4>1. n \in Field => deps[n] \subseteq Names(n) /\ (value[n] = Null => deps[n] \subseteq CondNames(n))
        BY <1>1 DEF DepsNamed
      <4> QED
        BY <4>1 DEF Names, CondNames, Consulted
    <3> QED
      BY <3>1, <3>2, <3>3
  <2>2. CASE MarkDirty(t)
    <3>1. \A m \in Node : state'[m] = IF m \in Reached({t}) THEN "unresolved" ELSE state[m]
      BY <2>2 DEF MarkDirty, Cleared
    <3>2. n \in Reached({t}) /\ n \notin {t} /\ Reached({t}) \subseteq Node
      BY <2>0, <3>1, ReachedType
    <3>3. PICK m \in Reached({t}) : n \in rdeps[m]
      BY <1>1, <2>0, <3>2, ReachedBy
    <3> QED
      BY <2>1, <3>1, <3>2, <3>3
  <2>3. CASE \E v \in EditValues : SetValue(t, v)
    <3>1. \A m \in Node \ {t} : state'[m] = IF m \in Reached(rdeps[t]) THEN "unresolved" ELSE state[m]
      BY <2>3 DEF SetValue, Cleared
    <3>2. n \in Reached(rdeps[t]) /\ Reached(rdeps[t]) \subseteq Node
      BY <3>1, ReachedType
    <3>3. CASE n \in rdeps[t]
      BY <2>0, <2>1, <3>3
    <3>4. CASE n \notin rdeps[t]
      <4>1. PICK m \in Reached(rdeps[t]) : n \in rdeps[m]
        BY <1>1, <2>0, <3>2, <3>4, ReachedBy
      <4> QED
        BY <2>1, <3>1, <3>2, <4>1
    <3> QED
      BY <3>3, <3>4
  <2> QED
    BY <2>2, <2>3
<1>2. Init => KindFits /\ Answered /\ DepsNamed
  <2>1. Init => DOMAIN frames = {} /\ Idle /\ \A n \in Node : deps[n] = {}
    BY DEF Init, Idle
  <2> QED
    BY <2>1 DEF KindFits, Answered, DepsNamed, Node
<1>3. TypeOK /\ StackDiscipline /\ EdgesMirror /\ DepsSettled /\ KindFits /\ Answered /\ DepsNamed
        /\ [Next]_vars => (KindFits /\ Answered /\ DepsNamed)'
  <2>1. TypeOK /\ StackDiscipline /\ EdgesMirror /\ DepsSettled /\ Answered /\ DepsNamed
          /\ [Next]_vars => DepsNamed'
    BY ResolveNames, CallersName DEF Next
  <2> QED
    BY <2>1, PointsKept
<1>4. TypeOK /\ StackDiscipline /\ EdgesMirror /\ DepsSettled /\ [Next]_vars => DepsSettled'
  BY ResolveSettles, CallersSettle, StutterSettles DEF Next
<1>5. TypeOK /\ EdgesMirror /\ DepsNamed /\ [Next]_vars => [\A t \in Dirtiable : Felt(t)]_vars
  BY <1>1
<1>6. Spec => []EdgesMirror
  BY EdgesMirrored
<1>7. Init => DepsSettled
  BY EdgesInit
<1> QED
  BY <1>2, <1>3, <1>4, <1>5, <1>6, <1>7, TypeCorrect, StackSafe, PTL DEF Spec, UnrelatedStayIntact

-----------------------------------------------------------------------------
(* The values that dependents have after edits.                            *)

\* Every reference is a member access: an edge is recorded for each.
MembersOnly ==
    \A s \in Schemas : \A n \in Field :
        \A r \in RefsOf(s.attr[n].cond) \cup RefsOf(s.attr[n].expr) : r.via = "member"

\* The first j references of e have values, and n has an edge to each.
Got(n, e, j) ==
    \A i \in 1 .. j : LET m == e.refs[i].node IN
        state[m] = "resolved" /\ value[m] # Null /\ m \in deps[n]

\* An activation that evaluates e has the sum of the values it has got.
PartWay(f, e) ==
    /\ f.next \in 1 .. Len(e.refs) + 1 /\ Got(f.node, e, f.next - 1)
    /\ f.acc = Sums(value, e)[f.next - 1]

\* The if: of n has been evaluated, and holds or fails.
Passed(n) == LET c == AttrOf(n).cond IN Got(n, c, Len(c.refs)) /\ (c # NoExpr => Sum(c) # 0)
Skipped(n) == LET c == AttrOf(n).cond IN
    c # NoExpr /\ Got(n, c, Len(c.refs)) /\ Sum(c) = 0 /\ value[n] = Null

Late == {"size", "value", "pos", "read", "siblings", "sibling"}
OnTheWay(f) ==
    /\ f.pc = "cond" => PartWay(f, AttrOf(f.node).cond)
    /\ f.pc \in {"size", "value", "pos"} => PartWay(f, AttrOf(f.node).expr)
    /\ f.pc \in Late => Passed(f.node)

\* What n holds is what its kind makes of its expression and of the bytes.
Shaped(n) == LET a == AttrOf(n) IN
    /\ a.kind = "u1" => end[n] = start[n] + 1 /\ value[n] = ByteAt(start[n])
    /\ a.kind = "bytes" => end[n] = start[n] + Sum(a.expr) /\ value[n] = Sum(a.expr)
    /\ a.kind = "value" => value[n] = Sum(a.expr)
    /\ a.kind = "at" => (a.expr # NoExpr => start[n] = Sum(a.expr)) /\ value[n] = ByteAt(start[n])
Filled(n) == LET x == AttrOf(n).expr IN Passed(n) /\ Got(n, x, Len(x.refs)) /\ Shaped(n)
Follows(n) == Skipped(n) \/ Filled(n)

\* The inductive form of ReferencesFollowEdits.
FollowInv ==
    /\ \A n \in Field \ edited : state[n] = "resolved" => Follows(n)
    /\ \A k \in DOMAIN frames : OnTheWay(frames[k])

\* What n has got stays while what it depends on does.
Steady(n) == /\ deps[n] \subseteq deps'[n]
             /\ \A m \in deps[n] : state[m] = "resolved" => state'[m] = "resolved" /\ value'[m] = value[m]

LEMMA GotKept ==
    ASSUME TypeOK, TypeOK', NEW n \in Node, Steady(n), NEW e, e.refs \in Seq(Ref),
           NEW j \in 0 .. Len(e.refs), Got(n, e, j)
    PROVE  Got(n, e, j)' /\ Sums(value', e)[j] = Sums(value, e)[j]
<1>1. \A i \in 1 .. j : LET m == e.refs[i].node IN
          /\ state[m] = "resolved" /\ value[m] # Null /\ m \in deps[n]
          /\ state'[m] = "resolved" /\ value'[m] = value[m] /\ m \in deps'[n]
  BY DEF Got, Steady
<1>2. value \in [Node -> Int] /\ value' \in [Node -> Int]
  BY DEF TypeOK, Null
<1>3. Sums(value', e)[j] = Sums(value, e)[j]
  BY <1>1, <1>2, SumsSame
<1> QED
  BY <1>1, <1>3 DEF Got

LEMMA PassedKept ==
    ASSUME TypeOK, TypeOK', NEW n \in Field, Steady(n), UNCHANGED schema, Passed(n)
    PROVE  Passed(n)'
<1> PICK c : c = AttrOf(n).cond
  OBVIOUS
<1>1. c.refs \in Seq(Ref) /\ Len(c.refs) \in 0 .. Len(c.refs) /\ n \in Node
  BY AttrType DEF Node
<1>2. Got(n, c, Len(c.refs)) /\ (c # NoExpr => Sum(c) # 0)
  BY DEF Passed
<1>3. Got(n, c, Len(c.refs))' /\ Sum(c)' = Sum(c)
  BY <1>1, <1>2, GotKept DEF Sum
<1>4. AttrOf(n)'.cond = c
  BY SchemaKept
<1> QED
  BY <1>2, <1>3, <1>4 DEF Passed

LEMMA SkippedKept ==
    ASSUME TypeOK, TypeOK', NEW n \in Field, Steady(n), UNCHANGED schema, value'[n] = Null,
           NEW c, c = AttrOf(n).cond, c # NoExpr, Got(n, c, Len(c.refs)), Sum(c) = 0
    PROVE  Skipped(n)'
<1>1. c.refs \in Seq(Ref) /\ Len(c.refs) \in 0 .. Len(c.refs) /\ n \in Node
  BY AttrType DEF Node
<1>2. Got(n, c, Len(c.refs))' /\ Sum(c)' = Sum(c)
  BY <1>1, GotKept DEF Sum
<1>3. AttrOf(n)'.cond = c
  BY SchemaKept
<1> QED
  BY <1>2, <1>3 DEF Skipped

\* What its kind makes of the expression and the bytes is what n holds.
LEMMA FilledKept ==
    ASSUME TypeOK, TypeOK', NEW n \in Field, Steady(n), UNCHANGED schema, Passed(n),
           NEW x, x = AttrOf(n).expr, Got(n, x, Len(x.refs)),
           NEW k, k = AttrOf(n).kind,
           k = "u1" => end'[n] = start'[n] + 1 /\ value'[n] = ByteAt(start'[n]),
           k = "bytes" => end'[n] = start'[n] + Sum(x) /\ value'[n] = Sum(x),
           k = "value" => value'[n] = Sum(x),
           k = "at" => (x # NoExpr => start'[n] = Sum(x)) /\ value'[n] = ByteAt(start'[n])
    PROVE  Filled(n)'
<1>1. x.refs \in Seq(Ref) /\ Len(x.refs) \in 0 .. Len(x.refs) /\ n \in Node
  BY AttrType DEF Node
<1>2. Got(n, x, Len(x.refs))' /\ Sum(x)' = Sum(x)
  BY <1>1, GotKept DEF Sum
<1>3. AttrOf(n)'.expr = x /\ AttrOf(n)'.kind = k
  BY SchemaKept
<1>4. Passed(n)'
  BY PassedKept
<1>5. ByteAt(start[n])' = ByteAt(start'[n])
  BY DEF ByteAt
<1>6. Shaped(n)'
  BY <1>2, <1>3, <1>5 DEF Shaped
<1> QED
  BY <1>2, <1>3, <1>4, <1>6 DEF Filled

LEMMA FollowsKept ==
    ASSUME TypeOK, TypeOK', NEW n \in Field, Steady(n), UNCHANGED schema, Follows(n),
           value'[n] = value[n], start'[n] = start[n], end'[n] = end[n]
    PROVE  Follows(n)'
<1>1. CASE Skipped(n)
  <2> PICK c : c = AttrOf(n).cond
    OBVIOUS
  <2>1. c # NoExpr /\ Got(n, c, Len(c.refs)) /\ Sum(c) = 0 /\ value'[n] = Null
    BY <1>1 DEF Skipped
  <2> QED
    BY <2>1, SkippedKept DEF Follows
<1>2. CASE Filled(n)
  <2> PICK x, k : x = AttrOf(n).expr /\ k = AttrOf(n).kind
    OBVIOUS
  <2>1. Passed(n) /\ Got(n, x, Len(x.refs)) /\ Shaped(n)
    BY <1>2 DEF Filled
  <2>2. /\ k = "u1" => end'[n] = start'[n] + 1 /\ value'[n] = ByteAt(start'[n])
        /\ k = "bytes" => end'[n] = start'[n] + Sum(x) /\ value'[n] = Sum(x)
        /\ k = "value" => value'[n] = Sum(x)
        /\ k = "at" => (x # NoExpr => start'[n] = Sum(x)) /\ value'[n] = ByteAt(start'[n])
    BY <2>1 DEF Shaped
  <2>3. Filled(n)'
    BY <2>1, <2>2, FilledKept
  <2> QED
    BY <2>3 DEF Follows
<1> QED
  BY <1>1, <1>2 DEF Follows

LEMMA PartWayKept ==
    ASSUME TypeOK, TypeOK', NEW f, f.node \in Node, Steady(f.node), NEW e, e.refs \in Seq(Ref), PartWay(f, e)
    PROVE  PartWay(f, e)'
<1> PICK j : j = f.next - 1
  OBVIOUS
<1>1. f.next \in 1 .. Len(e.refs) + 1 /\ Got(f.node, e, j) /\ f.acc = Sums(value, e)[j]
  BY DEF PartWay
<1>2. j \in 0 .. Len(e.refs)
  BY <1>1
<1>3. Got(f.node, e, j)' /\ Sums(value', e)[j] = Sums(value, e)[j]
  BY <1>1, <1>2, GotKept
<1> QED
  BY <1>1, <1>3 DEF PartWay

LEMMA WayKept ==
    ASSUME TypeOK, TypeOK', UNCHANGED schema, NEW f \in Frame, Fits(f), Steady(f.node), OnTheWay(f)
    PROVE  OnTheWay(f)'
<1>1. f.node \in Node
  BY DEF Frame
<1>2. CASE f.pc = "root"
  BY <1>2 DEF OnTheWay, Late
<1>3. CASE f.pc # "root"
  <2>1. f.node \in Field
    BY <1>1, <1>3 DEF Fits, Node
  <2> PICK c : c = AttrOf(f.node).cond
    OBVIOUS
  <2> PICK x : x = AttrOf(f.node).expr
    OBVIOUS
  <2>2. AttrOf(f.node)'.cond = c /\ AttrOf(f.node)'.expr = x
    BY SchemaKept
  <2>3. c.refs \in Seq(Ref) /\ x.refs \in Seq(Ref)
    BY <2>1, AttrType
  <2>4. f.pc = "cond" => PartWay(f, c)'
    BY <1>1, <2>3, PartWayKept DEF OnTheWay
  <2>5. f.pc \in {"size", "value", "pos"} => PartWay(f, x)'
    BY <1>1, <2>3, PartWayKept DEF OnTheWay
  <2>6. f.pc \in Late => Passed(f.node)'
    BY <2>1, PassedKept DEF OnTheWay
  <2> QED
    BY <2>2, <2>4, <2>5, <2>6 DEF OnTheWay
<1> QED
  BY <1>2, <1>3

\* An evaluation that begins has added nothing.
LEMMA FreshWay ==
    ASSUME TypeOK, TypeOK', UNCHANGED schema, NEW g, g.next = 1, g.acc = 0, g.node \in Node,
           g.pc # "root" => g.node \in Field, g.pc \in Late => Passed(g.node) /\ Steady(g.node)
    PROVE  OnTheWay(g)'
<1>1. ASSUME NEW e, e.refs \in Seq(Ref)
      PROVE  PartWay(g, e)'
  <2>1. value' \in [Node -> Int]
    BY DEF TypeOK, Null
  <2>2. Sums(value', e)[0] = 0
    BY <1>1, <2>1, SumsOf
  <2>3. Len(e.refs) \in Nat /\ g.next - 1 = 0
    BY <1>1
  <2> QED
    BY <2>2, <2>3 DEF PartWay, Got
<1>2. CASE g.pc = "root"
  BY <1>2 DEF OnTheWay, Late
<1>3. CASE g.pc # "root"
  <2> PICK c : c = AttrOf(g.node).cond
    OBVIOUS
  <2> PICK x : x = AttrOf(g.node).expr
    OBVIOUS
  <2>1. AttrOf(g.node)'.cond = c /\ AttrOf(g.node)'.expr = x
    BY SchemaKept
  <2>2. c.refs \in Seq(Ref) /\ x.refs \in Seq(Ref)
    BY <1>3, AttrType
  <2>3. PartWay(g, c)' /\ PartWay(g, x)'
    BY <1>1, <2>2
  <2>4. g.pc \in Late => Passed(g.node)'
    BY <1>3, PassedKept
  <2> QED
    BY <2>1, <2>3, <2>4 DEF OnTheWay
<1> QED
  BY <1>2, <1>3

\* An evaluation that has no reference left has the sum of its expression.
LEMMA Complete ==
    ASSUME TypeOK, NEW pc, Evaluated(pc), Top.node \in Field, NEW e, e = ExprAt(Top.node, pc), PartWay(Top, e)
    PROVE  e # NoExpr /\ Got(Top.node, e, Len(e.refs)) /\ Sum(e) = Result
<1>1. ~Idle /\ Top.pc = pc /\ e # NoExpr /\ ~(Top.next <= Len(e.refs))
  BY DEF Evaluated, At, Evaluating, HasNextRef
<1>2. e.refs \in Seq(Ref)
  BY <1>1, ExprType
<1>3. Top.next \in 1 .. Len(e.refs) + 1 /\ Got(Top.node, e, Top.next - 1) /\ Top.acc = Sums(value, e)[Top.next - 1]
  BY DEF PartWay
<1>4. Top.next - 1 = Len(e.refs)
  BY <1>1, <1>2, <1>3
<1> QED
  BY <1>1, <1>3, <1>4 DEF Sum, Result

\* Resolving takes back no edge and no answer.
LEMMA ResolveSteady ==
    ASSUME TypeOK, StackDiscipline, EdgesMirror, Resolve
    PROVE  \A n \in Node : Steady(n)
<1>1. \A m \in Node : state[m] = "resolved" => state'[m] = "resolved" /\ value'[m] = value[m]
  BY StepKeeps DEF Settled
<1>2. \A n \in Node : deps[n] \subseteq deps'[n]
  <2>1. CASE EvaluateReference
    <3>1. RecordDep(NextRef)
      BY <2>1 DEF EvaluateReference
    <3>2. deps' = deps \/ \E x : deps' = [deps EXCEPT ![Top.node] = @ \cup x]
      BY <3>1 DEF RecordDep, edges
    <3> QED
      BY <3>2 DEF TypeOK
  <2>2. CASE UNCHANGED edges
    BY <2>2 DEF edges
  <2>3. UNCHANGED edges \/ EvaluateReference
    BY DEF Resolve, ResolveRoot, FindPosition, AfterPredecessor, SkipCondition, ExceedDepth,
           FinishCondition, ReadByte, ReadSized, ComputeValue, EnsureSibling, AfterSibling,
           ReadInstance
  <2> QED
    BY <2>1, <2>2, <2>3
<1>3. \A n \in Node : deps[n] \subseteq Node
  BY DEF TypeOK
<1> QED
  BY <1>1, <1>2, <1>3 DEF Steady

\* A reference that is a member access leaves an edge to another node.
LEMMA RefersRecords ==
    ASSUME MembersOnly, TypeOK, HasNextRef, Top.node \in Field, RecordDep(NextRef), NextRef.node # Top.node
    PROVE  NextRef.node \in deps'[Top.node]
<1> PICK e : e = ExprAt(Top.node, Top.pc)
  OBVIOUS
<1>1. NextRef \in RefsOf(e)
  BY NextRefType DEF RefsOf
<1>2. NextRef.via = "member"
  <2>1. schema \in Schemas
    BY DEF TypeOK
  <2>2. e = schema.attr[Top.node].cond \/ e = schema.attr[Top.node].expr
    BY DEF ExprAt, AttrOf
  <2> QED
    BY <1>1, <2>1, <2>2 DEF MembersOnly
<1>3. deps' = [deps EXCEPT ![Top.node] = @ \cup {NextRef.node}]
  BY <1>2 DEF RecordDep
<1> QED
  BY <1>3 DEF TypeOK, Node

\* Where a reference has a value, it is added to what the activation has.
LEMMA ValueAdded ==
    ASSUME MembersOnly, TypeOK, TypeOK', StackDiscipline, EdgesMirror, Resolve, HasNextRef, RecordDep(NextRef),
           OnTheWay(Top), NEW g, Top.pc = g.pc, g.node = Top.node, g.next = Top.next + 1,
           state[NextRef.node] = "resolved", value[NextRef.node] # Null,
           g.acc = Top.acc + value[NextRef.node]
    PROVE  OnTheWay(g)'
<1>1. ~Idle /\ Top.pc \in EvalPc /\ UNCHANGED schema
  BY StepKeeps DEF HasNextRef, Evaluating
<1>2. Top.node \in Field /\ Top.node \in Node
  BY <1>1, FieldType, TopState DEF EvalPc
<1> PICK n \in Field : n = Top.node
  BY <1>2
<1> PICK e : e = ExprAt(n, Top.pc)
  OBVIOUS
<1> PICK j : j = Top.next
  OBVIOUS
<1> PICK m : m = NextRef.node
  OBVIOUS
<1>3. e.refs \in Seq(Ref) /\ j \in 1 .. Len(e.refs) /\ e.refs[j].node = m /\ m \in Node
  <2>1. e.refs \in Seq(Ref)
    BY <1>1, ExprType
  <2>2. j \in DOMAIN e.refs /\ NextRef = e.refs[j] /\ NextRef.node \in Node
    BY NextRefType
  <2> QED
    BY <2>1, <2>2
<1>4. e = IF Top.pc = "cond" THEN AttrOf(n).cond ELSE AttrOf(n).expr
  BY DEF ExprAt
<1>5. PartWay(Top, e)
  BY <1>1, <1>4 DEF OnTheWay, EvalPc
<1>6. j - 1 \in 0 .. Len(e.refs) /\ Got(n, e, j - 1) /\ Top.acc = Sums(value, e)[j - 1]
  BY <1>3, <1>5 DEF PartWay
<1>7. Steady(n) /\ n \in Node
  BY <1>2, ResolveSteady
<1>8. Got(n, e, j - 1)' /\ Sums(value', e)[j - 1] = Sums(value, e)[j - 1]
  BY <1>3, <1>6, <1>7, GotKept
<1>9. state'[m] = "resolved" /\ value'[m] = value[m] /\ m \in deps'[n]
  <2>1. m # n
    BY <1>1, TopState
  <2> QED
    BY <1>3, <2>1, StepKeeps, RefersRecords DEF Settled
<1>10. Got(n, e, j)'
  BY <1>3, <1>8, <1>9 DEF Got
<1>11. Sums(value', e)[j] = g.acc
  <2>1. value' \in [Node -> Int]
    BY DEF TypeOK, Null
  <2>2. Sums(value', e)[j] = Sums(value', e)[j - 1] + value'[m]
    BY <1>3, <2>1, SumsOf
  <2> QED
    BY <1>6, <1>8, <1>9, <2>2
<1>12. PartWay(g, e)'
  <2>1. g.next \in 1 .. Len(e.refs) + 1 /\ g.next - 1 = j
    BY <1>3
  <2> QED
    BY <1>10, <1>11, <2>1 DEF PartWay
<1>13. g.pc \in Late => Passed(n)'
  BY <1>1, <1>7, PassedKept DEF OnTheWay
<1>14. AttrOf(n)' = AttrOf(n)
  BY <1>1, SchemaKept
<1> QED
  BY <1>4, <1>12, <1>13, <1>14 DEF OnTheWay

\* The if: of the running activation's node has held.
LEMMA BeginsPassed ==
    ASSUME TypeOK, ~Idle, Top.node \in Field, Top.pc = "cond", OnTheWay(Top),
           AttrOf(Top.node).cond = NoExpr \/ (Evaluated("cond") /\ Result # 0)
    PROVE  Passed(Top.node)
<1> PICK c : c = AttrOf(Top.node).cond
  OBVIOUS
<1>1. CASE c = NoExpr
  <2>1. Len(c.refs) = 0
    BY <1>1 DEF NoExpr
  <2> QED
    BY <1>1, <2>1 DEF Passed, Got
<1>2. CASE Evaluated("cond") /\ Result # 0
  <2>1. c = ExprAt(Top.node, "cond") /\ PartWay(Top, c)
    BY DEF ExprAt, OnTheWay
  <2> QED
    BY <1>2, <2>1, Complete DEF Passed
<1> QED
  BY <1>1, <1>2

\* What a step resolves follows what it has consulted.
LEMMA SucceedsFollow ==
    ASSUME TypeOK, TypeOK', StackDiscipline, KindFits, EdgesMirror, Resolve, Succeeds,
           OnTheWay(Top), NEW n \in Field, n = Top.node
    PROVE  Follows(n)'
<1>0. ~Idle /\ UNCHANGED schema /\ Top \in Frame /\ Top = frames[Len(frames)] /\ Len(frames) \in DOMAIN frames
  BY StepKeeps, TopType DEF Top
<1> PICK c : c = AttrOf(n).cond
  OBVIOUS
<1> PICK x : x = AttrOf(n).expr
  OBVIOUS
<1> PICK k : k = AttrOf(n).kind
  OBVIOUS
<1>1. n \in Node /\ Steady(n)
  BY ResolveSteady DEF Node
<1>2. /\ Top.pc = "read" => k = "u1"
      /\ Top.pc = "size" => k = "bytes"
      /\ Top.pc = "value" => k = "value"
      /\ Top.pc = "pos" => k = "at"
  BY <1>0 DEF KindFits
<1>3. k = "u1" => x = NoExpr
  <2>1. schema \in Schema
    BY SchemasAssumption DEF TypeOK
  <2> QED
    BY <2>1 DEF Schema, AttrOf
<1>4. x = NoExpr => Got(n, x, Len(x.refs))
  <2>1. x = NoExpr => Len(x.refs) = 0
    BY DEF NoExpr
  <2> QED
    BY <2>1 DEF Got
<1>5. Top.pc \in Late => Passed(n)
  BY DEF OnTheWay
<1>6. \A pc : Evaluated(pc) /\ pc \in {"size", "value", "pos"} =>
          x # NoExpr /\ Got(n, x, Len(x.refs)) /\ Sum(x) = Result
  <2> SUFFICES ASSUME NEW pc, Evaluated(pc), pc \in {"size", "value", "pos"}
               PROVE  x # NoExpr /\ Got(n, x, Len(x.refs)) /\ Sum(x) = Result
    OBVIOUS
  <2>1. x = ExprAt(Top.node, pc) /\ Top.pc = pc
    BY DEF ExprAt, Evaluated, At
  <2>2. PartWay(Top, x)
    BY <2>1 DEF OnTheWay
  <2> QED
    BY <2>1, <2>2, Complete
<1>7. CASE Top.pc = "cond"
  <2>1. Evaluated("cond") /\ Result = 0 /\ value'[n] = Null
    BY <1>7 DEF Succeeds, Settles
  <2>2. c = ExprAt(Top.node, "cond") /\ PartWay(Top, c)
    BY <1>7 DEF ExprAt, OnTheWay
  <2>3. c # NoExpr /\ Got(n, c, Len(c.refs)) /\ Sum(c) = 0
    BY <2>1, <2>2, Complete
  <2> QED
    BY <1>0, <1>1, <2>1, <2>3, SkippedKept DEF Follows
<1>8. CASE Top.pc = "read"
  <2>1. end'[n] = start'[n] + 1 /\ value'[n] = ByteAt(start'[n])
    BY <1>8 DEF Succeeds, Settles, Reads
  <2>2. Passed(n) /\ k = "u1" /\ Got(n, x, Len(x.refs))
    BY <1>2, <1>3, <1>4, <1>5, <1>8 DEF Late
  <2> QED
    BY <1>0, <1>1, <2>1, <2>2, FilledKept DEF Follows
<1>9. CASE Top.pc = "size"
  <2>1. Evaluated("size") /\ end'[n] = start'[n] + Result /\ value'[n] = Result
    BY <1>9 DEF Succeeds, Settles, Reads
  <2>2. Passed(n) /\ k = "bytes" /\ Got(n, x, Len(x.refs)) /\ Sum(x) = Result
    BY <1>2, <1>5, <1>6, <1>9, <2>1 DEF Late
  <2> QED
    BY <1>0, <1>1, <2>1, <2>2, FilledKept DEF Follows
<1>10. CASE Top.pc = "value"
  <2>1. Evaluated("value") /\ value'[n] = Result
    BY <1>10 DEF Succeeds, Settles
  <2>2. Passed(n) /\ k = "value" /\ Got(n, x, Len(x.refs)) /\ Sum(x) = Result
    BY <1>2, <1>5, <1>6, <1>10, <2>1 DEF Late
  <2> QED
    BY <1>0, <1>1, <2>1, <2>2, FilledKept DEF Follows
<1>11. CASE Top.pc = "pos"
  <2>1. Passed(n) /\ k = "at"
    BY <1>2, <1>5, <1>11 DEF Late
  <2>2. CASE Evaluated("pos") /\ Reads(Result, 1)
    <3>1. start'[n] = Result /\ value'[n] = ByteAt(start'[n])
      BY <1>11, <2>2 DEF Reads
    <3>2. Got(n, x, Len(x.refs)) /\ Sum(x) = Result
      BY <1>6, <2>2
    <3> QED
      BY <1>0, <1>1, <2>1, <3>1, <3>2, FilledKept DEF Follows
  <2>3. CASE x = NoExpr /\ Reads(pos, 1)
    <3>1. value'[n] = ByteAt(start'[n])
      BY <1>11, <2>3 DEF Reads
    <3> QED
      BY <1>0, <1>1, <1>4, <2>1, <2>3, <3>1, FilledKept DEF Follows
  <2> QED
    BY <1>11, <2>2, <2>3 DEF Succeeds, Settles
<1>12. Top.pc \in {"cond", "read", "size", "value", "pos"}
  <2>1. Top.pc # "root"
    BY <1>0, TopType, RootAssumption DEF Fits
  <2> QED
    BY <2>1 DEF Succeeds, EvalPc
<1> QED
  BY <1>7, <1>8, <1>9, <1>10, <1>11, <1>12

\* What the activations have got, after a step of resolve.
LEMMA ResolveWays ==
    ASSUME MembersOnly, TypeOK, TypeOK', StackDiscipline, EdgesMirror, KindFits, Answered, FollowInv,
           Resolve, NEW i \in DOMAIN frames', NEW g, g = frames'[i]
    PROVE  OnTheWay(g)'
<1>1. /\ ~Idle /\ UNCHANGED schema /\ Top = frames[Len(frames)] /\ Len(frames) \in DOMAIN frames
      /\ Len(frames) \in Nat \ {0} /\ Top \in Frame /\ Fits(Top) /\ Top.node \in Node
      /\ \A k \in DOMAIN frames : frames[k] \in Frame /\ Fits(frames[k]) /\ frames[k].node \in Node
  BY StepKeeps, TopState, TopType, StackType DEF Top, TypeOK
<1>2. \A n \in Node : Steady(n)
  BY ResolveSteady
<1>3. \A k \in DOMAIN frames : OnTheWay(frames[k])
  BY DEF FollowInv
<1>4. OnTheWay(Top)
  BY <1>1, <1>3
<1>5. g \in Frame /\ g.node \in Node /\ (g.pc # "root" => g.node \in Field)
  <2>1. g \in Frame /\ (Fits(frames[i]))'
    BY DEF TypeOK
  <2>2. g.pc = "root" <=> g.node = Root
    BY <2>1 DEF Fits
  <2> QED
    BY <2>1, <2>2 DEF Frame, Node
<1>6. CASE i \in DOMAIN frames /\ g = frames[i]
  <2> PICK f : f = frames[i]
    OBVIOUS
  <2>1. f \in Frame /\ Fits(f) /\ Steady(f.node) /\ OnTheWay(f)
    BY <1>1, <1>2, <1>3, <1>6
  <2> QED
    BY <1>1, <1>6, <2>1, WayKept
<1>7. CASE i = Len(frames) /\ g.node = Top.node
  <2>1. Passed(Top.node) /\ Fresh => OnTheWay(g)'
    BY <1>1, <1>2, <1>5, <1>7, FreshWay DEF Fresh
  <2>2. Fresh /\ g.pc \notin Late => OnTheWay(g)'
    BY <1>1, <1>5, <1>7, FreshWay DEF Fresh
  <2>3. g.pc \in {"predecessor", "sibling"} /\ (g.pc = "sibling" => Passed(Top.node)) => OnTheWay(g)'
    <3> SUFFICES ASSUME g.pc \in {"predecessor", "sibling"}, g.pc = "sibling" => Passed(Top.node)
                 PROVE  OnTheWay(g)'
      OBVIOUS
    <3>1. g.pc = "sibling" => Passed(g.node)'
      BY <1>1, <1>2, <1>5, <1>7, PassedKept
    <3> QED
      BY <3>1 DEF OnTheWay, Late
  <2>4. Top.pc \in Late => Passed(Top.node)
    BY <1>4 DEF OnTheWay
  <2>5. CASE Enters
    BY <1>7, <2>2, <2>5 DEF Enters, Advanced, Late
  <2>6. CASE Asks
    BY <1>7, <2>3, <2>6 DEF Asks, Called
  <2>7. CASE Begins
    <3>1. Passed(Top.node)
      BY <1>1, <1>4, <2>7, FieldType, BeginsPassed DEF Begins
    <3> QED
      BY <2>1, <2>7, <3>1 DEF Begins
  <2>8. CASE Refers
    <3>1. CASE Called(NextRef.node, Top.pc) /\ frames'[Len(frames)].next = Top.next /\ frames'[Len(frames)].acc = Top.acc
      <4> PICK f : f = Top
        OBVIOUS
      <4>1. OnTheWay(f)'
        BY <1>1, <1>2, <1>4, WayKept
      <4>2. g.pc = f.pc /\ g.node = f.node /\ g.next = f.next /\ g.acc = f.acc
        BY <1>7, <3>1 DEF Called
      <4> QED
        BY <4>1, <4>2 DEF OnTheWay, PartWay
    <3>2. CASE /\ Advanced(Top.pc)
               /\ state[NextRef.node] = "resolved" /\ value[NextRef.node] # Null
               /\ frames'[Len(frames)].next = Top.next + 1
               /\ frames'[Len(frames)].acc = Top.acc + value[NextRef.node]
      <4>1. g.pc = Top.pc /\ HasNextRef /\ RecordDep(NextRef)
        BY <1>7, <2>8, <3>2 DEF Advanced, Refers
      <4> QED
        BY <1>4, <1>7, <3>2, <4>1, ValueAdded
    <3> QED
      BY <2>8, <3>1, <3>2 DEF Refers
  <2>9. CASE Ensures
    BY <1>7, <2>3, <2>4, <2>9 DEF Ensures, Called, Late
  <2>10. CASE Seeks
    BY <2>1, <2>4, <2>10 DEF Seeks, Late
  <2>11. CASE GoesOn
    BY <2>1, <2>4, <2>11 DEF GoesOn, Late
  <2>12. ~ (\E m, o : Popped(m, o))
    BY <1>1, <1>7, FramesAfter
  <2> QED
    BY <2>5, <2>6, <2>7, <2>8, <2>9, <2>10, <2>11, <2>12, Movements DEF Fails, Succeeds
<1>8. CASE i = Len(frames) + 1 /\ \E m, pc : Called(m, pc)
  <2>1. g.next = 1 /\ g.acc = 0 /\ g.pc \in {"root", "position", "cond"}
    BY <1>8 DEF Called, EntryPc
  <2> QED
    BY <1>1, <1>5, <2>1, FreshWay DEF Late
<1>9. \/ i \in DOMAIN frames /\ g = frames[i]
      \/ i = Len(frames) /\ g.node = Top.node
      \/ i = Len(frames) + 1 /\ \E m, pc : Called(m, pc)
  <2>1. \/ \E pc : Advanced(pc)
        \/ \E m, pc : Called(m, pc)
        \/ \E m, o : Popped(m, o)
    BY Movements DEF Enters, Asks, Begins, Refers, Ensures, Seeks, GoesOn, Fails, Succeeds
  <2> QED
    BY <1>1, <2>1, FramesAfter
<1> QED
  BY <1>6, <1>7, <1>8, <1>9

\* A step of resolve keeps what is resolved, and resolves what follows.
LEMMA ResolveFollows ==
    ASSUME MembersOnly, TypeOK, TypeOK', StackDiscipline, EdgesMirror, KindFits, Answered, FollowInv, Resolve
    PROVE  FollowInv'
<1>1. ~Idle /\ UNCHANGED schema /\ Top = frames[Len(frames)] /\ Len(frames) \in DOMAIN frames
  BY StepKeeps, TopType DEF Top
<1>2. ASSUME NEW n \in Field \ edited', state'[n] = "resolved"
      PROVE  Follows(n)'
  <2>0. n \in Node
    BY DEF Node
  <2>1. CASE state[n] = "resolved"
    <3>1. n \notin edited
      <4>1. edited' = edited \/ \E m : state[m] = "unresolved" /\ edited' = edited \ {m}
        <5>1. \/ \E pc : Advanced(pc)
              \/ \E m, pc : Called(m, pc)
              \/ \E m, o : Popped(m, o)
          BY Movements DEF Enters, Asks, Begins, Refers, Ensures, Seeks, GoesOn, Fails, Succeeds
        <5> QED
          BY <5>1 DEF Advanced, Called, Popped
      <4> QED
        BY <1>2, <2>1, <4>1
    <3>2. Follows(n)
      BY <2>1, <3>1 DEF FollowInv
    <3>3. value'[n] = value[n] /\ start'[n] = start[n] /\ end'[n] = end[n] /\ Steady(n)
      BY <2>0, <2>1, StepKeeps, ResolveSteady
    <3> QED
      BY <1>1, <3>2, <3>3, FollowsKept
  <2>2. CASE state[n] # "resolved"
    <3>1. Succeeds /\ n = Top.node
      BY <1>2, <2>0, <2>2, NewlyResolved
    <3>2. OnTheWay(Top)
      BY <1>1 DEF FollowInv
    <3> QED
      BY <3>1, <3>2, SucceedsFollow
  <2> QED
    BY <2>1, <2>2
<1>3. ASSUME NEW i \in DOMAIN frames'
      PROVE  OnTheWay(frames[i])'
  <2> PICK g : g = frames'[i]
    OBVIOUS
  <2>1. OnTheWay(g)'
    BY <1>3, ResolveWays
  <2> QED
    BY <2>1 DEF OnTheWay, PartWay
<1> QED
  BY <1>2, <1>3 DEF FollowInv

\* An edit that clears D and gives the nodes of E new values.
Edits(D, E) ==
    /\ UNCHANGED <<schema, start>> /\ frames' = <<>> /\ CutEdges(D)
    /\ \A m \in Node : m \in D \cup E => rdeps[m] \subseteq D
    /\ \A m \in Node \ (D \cup E) : state'[m] = state[m] /\ value'[m] = value[m] /\ end'[m] = end[m]
    /\ \A m \in Node : m \in D \ E => state'[m] = "unresolved"
    /\ edited' = (edited \ D) \cup E

\* It leaves what follows the nodes that it does not reach.
LEMMA EditFollows ==
    ASSUME TypeOK, TypeOK', EdgesMirror, FollowInv, NEW D, NEW E, Edits(D, E)
    PROVE  FollowInv'
<1>0. /\ UNCHANGED <<schema, start>> /\ frames' = <<>> /\ CutEdges(D)
      /\ \A m \in Node : m \in D \cup E => rdeps[m] \subseteq D
      /\ \A m \in Node \ (D \cup E) : state'[m] = state[m] /\ value'[m] = value[m] /\ end'[m] = end[m]
      /\ \A m \in Node : m \in D \ E => state'[m] = "unresolved"
      /\ edited' = (edited \ D) \cup E
  BY DEF Edits
<1>1. ASSUME NEW n \in Field \ edited', state'[n] = "resolved"
      PROVE  Follows(n)'
  <2>1. n \in Node /\ n \notin E /\ n \notin D /\ n \notin edited
    BY <1>0, <1>1 DEF Node
  <2>2. state[n] = "resolved" /\ value'[n] = value[n] /\ end'[n] = end[n] /\ start'[n] = start[n]
    BY <1>0, <1>1, <2>1
  <2>3. Follows(n)
    BY <2>1, <2>2 DEF FollowInv
  <2>4. deps'[n] = deps[n]
    BY <1>0, <2>1, CutMirror
  <2>5. \A m \in deps[n] : m \in Node \ (D \cup E)
    BY <1>0, <2>1 DEF EdgesMirror, TypeOK
  <2>6. Steady(n)
    BY <1>0, <2>4, <2>5 DEF Steady
  <2> QED
    BY <1>0, <2>2, <2>3, <2>6, FollowsKept
<1>2. DOMAIN frames' = {}
  BY <1>0
<1> QED
  BY <1>1, <1>2 DEF FollowInv

\* Accesses and invalidations, which set no value, leave them too.
LEMMA CallersFollow ==
    ASSUME TypeOK, TypeOK', EdgesMirror, FollowInv, Invalidatable \subseteq {Root}
    PROVE  /\ \A n \in Node : Access(n) => FollowInv'
           /\ \A n \in Dirtiable : MarkDirty(n) => FollowInv'
           /\ \A n \in Dirtiable, v \in EditValues : SetValue(n, v) => FollowInv'
           /\ \A n \in Invalidatable : Invalidate(n) => FollowInv'
           /\ UNCHANGED vars => FollowInv'
<1>1. ASSUME NEW a \in Node, Access(a) PROVE FollowInv'
  <2>1. /\ UNCHANGED <<schema, value, start, end, deps>> /\ frames' = <<Activation(a)>>
        /\ state' = [state EXCEPT ![a] = "resolving"] /\ state[a] = "unresolved" /\ edited' = edited \ {a}
    BY <1>1 DEF Access, stored, edges
  <2>2. \A m \in Node : state'[m] = "resolved" <=> state[m] = "resolved"
    BY <2>1 DEF TypeOK
  <2>3. \A n \in Node : Steady(n)
    BY <2>1, <2>2 DEF Steady, TypeOK
  <2>4. ASSUME NEW n \in Field \ edited', state'[n] = "resolved"
        PROVE  Follows(n)'
    <3>1. n \in Node /\ state[n] = "resolved" /\ n \notin edited
      BY <2>1, <2>2, <2>4 DEF Node
    <3>2. Follows(n) /\ Steady(n)
      BY <2>3, <3>1 DEF FollowInv
    <3> QED
      BY <2>1, <3>2, FollowsKept
  <2>5. ASSUME NEW i \in DOMAIN frames'
        PROVE  OnTheWay(frames[i])'
    <3> PICK g : g = Activation(a)
      OBVIOUS
    <3>1. frames'[i] = g
      BY <2>1, <2>5
    <3>2. g.node = a /\ g.next = 1 /\ g.acc = 0 /\ g.pc = EntryPc(a)
      BY DEF Activation, FrameOf
    <3>3. g.pc \in {"root", "position", "cond"} /\ (g.pc # "root" => g.node \in Field)
      BY <3>2 DEF EntryPc, Node
    <3>4. OnTheWay(g)'
      BY <2>1, <3>2, <3>3, FreshWay DEF Late
    <3> QED
      BY <3>1, <3>4 DEF OnTheWay, PartWay
  <2> QED
    BY <2>4, <2>5 DEF FollowInv
<1>2. ASSUME NEW a \in Dirtiable, MarkDirty(a) PROVE FollowInv'
  <2> PICK D : D = Reached({a})
    OBVIOUS
  <2>1. D \subseteq Node /\ \A m \in D : rdeps[m] \subseteq D
    BY EditsAssumption, ReachedClosed DEF Node
  <2>2. UNCHANGED <<schema, start>> /\ frames' = <<>> /\ CutEdges(D) /\ edited' = edited \ D
    BY <1>2 DEF MarkDirty, Idle
  <2>3. \A m \in Node : IF m \in D THEN state'[m] = "unresolved"
                        ELSE state'[m] = state[m] /\ value'[m] = value[m] /\ end'[m] = end[m]
    BY <1>2 DEF MarkDirty, Cleared
  <2>4. Edits(D, {})
    BY <2>1, <2>2, <2>3 DEF Edits
  <2> QED
    BY <2>4, EditFollows
<1>3. ASSUME NEW a \in Dirtiable, NEW v \in EditValues, SetValue(a, v) PROVE FollowInv'
  <2> PICK D : D = Reached(rdeps[a])
    OBVIOUS
  <2>0. a \in Node /\ rdeps[a] \in SUBSET Node
    BY EditsAssumption DEF TypeOK, Node
  <2>1. rdeps[a] \subseteq D /\ D \subseteq Node /\ \A m \in D : rdeps[m] \subseteq D
    BY <2>0, ReachedClosed
  <2>2. UNCHANGED <<schema, start>> /\ frames' = <<>> /\ CutEdges(D) /\ edited' = (edited \ D) \cup {a}
    BY <1>3 DEF SetValue, Idle
  <2>3. \A m \in Node \ {a} : IF m \in D THEN state'[m] = "unresolved"
                              ELSE state'[m] = state[m] /\ value'[m] = value[m]
    BY <1>3 DEF SetValue, Cleared
  <2>4. \A m \in Node : m \notin D => end'[m] = end[m]
    BY <1>3 DEF SetValue, Cleared
  <2>5. \A m \in Node \ (D \cup {a}) : state'[m] = state[m] /\ value'[m] = value[m] /\ end'[m] = end[m]
    BY <2>3, <2>4
  <2>6. Edits(D, {a})
    BY <2>0, <2>1, <2>2, <2>3, <2>5 DEF Edits
  <2> QED
    BY <2>6, EditFollows
<1>4. ASSUME NEW a \in Invalidatable, Invalidate(a) PROVE FollowInv'
  <2>1. a = Root /\ frames' = <<>>
    BY <1>4 DEF Invalidate, Idle
  <2>2. \A n \in Field : state'[n] = "unresolved"
    BY <1>4, <2>1 DEF Invalidate, Cleared, Node
  <2>3. DOMAIN frames' = {}
    BY <2>1
  <2> QED
    BY <2>2, <2>3 DEF FollowInv
<1>5. ASSUME UNCHANGED vars PROVE FollowInv'
  <2>1. UNCHANGED <<schema, state, value, start, end, deps, frames, edited>>
    BY <1>5 DEF vars, edges
  <2>2. \A n \in Node : Steady(n)
    BY <2>1 DEF Steady
  <2>3. ASSUME NEW n \in Field \ edited', state'[n] = "resolved"
        PROVE  Follows(n)'
    <3>1. n \in Node /\ Follows(n)
      BY <2>1, <2>3 DEF FollowInv, Node
    <3> QED
      BY <2>1, <2>2, <3>1, FollowsKept
  <2>4. ASSUME NEW i \in DOMAIN frames'
        PROVE  OnTheWay(frames[i])'
    <3> PICK g : g = frames[i]
      OBVIOUS
    <3>0. i \in DOMAIN frames /\ frames'[i] = g
      BY <2>1, <2>4
    <3>1. g \in Frame /\ Fits(g) /\ OnTheWay(g)
      BY <3>0 DEF FollowInv, TypeOK
    <3>2. OnTheWay(g)'
      BY <2>1, <2>2, <3>1, WayKept DEF Frame
    <3> QED
      BY <3>0, <3>2 DEF OnTheWay, PartWay
  <2> QED
    BY <2>3, <2>4 DEF FollowInv
<1> QED
  BY <1>1, <1>2, <1>3, <1>4, <1>5

\* What follows is current.
LEMMA FollowsHolds ==
    ASSUME TypeOK, NEW n \in Field, Follows(n)
    PROVE  FollowsReferences(n)
<1> PICK c : c = AttrOf(n).cond
  OBVIOUS
<1> PICK x : x = AttrOf(n).expr
  OBVIOUS
<1>1. ASSUME NEW e, e.refs \in Seq(Ref), Got(n, e, Len(e.refs))
      PROVE  Known(e)
  BY <1>1 DEF Known, RefsOf, Got
<1>2. c.refs \in Seq(Ref) /\ x.refs \in Seq(Ref)
  BY AttrType
<1>3. CASE Skipped(n)
  BY <1>1, <1>2, <1>3 DEF Skipped, FollowsReferences
<1>4. CASE Filled(n)
  <2>1. Known(c) /\ Known(x) /\ Shaped(n) /\ (c # NoExpr => Sum(c) # 0)
    BY <1>1, <1>2, <1>4 DEF Filled, Passed
  <2>2. AttrOf(n).kind \in {"u1", "bytes", "value", "at"}
    BY SchemaType DEF Attr
  <2> QED
    BY <2>1, <2>2 DEF Shaped, FollowsReferences
<1> QED
  BY <1>3, <1>4 DEF Follows

\* After any history of reads, MarkDirty, SetValue and whole-tree
\* invalidations, a resolved node that was not itself edited holds what its
\* attribute makes of the present values of the nodes it refers to and of the
\* bytes where it was read (node.go:190-260, resolve.go:540-706): for every
\* schema whose references are all member accesses, since a bare identifier
\* leaves no edge.  That it was read where the field before it now ends is not
\* so: FieldsStayContiguous.
THEOREM ReferencesFollowed ==
    ASSUME MembersOnly, Invalidatable \subseteq {Root}
    PROVE  Spec => []ReferencesFollowEdits
<1>1. Init => KindFits /\ Answered /\ FollowInv
  <2>1. Init => DOMAIN frames = {} /\ Idle /\ \A n \in Field : state[n] = "unresolved"
    BY DEF Init, Idle, Node
  <2> QED
    BY <2>1 DEF KindFits, Answered, FollowInv
<1>2. TypeOK /\ TypeOK' /\ StackDiscipline /\ EdgesMirror /\ KindFits /\ Answered /\ FollowInv
        /\ [Next]_vars => (KindFits /\ Answered /\ FollowInv)'
  <2>1. TypeOK /\ TypeOK' /\ StackDiscipline /\ EdgesMirror /\ KindFits /\ Answered /\ FollowInv
          /\ [Next]_vars => FollowInv'
    BY ResolveFollows, CallersFollow DEF Next
  <2> QED
    BY <2>1, PointsKept
<1>3. TypeOK /\ FollowInv => ReferencesFollowEdits
  BY FollowsHolds DEF FollowInv, ReferencesFollowEdits
<1>4. Spec => []EdgesMirror
  BY EdgesMirrored
<1> QED
  BY <1>1, <1>2, <1>3, <1>4, TypeCorrect, StackSafe, PTL DEF Spec
=============================================================================
