------------------------------ MODULE LazyTree ------------------------------
(***************************************************************************)
(* The lazy parse tree of kaitai/eval: one struct (Root) whose seq fields  *)
(* and instances are resolved on demand, the dependency edges recorded     *)
(* while expressions are evaluated, and the edits that use those edges.    *)
(*                                                                         *)
(* The Go call stack is explicit: every activation of Tree.resolve is a    *)
(* frame, and one step is what an activation does between two calls of     *)
(* another.  The tree is single-threaded, so callers (Access, SetValue,    *)
(* MarkDirty, Invalidate) find the stack empty.                            *)
(***************************************************************************)
EXTENDS Integers, Sequences, FiniteSets

CONSTANTS
    Root,          \* the struct node
    Field,         \* its seq fields and instances
    Schemas,       \* the schemas, each bound to its input bytes
    EditValues,    \* the values SetValue may store
    Dirtiable,     \* the nodes a caller edits or marks dirty
    Invalidatable, \* the nodes a caller invalidates
    MaxEvalDepth   \* maxEvalDepth, 32 in the code

Node == {Root} \cup Field

(***************************************************************************)
(* Schemas.  An expression is a literal plus the values it refers to; a    *)
(* reference is a bare identifier ("ident": Context.Resolve and OnResolve) *)
(* or a member access such as _root.len ("member": LookupChild).           *)
(***************************************************************************)
Ref == [via : {"ident", "member"}, node : Field]
Expr == [lit : Nat, refs : Seq(Ref)]
NoExpr == [lit |-> -1, refs |-> <<>>]

\* "u1" and "bytes" are seq fields, "value" and "at" instances; expr is the
\* size: of "bytes", the value: of "value", the pos: of "at".
Attr == [kind : {"u1", "bytes", "value", "at"},
         cond : Expr \cup {NoExpr}, expr : Expr \cup {NoExpr}]
Schema ==
    {s \in [seq : Seq(Field), attr : [Field -> Attr], data : Seq(Nat)] :
        /\ \A j, k \in DOMAIN s.seq : s.seq[j] = s.seq[k] => j = k
        /\ \A n \in Field :
              /\ s.attr[n].kind = "u1" => s.attr[n].expr = NoExpr
              /\ s.attr[n].kind \in {"bytes", "value"} => s.attr[n].expr # NoExpr
              /\ s.attr[n].kind \in {"u1", "bytes"} <=> \E k \in DOMAIN s.seq : s.seq[k] = n}

ASSUME RootAssumption == Root \notin Field
ASSUME SchemasAssumption == Schemas \subseteq Schema
ASSUME EditsAssumption == /\ EditValues \subseteq Nat
                          /\ Dirtiable \subseteq Field
                          /\ Invalidatable \subseteq Node
ASSUME DepthAssumption == MaxEvalDepth \in Nat

VARIABLES
    schema,   \* fixed when the tree is built
    state,    \* Node.state
    value,    \* Node.value: the integer, or the length of a byte field
    start,    \* Node.startPos
    end,      \* Node.span.EndIndex
    pos,      \* the position of the shared stream
    deps,     \* Node.deps
    rdeps,    \* Node.rdeps
    frames,   \* the activations of resolve; their nodes are resolvingStack
    edited    \* history: nodes whose value is the caller's, not the stream's

vars == <<schema, state, value, start, end, pos, deps, rdeps, frames, edited>>
stored == <<value, start, end, pos>>
edges == <<deps, rdeps>>

NodeState == {"unresolved", "resolving", "resolved", "error"}
EvalPc == {"cond", "size", "value", "pos"}
Pc == EvalPc \cup {"root", "position", "predecessor", "read", "siblings", "sibling"}
Frame == [node : Node, pc : Pc, next : Nat \ {0}, acc : Nat]

Null == -1   \* KindNone: the field was skipped by its if:

\* What the schema says of a node.
SeqFields == {schema.seq[k] : k \in DOMAIN schema.seq}
AttrOf(n) == schema.attr[n]

\* The program point of an activation is one of its node's resolve function.
Fits(f) ==
    /\ f.pc = "root" <=> f.node = Root
    /\ f.pc \in {"position", "predecessor"} => f.node \in SeqFields
    /\ f.pc = "sibling" => f.next \in DOMAIN schema.seq

TypeOK ==
    /\ schema \in Schemas
    /\ state \in [Node -> NodeState]
    /\ value \in [Node -> Nat \cup {Null}]
    /\ start \in [Node -> Int]
    /\ end \in [Node -> Int]
    /\ pos \in Int
    /\ deps \in [Node -> SUBSET Node]
    /\ rdeps \in [Node -> SUBSET Node]
    /\ frames \in Seq(Frame)
    /\ \A k \in DOMAIN frames : Fits(frames[k])
    /\ edited \subseteq Node

Init ==
    /\ schema \in Schemas
    /\ state = [n \in Node |-> "unresolved"]
    /\ value = [n \in Node |-> Null]
    /\ start = [n \in Node |-> IF n = Root THEN 0 ELSE -1]
    /\ end = [n \in Node |-> 0]
    /\ pos = 0
    /\ deps = [n \in Node |-> {}]
    /\ rdeps = [n \in Node |-> {}]
    /\ frames = <<>>
    /\ edited = {}

-----------------------------------------------------------------------------
(* Positions, expressions and program points.                              *)

SeqIndex(n) == CHOOSE k \in DOMAIN schema.seq : schema.seq[k] = n

\* The node whose span decides where seq field n starts.
Before(n) == IF SeqIndex(n) = 1 THEN Root ELSE schema.seq[SeqIndex(n) - 1]
BeforeEnd(n) == IF SeqIndex(n) = 1 THEN start[Root] ELSE end[Before(n)]

ExprAt(n, pc) == IF pc = "cond" THEN AttrOf(n).cond ELSE AttrOf(n).expr

\* Faulty variant: instances are taken for seq fields.
EntryPcNoInstance(n) == IF n = Root THEN "root" ELSE "position"

\* Where an activation starts, and where it goes when the if: has held.
EntryPc(n) == IF n = Root THEN "root"
              ELSE IF n \in SeqFields THEN "position" ELSE "cond"
BodyPc(n) == CASE AttrOf(n).kind = "u1" -> "read"
               [] AttrOf(n).kind = "bytes" -> "size"
               [] AttrOf(n).kind = "value" -> "value"
               [] AttrOf(n).kind = "at" -> "siblings"

-----------------------------------------------------------------------------
(* The stack of activations.                                               *)

Idle == frames = <<>>
Top == frames[Len(frames)]
FrameOf(n, pc, next, acc) == [node |-> n, pc |-> pc, next |-> next, acc |-> acc]
Activation(n) == FrameOf(n, EntryPc(n), 1, 0)

\* The running activation continues at pc.
Goto(pc) == frames' = [frames EXCEPT ![Len(frames)] = FrameOf(Top.node, pc, 1, 0)]

\* It calls resolve on m and will continue at pc with item next.
Call(m, pc, next) ==
    /\ frames' = Append([frames EXCEPT ![Len(frames)] =
                           FrameOf(Top.node, pc, next, Top.acc)], Activation(m))
    /\ state' = [state EXCEPT ![m] = "resolving"]
    /\ edited' = edited \ {m}

\* Faulty variants: an error leaves the sentinel in place, or is not cached.
ReturnUnmarked(outcome) ==
    /\ frames' = SubSeq(frames, 1, Len(frames) - 1)
    /\ state' = [state EXCEPT ![Top.node] = IF outcome = "error" THEN @ ELSE outcome]
    /\ UNCHANGED edited
ReturnUncached(outcome) ==
    /\ frames' = SubSeq(frames, 1, Len(frames) - 1)
    /\ state' = [state EXCEPT ![Top.node] = IF outcome = "error" THEN "unresolved" ELSE outcome]
    /\ UNCHANGED edited

\* It returns, with a value or with an error.
Return(outcome) ==
    /\ frames' = SubSeq(frames, 1, Len(frames) - 1)
    /\ state' = [state EXCEPT ![Top.node] = outcome]
    /\ UNCHANGED edited

\* resolve was called on m, which is on the stack: m is marked, and the
\* running activation returns the error.
Cycle(m) ==
    /\ frames' = SubSeq(frames, 1, Len(frames) - 1)
    /\ state' = [state EXCEPT ![m] = "error", ![Top.node] = "error"]
    /\ UNCHANGED edited

\* Faulty variant: every activation counts, not only those evaluating.
StackDepth == Len(frames)

EvalDepth == Cardinality({k \in DOMAIN frames : frames[k].pc \in EvalPc})

-----------------------------------------------------------------------------
(* Tree.resolve, one step per stretch between two calls.                   *)

At(pc) == ~Idle /\ Top.pc = pc

ResolveRoot ==
    /\ At("root")
    /\ start' = [start EXCEPT ![Root] = 0]
    /\ end' = [end EXCEPT ![Root] = 0]
    /\ Return("resolved")
    /\ UNCHANGED <<schema, value, pos, edges>>

\* A predecessor that is neither unresolved nor resolving gives its span, an
\* errored one included (the comparison with stateSpanResolved).
FindPosition ==
    LET n == Top.node
        b == Before(n) IN
    /\ At("position")
    /\ \/ /\ state[b] \in {"resolved", "error"}
          /\ start' = [start EXCEPT ![n] = BeforeEnd(n)]
          /\ Goto("cond")
          /\ UNCHANGED <<state, edited>>
       \/ /\ state[b] = "unresolved"
          /\ Call(b, "predecessor", 1)
          /\ UNCHANGED start
       \/ /\ state[b] = "resolving"
          /\ Cycle(b)
          /\ UNCHANGED start
    /\ UNCHANGED <<schema, value, end, pos, edges>>

\* Faulty variant: the predecessor's error is dropped.
AfterAnyPredecessor ==
    LET n == Top.node IN
    /\ At("predecessor")
    /\ start' = [start EXCEPT ![n] = BeforeEnd(n)]
    /\ Goto("cond")
    /\ UNCHANGED <<schema, state, edited, value, end, pos, edges>>

AfterPredecessor ==
    LET n == Top.node IN
    /\ At("predecessor")
    /\ \/ /\ state[Before(n)] = "error"
          /\ Return("error")
          /\ UNCHANGED start
       \/ /\ state[Before(n)] # "error"
          /\ start' = [start EXCEPT ![n] = BeforeEnd(n)]
          /\ Goto("cond")
          /\ UNCHANGED <<state, edited>>
    /\ UNCHANGED <<schema, value, end, pos, edges>>

\* The attribute has no if:.
SkipCondition ==
    /\ At("cond")
    /\ AttrOf(Top.node).cond = NoExpr
    /\ Goto(BodyPc(Top.node))
    /\ UNCHANGED <<schema, state, stored, edges, edited>>

\* An expression is being evaluated and its next reference is r.
Evaluating == ~Idle /\ Top.pc \in EvalPc /\ ExprAt(Top.node, Top.pc) # NoExpr
NextRef == ExprAt(Top.node, Top.pc).refs[Top.next]
HasNextRef == Evaluating /\ Top.next <= Len(ExprAt(Top.node, Top.pc).refs)

\* Faulty variant: no edge is recorded.
RecordNothing(r) == UNCHANGED edges

\* recordDep: a member access adds the edge before the target is resolved.
RecordDep(r) ==
    IF r.via = "member" /\ r.node # Top.node
    THEN /\ deps' = [deps EXCEPT ![Top.node] = @ \cup {r.node}]
         /\ rdeps' = [rdeps EXCEPT ![r.node] = @ \cup {Top.node}]
    ELSE UNCHANGED edges

EvaluateReference ==
    LET r == NextRef
        m == r.node IN
    /\ HasNextRef
    /\ EvalDepth <= MaxEvalDepth
    /\ RecordDep(r)
    /\ \/ /\ state[m] = "unresolved"
          /\ Call(m, Top.pc, Top.next)
       \/ /\ state[m] = "resolved" /\ value[m] # Null
          /\ frames' = [frames EXCEPT ![Len(frames)] =
                          FrameOf(Top.node, Top.pc, Top.next + 1, Top.acc + value[m])]
          /\ UNCHANGED <<state, edited>>
       \/ /\ \/ state[m] = "error"
             \/ state[m] = "resolved" /\ value[m] = Null
             \/ state[m] = "resolving" /\ r.via = "ident"
          /\ Return("error")
       \/ /\ state[m] = "resolving" /\ r.via = "member"
          /\ Cycle(m)
    /\ UNCHANGED <<schema, stored>>

ExceedDepth ==
    /\ Evaluating
    /\ EvalDepth > MaxEvalDepth
    /\ Return("error")
    /\ UNCHANGED <<schema, stored, edges>>

\* The expression at pc is evaluated, with this result.
Evaluated(pc) == /\ At(pc) /\ Evaluating /\ ~HasNextRef
                 /\ EvalDepth <= MaxEvalDepth
Result == ExprAt(Top.node, Top.pc).lit + Top.acc

\* A false if: leaves the field null, with an empty span.
FinishCondition ==
    LET n == Top.node IN
    /\ Evaluated("cond")
    /\ \/ /\ Result # 0
          /\ Goto(BodyPc(n))
          /\ UNCHANGED <<state, edited, value, end>>
       \/ /\ Result = 0
          /\ value' = [value EXCEPT ![n] = Null]
          /\ end' = [end EXCEPT ![n] = IF n \in SeqFields THEN start[n] ELSE 0]
          /\ Return("resolved")
    /\ UNCHANGED <<schema, start, pos, edges>>

\* seekToStart, then a read of len bytes that are stored as v; it fails
\* when the stream is shorter.
ReadAt(n, at, len, v) ==
    IF at + len <= Len(schema.data)
    THEN /\ value' = [value EXCEPT ![n] = v]
         /\ start' = [start EXCEPT ![n] = at]
         /\ end' = [end EXCEPT ![n] = at + len]
         /\ pos' = at + len
         /\ Return("resolved")
    ELSE /\ start' = [start EXCEPT ![n] = at]
         /\ pos' = Len(schema.data)
         /\ Return("error")
         /\ UNCHANGED <<value, end>>

ByteAt(at) == IF at + 1 \in DOMAIN schema.data THEN schema.data[at + 1] ELSE 0

ReadByte ==
    /\ At("read")
    /\ ReadAt(Top.node, start[Top.node], 1, ByteAt(start[Top.node]))
    /\ UNCHANGED <<schema, edges>>

\* readBytes seeks again after the size was evaluated: the evaluation may
\* have moved the stream.
ReadSized ==
    /\ Evaluated("size")
    /\ ReadAt(Top.node, start[Top.node], Result, Result)
    /\ UNCHANGED <<schema, edges>>

ComputeValue ==
    LET n == Top.node IN
    /\ Evaluated("value")
    /\ value' = [value EXCEPT ![n] = Result]
    /\ end' = [end EXCEPT ![n] = 0]
    /\ Return("resolved")
    /\ UNCHANGED <<schema, start, pos, edges>>

\* ensureSeqResolvedAndSeeked: resolve the unresolved seq fields in order,
\* skip those that are resolving or failed, then seek to the last one's end.
FirstUnread ==
    {k \in DOMAIN schema.seq :
        /\ state[schema.seq[k]] = "unresolved"
        /\ \A j \in 1 .. k - 1 : state[schema.seq[j]] # "unresolved"}
LastField == schema.seq[Len(schema.seq)]

\* Faulty variant: the stream is left where the last read put it.
EnsureSiblingUnseeked ==
    /\ At("siblings")
    /\ \/ \E k \in FirstUnread : Call(schema.seq[k], "sibling", k)
       \/ FirstUnread = {} /\ Goto("pos") /\ UNCHANGED <<state, edited>>
    /\ UNCHANGED <<schema, stored, edges>>

EnsureSibling ==
    /\ At("siblings")
    /\ \/ /\ \E k \in FirstUnread : Call(schema.seq[k], "sibling", k)
          /\ UNCHANGED pos
       \/ /\ FirstUnread = {}
          /\ pos' = IF schema.seq # <<>> /\ state[LastField] = "resolved"
                    THEN end[LastField] ELSE pos
          /\ Goto("pos")
          /\ UNCHANGED <<state, edited>>
    /\ UNCHANGED <<schema, value, start, end, edges>>

AfterSibling ==
    LET sibling == schema.seq[Top.next] IN
    /\ At("sibling")
    /\ \/ /\ state[sibling] = "error"
          /\ Return("error")
       \/ /\ state[sibling] # "error"
          /\ Goto("siblings")
          /\ UNCHANGED <<state, edited>>
    /\ UNCHANGED <<schema, stored, edges>>

\* An instance with pos: reads there, one without reads where the stream is.
ReadInstance ==
    LET n == Top.node IN
    /\ \/ /\ Evaluated("pos")
          /\ ReadAt(n, Result, 1, ByteAt(Result))
       \/ /\ At("pos") /\ AttrOf(n).expr = NoExpr
          /\ ReadAt(n, pos, 1, ByteAt(pos))
    /\ UNCHANGED <<schema, edges>>

Resolve ==
    \/ ResolveRoot \/ FindPosition \/ AfterPredecessor
    \/ SkipCondition \/ EvaluateReference \/ ExceedDepth \/ FinishCondition
    \/ ReadByte \/ ReadSized \/ ComputeValue
    \/ EnsureSibling \/ AfterSibling \/ ReadInstance

-----------------------------------------------------------------------------
(* The callers.                                                            *)

\* Node.Resolve: a resolved or failed node answers from its cache.
Access(n) ==
    /\ Idle
    /\ state[n] = "unresolved"
    /\ frames' = <<Activation(n)>>
    /\ state' = [state EXCEPT ![n] = "resolving"]
    /\ edited' = edited \ {n}
    /\ UNCHANGED <<schema, stored, edges>>

\* Faulty variants: dependents of dependents are missed; all is dirtied.
ReachedDirectly(seeds) == seeds \cup UNION {rdeps[m] : m \in seeds}
ReachedAll(seeds) == Node

\* Everything markDirty reaches from the nodes in seeds along rdeps.
Reached(seeds) ==
    {m \in Node : \A S \in SUBSET Node :
        (seeds \subseteq S /\ \A x \in S : rdeps[x] \subseteq S) => m \in S}

\* Faulty variant: the dirtied nodes stay in the rdeps of their dependencies.
CutForward(D) ==
    /\ deps' = [n \in Node |-> IF n \in D THEN {} ELSE deps[n]]
    /\ UNCHANGED rdeps

\* markDirty on every node of D: its cache is cleared and it leaves the rdeps
\* of the nodes it consulted.  startPos is kept.
CutEdges(D) ==
    /\ deps' = [n \in Node |-> IF n \in D THEN {} ELSE deps[n]]
    /\ rdeps' = [n \in Node |-> rdeps[n] \ {d \in D : n \in deps[d]}]

Cleared(f, D, v) == [n \in Node |-> IF n \in D THEN v ELSE f[n]]

MarkDirty(n) ==
    LET D == Reached({n}) IN
    /\ Idle
    /\ state' = Cleared(state, D, "unresolved")
    /\ value' = Cleared(value, D, Null)
    /\ end' = Cleared(end, D, 0)
    /\ edited' = edited \ D
    /\ CutEdges(D)
    /\ UNCHANGED <<schema, start, pos, frames>>

\* SetValue dirties the dependents, then stores v; the span is kept.
SetValue(n, v) ==
    LET D == Reached(rdeps[n]) IN
    /\ Idle
    /\ state' = [Cleared(state, D, "unresolved") EXCEPT ![n] = "resolved"]
    /\ value' = [Cleared(value, D, Null) EXCEPT ![n] = v]
    /\ end' = Cleared(end, D, 0)
    /\ edited' = (edited \ D) \cup {n}
    /\ CutEdges(D)
    /\ UNCHANGED <<schema, start, pos, frames>>

\* Invalidate drops the edges of a whole subtree, one-sidedly.
Invalidate(n) ==
    LET D == IF n = Root THEN Node ELSE {n} IN
    /\ Idle
    /\ state' = Cleared(state, D, "unresolved")
    /\ value' = Cleared(value, D, Null)
    /\ start' = Cleared(start, D, -1)
    /\ end' = Cleared(end, D, 0)
    /\ deps' = Cleared(deps, D, {})
    /\ rdeps' = Cleared(rdeps, D, {})
    /\ edited' = edited \ D
    /\ UNCHANGED <<schema, pos, frames>>

Next ==
    \/ Resolve
    \/ \E n \in Node : Access(n)
    \/ \E n \in Dirtiable : MarkDirty(n) \/ \E v \in EditValues : SetValue(n, v)
    \/ \E n \in Invalidatable : Invalidate(n)

\* A resolution that was started runs on: it is one synchronous call.
Spec == Init /\ [][Next]_vars /\ WF_vars(Resolve)

-----------------------------------------------------------------------------
(* Properties.                                                             *)

\* Activation f called resolve on m, or is about to.
Waits(f, m) ==
    \/ f.pc = "predecessor" /\ Before(f.node) = m
    \/ f.pc = "sibling" /\ schema.seq[f.next] = m
    \/ /\ f.pc \in EvalPc
       /\ \E r \in {ExprAt(f.node, f.pc).refs[k] :
                      k \in {f.next} \cap DOMAIN ExprAt(f.node, f.pc).refs} : r.node = m

\* No node is resolved re-entrantly.
Distinct == \A j, k \in DOMAIN frames : frames[j].node = frames[k].node => j = k

\* The cycle sentinel is never left behind by an error path: only a node of
\* the stack is Resolving, and such a node is Resolving or marked by a cycle.
Sentinel ==
    /\ \A n \in Node : state[n] = "resolving" => \E k \in DOMAIN frames : frames[k].node = n
    /\ \A k \in DOMAIN frames : state[frames[k].node] \in {"resolving", "error"}

\* Each activation waits for the one above it.
CallChain == \A k \in 1 .. Len(frames) - 1 : Waits(frames[k], frames[k + 1].node)

\* Once an activation's node has been marked by a cycle, what runs is already
\* bound to fail, and so is everything down to that activation.
FailurePropagates ==
    (\E k \in DOMAIN frames : state[frames[k].node] = "error") =>
        \E m \in Node : Waits(Top, m) /\ state[m] = "error"

\* The discipline of resolvingStack and of the Resolving sentinel (resolve,
\* push/popResolving), on every path, error paths and cycles included.
StackDiscipline == Distinct /\ Sentinel /\ CallChain /\ FailurePropagates

\* The two directions of the dependency graph mirror each other; markDirty
\* and SetValue walk one of them and cut the other.
EdgesMirror == \A m, n \in Node : m \in deps[n] <=> n \in rdeps[m]

\* A resolved node rests on resolved ones only: markDirty and SetValue leave
\* no node behind whose recorded dependency was dirtied.
NoStaleDependent ==
    \A n \in Node \ edited : state[n] = "resolved" => \A m \in deps[n] : state[m] = "resolved"

\* Whether every reference in expression e has a value, the partial sums of
\* its references under v, and its value.
RefsOf(e) == {e.refs[k] : k \in DOMAIN e.refs}
Known(e) == \A r \in RefsOf(e) : state[r.node] = "resolved" /\ value[r.node] # Null
Sums(v, e) == LET s[k \in 0 .. Len(e.refs)] ==
                      IF k = 0 THEN 0 ELSE s[k - 1] + v[e.refs[k].node]
              IN  s
Sum(e) == e.lit + Sums(value, e)[Len(e.refs)]

\* What n holds is what its attribute makes of the present values of the nodes
\* it refers to and of the bytes at the position where n was read, which need
\* not be the present end of the field before it: see FieldsStayContiguous.
FollowsReferences(n) ==
    LET a == AttrOf(n) IN
    IF a.cond # NoExpr /\ Known(a.cond) /\ Sum(a.cond) = 0
    THEN value[n] = Null
    ELSE /\ a.cond # NoExpr => Known(a.cond)
         /\ a.expr # NoExpr => Known(a.expr)
         /\ CASE a.kind = "u1" -> end[n] = start[n] + 1 /\ value[n] = ByteAt(start[n])
              [] a.kind = "bytes" -> end[n] = start[n] + Sum(a.expr) /\ value[n] = Sum(a.expr)
              [] a.kind = "value" -> value[n] = Sum(a.expr)
              [] a.kind = "at" -> /\ a.expr # NoExpr => start[n] = Sum(a.expr)
                                  /\ value[n] = ByteAt(start[n])

\* After any edits no resolved node rests on a value, referred to in its if:,
\* size:, value: or pos:, that has changed since: each has the value and the
\* length that a fresh resolution at its position would give it (node.go:
\* SetValue "dirties every node that depended on it").  The position itself is
\* not claimed: FieldsStayContiguous.
ReferencesFollowEdits ==
    Idle => \A n \in Field \ edited : state[n] = "resolved" => FollowsReferences(n)

\* markDirty reaches "the nodes whose previous resolution consulted this one"
\* (node.go:207): a resolved field still starts where the field before it, whose
\* span its resolution took, now ends.  It does not: resolveSeqField reads the
\* span of the predecessor without recording a dependency, so that a field
\* behind one that an edit has made longer or shorter keeps its old position.
FieldsStayContiguous ==
    Idle => \A n \in SeqFields \ edited :
        state[n] = "resolved" /\ state[Before(n)] = "resolved" => start[n] = BeforeEnd(n)

\* What resolving n refers to: the nodes its expressions name, the field
\* before it, and for an instance without pos: the fields it is read after.
Uses(n) ==
    {r.node : r \in RefsOf(AttrOf(n).cond) \cup RefsOf(AttrOf(n).expr)}
    \cup (IF n \in SeqFields THEN {Before(n)} \ {Root} ELSE {})
    \cup (IF AttrOf(n).kind = "at" /\ AttrOf(n).expr = NoExpr THEN SeqFields ELSE {})

UsesOf == [n \in Field |-> Uses(n)]

\* resolveInstance reads every seq field before a positioned instance too.
ReadsOf == [n \in Field |-> Uses(n) \cup (IF AttrOf(n).kind = "at" THEN SeqFields ELSE {})]

Acyclic(G) == \A S \in (SUBSET Field) \ {{}} : \E n \in S : G[n] \cap S = {}

\* Without edits the layout does not depend on the order of access: each
\* field starts where the one before it ends and, unless a field refers to an
\* instance that is read after it, an instance without pos: is read at the
\* end of the fields, wherever earlier instances left the stream.
Layout ==
    Idle => \A n \in Field : state[n] = "resolved" =>
        /\ n \in SeqFields /\ state[Before(n)] = "resolved" => start[n] = BeforeEnd(n)
        /\ (/\ AttrOf(n).kind = "at" /\ AttrOf(n).expr = NoExpr /\ value[n] # Null
            /\ schema.seq # <<>> /\ state[LastField] = "resolved" /\ Acyclic(ReadsOf))
           => start[n] = end[LastField]

\* References are not nested deeper than maxEvalDepth.
Shallow == \E h \in [Field -> 1 .. MaxEvalDepth] : \A n \in Field :
    /\ \A m \in ReadsOf[n] : h[m] <= h[n]
    /\ \A r \in RefsOf(AttrOf(n).cond) \cup RefsOf(AttrOf(n).expr) : h[r.node] < h[n]

\* What a node may fail on: the end of the input, a value that its if: skipped.
PastTheEnd(n) == LET a == AttrOf(n) IN
    /\ a.kind = "bytes" => Known(a.expr)
    /\ a.kind # "value"
    /\ start[n] + (IF a.kind = "bytes" THEN Sum(a.expr) ELSE 1) > Len(schema.data)
RefersToNull(n) == \E r \in RefsOf(AttrOf(n).cond) \cup RefsOf(AttrOf(n).expr) :
    state[r.node] = "resolved" /\ value[r.node] = Null

\* A schema whose reads are not cyclic resolves whatever is accessed first:
\* no "cycle detected", no exceeded depth and no sticky error comes from the
\* order of access alone.  A node that has failed did so on the data, or
\* because one that it reads has failed.
NoSpuriousError ==
    (\E n \in Node : state[n] = "error") /\ Acyclic(ReadsOf) /\ Shallow =>
        \A n \in Node : state[n] = "error" =>
            /\ n \in Field
            /\ \/ PastTheEnd(n) \/ RefersToNull(n)
               \/ \E m \in ReadsOf[n] : state[m] = "error"

\* Enough input, and no condition that can null a field.
Plentiful == Len(schema.data) >= 12 /\ \A n \in Field : AttrOf(n).cond = NoExpr

\* The stronger claim of ensureSeqResolvedAndSeeked ("skips children that are
\* mid-resolution to avoid cycling back through a seq field whose own
\* resolution transitively asked for an instance"): a positioned instance
\* that refers to no field resolves, and so does the field that asked for it.
NoFalseCycle ==
    Plentiful /\ Acyclic(UsesOf) => \A n \in Node : state[n] # "error"

\* Resolving never changes an answer already given: a resolved node keeps its
\* value and its span, and an error is final, the one put on a node of the
\* stack by cycle detection (resolve: n.state = stateError) included.
AnswersAreStable ==
    [][~Idle => \A n \in Node :
          /\ state[n] = "error" => state'[n] = "error"
          /\ state[n] = "resolved" =>
               /\ state'[n] = "resolved" /\ value'[n] = value[n]
               /\ start'[n] = start[n] /\ end'[n] = end[n]]_vars

\* The nodes that resolving n consulted by a reference in its if: or, unless
\* that skipped it, in its other expression.
Consulted(n) ==
    {r.node : r \in RefsOf(AttrOf(n).cond) \cup
                    (IF value[n] = Null THEN {} ELSE RefsOf(AttrOf(n).expr))}

\* An edit dirties only what transitively referred to the edited node (node.go:
\* "dependents are re-resolved on next access while unrelated subtrees stay
\* intact"): any other node loses its value because one it refers to did.
UnrelatedStayIntact ==
    [][\A t \in Dirtiable :
        Idle /\ Idle' /\ (MarkDirty(t) \/ \E v \in EditValues : SetValue(t, v)) =>
            \A n \in Node \ {t} : state[n] = "resolved" /\ state'[n] # "resolved" =>
                \E m \in Consulted(n) : m = t \/ state'[m] = "unresolved"]_vars

\* SetValue "dirties every node that depended on it during prior resolution"
\* (node.go): none of those that consulted the edited node stays resolved.
EditsReachDependents ==
    [][\A t \in Dirtiable, v \in EditValues :
        SetValue(t, v) /\ state[t] = "resolved" /\ v # value[t] =>
            \A n \in Field \ (edited \cup {t}) :
                state'[n] = "resolved" => t \notin Consulted(n)]_vars

\* Every resolution comes to an end, cyclic schemas included.
Terminates == ~Idle ~> Idle
=============================================================================
