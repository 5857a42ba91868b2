--------------------------- MODULE LazyTreeProofs ---------------------------
(***************************************************************************)
(* Theorems about LazyTree, for every schema, every set of fields and      *)
(* every evaluation depth.                                                 *)
(***************************************************************************)
EXTENDS LazyTree, TLAPS, SequenceTheorems, FiniteSetTheorems, WellFoundedInduction, SharedLemmas

-----------------------------------------------------------------------------
(* The schema and the stack.                                               *)

LEMMA SchemaType ==
    ASSUME TypeOK
    PROVE  /\ schema.seq \in Seq(Field)
           /\ schema.data \in Seq(Nat)
           /\ \A n \in Field : AttrOf(n) \in Attr
           /\ SeqFields \subseteq Field
BY SchemasAssumption DEF TypeOK, Schema, AttrOf, SeqFields

LEMMA BeforeType ==
    ASSUME TypeOK, NEW n \in SeqFields
    PROVE  Before(n) \in Node /\ BeforeEnd(n) \in Int
<1>1. SeqIndex(n) \in DOMAIN schema.seq
  BY DEF SeqIndex, SeqFields
<1>2. SeqIndex(n) \in 1 .. Len(schema.seq)
  BY <1>1, SchemaType
<1>3. Before(n) \in Node
  BY <1>2, SchemaType DEF Before, Node
<1> QED
  BY <1>3 DEF BeforeEnd, TypeOK, Node

LEMMA TopType ==
    ASSUME TypeOK, ~Idle
    PROVE  /\ Len(frames) \in Nat \ {0}
           /\ Len(frames) \in DOMAIN frames
           /\ Top \in Frame
           /\ Fits(Top)
BY DEF TypeOK, Idle, Top

LEMMA ExprType ==
    ASSUME TypeOK, ~Idle, Top.node \in Field, NEW pc
    PROVE  /\ ExprAt(Top.node, pc) \in Expr \cup {NoExpr}
           /\ ExprAt(Top.node, pc).refs \in Seq(Ref)
           /\ ExprAt(Top.node, pc).lit \in Int
<1>1. AttrOf(Top.node) \in Attr
  BY SchemaType
<1>2. ExprAt(Top.node, pc) \in Expr \cup {NoExpr}
  BY <1>1 DEF ExprAt, Attr
<1>3. NoExpr.refs \in Seq(Ref) /\ NoExpr.lit \in Int
  BY DEF NoExpr
<1>4. \A e \in Expr : e.refs \in Seq(Ref) /\ e.lit \in Nat
  BY DEF Expr
<1>5. PICK e : e = ExprAt(Top.node, pc)
  OBVIOUS
<1>6. e.refs \in Seq(Ref) /\ e.lit \in Int
  <2>1. CASE e = NoExpr
    BY <1>3, <2>1
  <2>2. CASE e \in Expr
    BY <1>4, <2>2
  <2> QED
    BY <1>2, <1>5, <2>1, <2>2
<1> QED
  BY <1>2, <1>5, <1>6

LEMMA ActivationType ==
    ASSUME TypeOK, NEW m \in Node
    PROVE  Activation(m) \in Frame /\ Fits(Activation(m))
BY RootAssumption, SchemaType
   DEF Activation, FrameOf, Frame, EntryPc, Pc, EvalPc, Fits, Node

\* What the three movements of the stack do to its entries.
LEMMA GotoFrames ==
    ASSUME TypeOK, ~Idle, NEW pc \in Pc, Goto(pc)
    PROVE  /\ frames' \in Seq(Frame)
           /\ Len(frames') = Len(frames)
           /\ \A k \in 1 .. Len(frames) - 1 : frames'[k] = frames[k]
           /\ frames'[Len(frames)] = FrameOf(Top.node, pc, 1, 0)
<1>1. FrameOf(Top.node, pc, 1, 0) \in Frame
  BY TopType DEF Frame, FrameOf
<1> QED
  BY <1>1, TopType DEF TypeOK, Goto

LEMMA CallFrames ==
    ASSUME TypeOK, ~Idle, NEW m \in Node, NEW pc \in Pc, NEW next \in Nat \ {0}, Call(m, pc, next)
    PROVE  /\ frames' \in Seq(Frame)
           /\ Len(frames') = Len(frames) + 1
           /\ \A k \in 1 .. Len(frames) - 1 : frames'[k] = frames[k]
           /\ frames'[Len(frames)] = FrameOf(Top.node, pc, next, Top.acc)
           /\ frames'[Len(frames) + 1] = Activation(m)
<1>1. FrameOf(Top.node, pc, next, Top.acc) \in Frame
  BY TopType DEF Frame, FrameOf
<1> QED
  BY <1>1, TopType, ActivationType DEF TypeOK, Call

LEMMA PopFrames ==
    ASSUME TypeOK, ~Idle, frames' = SubSeq(frames, 1, Len(frames) - 1)
    PROVE  /\ frames' \in Seq(Frame)
           /\ Len(frames') = Len(frames) - 1
           /\ \A k \in 1 .. Len(frames) - 1 : frames'[k] = frames[k]
<1> DEFINE l == Len(frames) - 1
<1>1. l \in Nat /\ l <= Len(frames)
  BY TopType
<1>2. \A k \in 1 .. l : frames[k] \in Frame
  BY <1>1 DEF TypeOK
<1>3. frames' = SubSeq(frames, 1, l)
  OBVIOUS
<1> HIDE DEF l
<1>4. /\ frames' \in Seq(Frame)
      /\ Len(frames') = IF 1 <= l THEN l - 1 + 1 ELSE 0
      /\ \A k \in 1 .. l - 1 + 1 : frames'[k] = frames[1 + k - 1]
  BY <1>1, <1>2, <1>3, SubSeqProperties
<1>5. Len(frames') = l
  BY <1>1, <1>4
<1>6. \A k \in 1 .. l : k \in 1 .. l - 1 + 1 /\ 1 + k - 1 = k
  BY <1>1
<1>7. \A k \in 1 .. l : frames'[k] = frames[k]
  BY <1>4, <1>6
<1> QED
  BY <1>4, <1>5, <1>7 DEF l

-----------------------------------------------------------------------------
(* Type correctness.                                                       *)

LEMMA GotoType ==
    ASSUME TypeOK, ~Idle, NEW pc \in Pc, Goto(pc), UNCHANGED schema,
           pc # "root", Top.node # Root, pc \notin {"position", "predecessor", "sibling"}
    PROVE  /\ frames' \in Seq(Frame)
           /\ (\A k \in DOMAIN frames : Fits(frames[k]))'
<1>1. \A f : Fits(f)' <=> Fits(f)
  BY DEF Fits, SeqFields
<1>2. Fits(FrameOf(Top.node, pc, 1, 0))
  BY DEF Fits, FrameOf
<1>3. \A k \in 1 .. Len(frames) : Fits(frames[k])
  BY DEF TypeOK
<1>4. \A k \in DOMAIN frames' : k \in 1 .. Len(frames) - 1 \/ k = Len(frames)
  BY GotoFrames, TopType
<1>5. \A k \in DOMAIN frames' : Fits(frames'[k])
  BY <1>2, <1>3, <1>4, GotoFrames, TopType
<1> QED
  BY <1>1, <1>5, GotoFrames

LEMMA CallType ==
    ASSUME TypeOK, ~Idle, NEW m \in Node, NEW pc \in Pc, NEW next \in Nat \ {0},
           Call(m, pc, next), UNCHANGED schema,
           Fits(FrameOf(Top.node, pc, next, Top.acc))
    PROVE  /\ frames' \in Seq(Frame)
           /\ (\A k \in DOMAIN frames : Fits(frames[k]))'
           /\ state' \in [Node -> NodeState]
           /\ edited' \subseteq Node
<1>1. \A f : Fits(f)' <=> Fits(f)
  BY DEF Fits, SeqFields
<1>2. \A k \in 1 .. Len(frames) : Fits(frames[k])
  BY DEF TypeOK
<1>3. \A k \in DOMAIN frames' : \/ k \in 1 .. Len(frames) - 1
                                 \/ k = Len(frames) \/ k = Len(frames) + 1
  BY CallFrames, TopType
<1>4. \A k \in DOMAIN frames' : Fits(frames'[k])
  BY <1>2, <1>3, CallFrames, ActivationType, TopType
<1> QED
  BY <1>1, <1>4, CallFrames DEF TypeOK, Call, NodeState

LEMMA ReturnType ==
    ASSUME TypeOK, ~Idle, NEW outcome \in NodeState, Return(outcome), UNCHANGED schema
    PROVE  /\ frames' \in Seq(Frame)
           /\ (\A k \in DOMAIN frames : Fits(frames[k]))'
           /\ state' \in [Node -> NodeState]
           /\ edited' \subseteq Node
<1>1. \A f : Fits(f)' <=> Fits(f)
  BY DEF Fits, SeqFields
<1>2. frames' = SubSeq(frames, 1, Len(frames) - 1)
  BY DEF Return
<1>3. \A k \in DOMAIN frames' : Fits(frames'[k])
  BY <1>2, PopFrames, TopType DEF TypeOK
<1> QED
  BY <1>1, <1>2, <1>3, PopFrames DEF TypeOK, Return

LEMMA CycleType ==
    ASSUME TypeOK, ~Idle, NEW m, Cycle(m), UNCHANGED schema
    PROVE  /\ frames' \in Seq(Frame)
           /\ (\A k \in DOMAIN frames : Fits(frames[k]))'
           /\ state' \in [Node -> NodeState]
           /\ edited' \subseteq Node
<1>1. \A f : Fits(f)' <=> Fits(f)
  BY DEF Fits, SeqFields
<1>2. frames' = SubSeq(frames, 1, Len(frames) - 1)
  BY DEF Cycle
<1>3. \A k \in DOMAIN frames' : Fits(frames'[k])
  BY <1>2, PopFrames, TopType DEF TypeOK
<1> QED
  BY <1>1, <1>2, <1>3, PopFrames DEF TypeOK, Cycle, NodeState
\* Every program point but the root's is one of a field.
LEMMA FieldType ==
    ASSUME TypeOK, ~Idle, Top.pc # "root"
    PROVE  Top.node \in Field
BY TopType DEF Fits, Node, Frame

LEMMA BodyPcType ==
    ASSUME TypeOK, NEW n \in Field
    PROVE  BodyPc(n) \in {"read", "size", "value", "siblings"}
BY SchemaType DEF BodyPc, Attr

LEMMA ReadAtType ==
    ASSUME TypeOK, ~Idle, NEW n \in Node, NEW at \in Int, NEW len \in Int, NEW v \in Nat,
           ReadAt(n, at, len, v), UNCHANGED <<schema, edges>>
    PROVE  TypeOK'
<1>1. Return("resolved") \/ Return("error")
  BY DEF ReadAt
<1>2. /\ frames' \in Seq(Frame)
      /\ (\A k \in DOMAIN frames : Fits(frames[k]))'
      /\ state' \in [Node -> NodeState]
      /\ edited' \subseteq Node
  BY <1>1, ReturnType DEF NodeState
<1>3. /\ value' \in [Node -> Nat \cup {Null}]
      /\ start' \in [Node -> Int]
      /\ end' \in [Node -> Int]
      /\ pos' \in Int
  <2>1. at + len \in Int /\ Len(schema.data) \in Int
    BY SchemaType
  <2>2. value' = value \/ value' = [value EXCEPT ![n] = v]
    BY DEF ReadAt
  <2>3. value' \in [Node -> Nat \cup {Null}]
    BY <2>2 DEF TypeOK
  <2> QED
    BY <2>1, <2>3 DEF TypeOK, ReadAt
<1> QED
  BY <1>2, <1>3 DEF TypeOK, edges

LEMMA ResultType ==
    ASSUME TypeOK, Evaluating, Top.pc # "root"
    PROVE  Result \in Nat
BY FieldType, ExprType, TopType DEF Result, Frame, Evaluating, Expr

LEMMA NextRefType ==
    ASSUME TypeOK, HasNextRef, Top.node \in Field
    PROVE  /\ NextRef \in Ref
           /\ NextRef.node \in Node
           /\ NextRef = ExprAt(Top.node, Top.pc).refs[Top.next]
           /\ Top.next \in DOMAIN ExprAt(Top.node, Top.pc).refs
           /\ Top.next \in Nat \ {0}
           /\ Top.acc \in Nat
<1>1. ~Idle /\ Top.next <= Len(ExprAt(Top.node, Top.pc).refs)
  BY DEF HasNextRef, Evaluating
<1>2. Top.next \in Nat \ {0} /\ Top.acc \in Nat
  BY <1>1, TopType DEF Frame
<1>3. Top.next \in DOMAIN ExprAt(Top.node, Top.pc).refs
  BY <1>1, <1>2, ExprType
<1>4. NextRef \in Ref
  <2> DEFINE refs == ExprAt(Top.node, Top.pc).refs
  <2>1. refs \in Seq(Ref) /\ Top.next \in DOMAIN refs /\ NextRef = refs[Top.next]
    BY <1>1, <1>3, ExprType DEF NextRef
  <2> HIDE DEF refs
  <2> QED
    BY <2>1
<1> QED
  BY <1>2, <1>3, <1>4 DEF NextRef, Ref, Node

LEMMA ByteType ==
    ASSUME TypeOK, NEW at \in Int
    PROVE  ByteAt(at) \in Nat
BY SchemaType DEF ByteAt

LEMMA InitType == Init => TypeOK
<1> SUFFICES ASSUME Init PROVE TypeOK
  OBVIOUS
<1>1. Null \in Int /\ -1 \in Int
  BY DEF Null
<1> QED
  BY <1>1 DEF Init, TypeOK, NodeState

\* One lemma for the steps of resolve, one for the callers.
LEMMA ResolveType ==
    ASSUME TypeOK, Resolve
    PROVE  TypeOK'
<1>1. CASE ResolveRoot
  <2>1. ~Idle /\ Return("resolved") /\ UNCHANGED schema
    BY <1>1 DEF ResolveRoot, At
  <2> QED
    BY <1>1, <2>1, ReturnType DEF ResolveRoot, TypeOK, NodeState, Node, edges
<1>2. CASE FindPosition
  <2>1. /\ ~Idle /\ Top.pc = "position" /\ UNCHANGED schema
        /\ UNCHANGED value /\ UNCHANGED end /\ UNCHANGED pos
        /\ UNCHANGED deps /\ UNCHANGED rdeps
    BY <1>2 DEF FindPosition, At, edges
  <2>2. Top.node \in SeqFields /\ Top.node \in Field /\ Top.node # Root
    BY <2>1, TopType, FieldType, RootAssumption DEF Fits
  <2>3. Before(Top.node) \in Node /\ BeforeEnd(Top.node) \in Int
    BY <2>2, BeforeType
  <2>4. CASE Goto("cond") /\ UNCHANGED <<state, edited>>
                          /\ start' = [start EXCEPT ![Top.node] = BeforeEnd(Top.node)]
    <3>1. "cond" \in Pc
      BY DEF Pc, EvalPc
    <3>2. frames' \in Seq(Frame) /\ (\A k \in DOMAIN frames : Fits(frames[k]))'
      BY <2>1, <2>2, <2>4, <3>1, GotoType
    <3>3. start' \in [Node -> Int]
      BY <2>3, <2>4 DEF TypeOK
    <3> QED
      BY <2>1, <2>4, <3>2, <3>3 DEF TypeOK
  <2>5. CASE Call(Before(Top.node), "predecessor", 1) /\ UNCHANGED start
    <3>1. Fits(FrameOf(Top.node, "predecessor", 1, Top.acc)) /\ "predecessor" \in Pc
      BY <2>2 DEF Fits, FrameOf, Pc
    <3>2. /\ frames' \in Seq(Frame) /\ (\A k \in DOMAIN frames : Fits(frames[k]))'
          /\ state' \in [Node -> NodeState] /\ edited' \subseteq Node
      BY <2>1, <2>3, <2>5, <3>1, CallType
    <3> QED
      BY <2>1, <2>5, <3>2 DEF TypeOK
  <2>6. CASE Cycle(Before(Top.node)) /\ UNCHANGED start
    <3>1. /\ frames' \in Seq(Frame) /\ (\A k \in DOMAIN frames : Fits(frames[k]))'
          /\ state' \in [Node -> NodeState] /\ edited' \subseteq Node
      BY <2>1, <2>6, CycleType
    <3> QED
      BY <2>1, <2>6, <3>1 DEF TypeOK
  <2> QED
    BY <1>2, <2>4, <2>5, <2>6 DEF FindPosition
<1>3. CASE AfterPredecessor
  <2>1. /\ ~Idle /\ Top.pc = "predecessor" /\ UNCHANGED schema
        /\ UNCHANGED value /\ UNCHANGED end /\ UNCHANGED pos
        /\ UNCHANGED deps /\ UNCHANGED rdeps
    BY <1>3 DEF AfterPredecessor, At, edges
  <2>2. Top.node \in SeqFields /\ Top.node \in Field /\ Top.node # Root
    BY <2>1, TopType, FieldType, RootAssumption DEF Fits
  <2>3. CASE Return("error") /\ UNCHANGED start
    <3>1. /\ frames' \in Seq(Frame) /\ (\A k \in DOMAIN frames : Fits(frames[k]))'
          /\ state' \in [Node -> NodeState] /\ edited' \subseteq Node
      BY <2>1, <2>3, ReturnType DEF NodeState
    <3> QED
      BY <2>1, <2>3, <3>1 DEF TypeOK
  <2>4. CASE Goto("cond") /\ UNCHANGED <<state, edited>>
                          /\ start' = [start EXCEPT ![Top.node] = BeforeEnd(Top.node)]
    <3>1. "cond" \in Pc
      BY DEF Pc, EvalPc
    <3>2. frames' \in Seq(Frame) /\ (\A k \in DOMAIN frames : Fits(frames[k]))'
      BY <2>1, <2>2, <2>4, <3>1, GotoType
    <3>3. start' \in [Node -> Int]
      BY <2>2, <2>4, BeforeType DEF TypeOK
    <3> QED
      BY <2>1, <2>4, <3>2, <3>3 DEF TypeOK
  <2> QED
    BY <1>3, <2>3, <2>4 DEF AfterPredecessor
<1>4. CASE SkipCondition
  <2>1. ~Idle /\ Top.pc = "cond" /\ UNCHANGED schema /\ Goto(BodyPc(Top.node))
    BY <1>4 DEF SkipCondition, At
  <2>2. Top.node \in Field /\ Top.node # Root
    BY <2>1, FieldType, RootAssumption
  <2>3. BodyPc(Top.node) \in {"read", "size", "value", "siblings"} /\ BodyPc(Top.node) \in Pc
    BY <2>2, BodyPcType DEF Pc, EvalPc
  <2> QED
    BY <1>4, <2>1, <2>2, <2>3, GotoType DEF SkipCondition, TypeOK, stored, edges
<1>5. CASE EvaluateReference
  <2> DEFINE r == NextRef
  <2>1. ~Idle /\ Top.pc \in EvalPc /\ Top.pc \in Pc /\ UNCHANGED <<schema, stored>>
    BY <1>5 DEF EvaluateReference, HasNextRef, Evaluating, Pc
  <2>2. Top.pc \notin {"root", "position", "predecessor", "sibling"}
    BY <2>1 DEF EvalPc
  <2>3. Top.node \in Field /\ Top.node # Root /\ Top.node \in Node
    BY <2>1, <2>2, FieldType, RootAssumption DEF Node
  <2>4. r \in Ref /\ r.node \in Node /\ Top.next \in Nat \ {0} /\ Top.acc \in Nat
    BY <1>5, <2>3, NextRefType DEF EvaluateReference
  <2>5. deps' \in [Node -> SUBSET Node] /\ rdeps' \in [Node -> SUBSET Node]
    <3> HIDE DEF r
    <3>1. RecordDep(r)
      BY <1>5 DEF EvaluateReference, r
    <3>2. CASE UNCHANGED <<deps, rdeps>>
      BY <3>2 DEF TypeOK
    <3>3. CASE /\ deps' = [deps EXCEPT ![Top.node] = @ \cup {r.node}]
               /\ rdeps' = [rdeps EXCEPT ![r.node] = @ \cup {Top.node}]
      <4>1. deps[Top.node] \subseteq Node /\ rdeps[r.node] \subseteq Node
        BY <2>3, <2>4 DEF TypeOK
      <4> QED
        BY <2>3, <2>4, <3>3, <4>1 DEF TypeOK
    <3> QED
      BY <3>1, <3>2, <3>3 DEF RecordDep, edges
  <2>6. Fits(FrameOf(Top.node, Top.pc, Top.next, Top.acc))
    BY <2>2, <2>3 DEF Fits, FrameOf
  <2>7. CASE Call(r.node, Top.pc, Top.next)
    BY <2>1, <2>4, <2>5, <2>6, <2>7, CallType DEF TypeOK, stored
  <2>8. CASE Return("error")
    BY <2>1, <2>5, <2>8, ReturnType DEF TypeOK, stored, NodeState
  <2>9. CASE Cycle(r.node)
    BY <2>1, <2>5, <2>9, CycleType DEF TypeOK, stored
  <2>10. CASE /\ value[r.node] # Null
              /\ frames' = [frames EXCEPT ![Len(frames)] =
                    FrameOf(Top.node, Top.pc, Top.next + 1, Top.acc + value[r.node])]
              /\ UNCHANGED <<state, edited>>
    <3> DEFINE f == FrameOf(Top.node, Top.pc, Top.next + 1, Top.acc + value[r.node])
    <3>1. f \in Frame
      BY <2>1, <2>3, <2>4, <2>10 DEF FrameOf, Frame, TypeOK
    <3>2. Fits(f)
      BY <2>2, <2>3 DEF Fits, FrameOf
    <3>3. /\ frames' \in Seq(Frame)
          /\ \A k \in DOMAIN frames' : Fits(frames'[k])
      BY <2>1, <2>10, <3>1, <3>2, TopType DEF TypeOK
    <3>4. \A g : Fits(g)' <=> Fits(g)
      BY <2>1 DEF Fits, SeqFields
    <3> QED
      BY <2>1, <2>5, <2>10, <3>3, <3>4 DEF TypeOK, stored
  <2> QED
    BY <1>5, <2>7, <2>8, <2>9, <2>10 DEF EvaluateReference
<1>6. CASE ExceedDepth
  <2>1. ~Idle /\ UNCHANGED schema /\ Return("error")
    BY <1>6 DEF ExceedDepth, Evaluating
  <2> QED
    BY <1>6, <2>1, ReturnType DEF ExceedDepth, TypeOK, stored, edges, NodeState
<1>7. CASE FinishCondition
  <2>1. ~Idle /\ Top.pc = "cond" /\ UNCHANGED schema
    BY <1>7 DEF FinishCondition, Evaluated, At
  <2>2. Top.node \in Field /\ Top.node # Root /\ Top.node \in Node
    BY <2>1, FieldType, RootAssumption DEF Node
  <2>3. CASE Goto(BodyPc(Top.node)) /\ UNCHANGED <<state, edited, value, end>>
    <3>1. BodyPc(Top.node) \in {"read", "size", "value", "siblings"} /\ BodyPc(Top.node) \in Pc
      BY <2>2, BodyPcType DEF Pc, EvalPc
    <3> QED
      BY <1>7, <2>1, <2>2, <2>3, <3>1, GotoType DEF FinishCondition, TypeOK, edges
  <2>4. CASE /\ value' = [value EXCEPT ![Top.node] = Null]
             /\ end' = [end EXCEPT ![Top.node] =
                          IF Top.node \in SeqFields THEN start[Top.node] ELSE 0]
             /\ Return("resolved")
    <3>1. value' \in [Node -> Int] /\ end' \in [Node -> Int]
      BY <2>2, <2>4 DEF TypeOK, Null
    <3> QED
      BY <1>7, <2>1, <2>4, <3>1, ReturnType DEF FinishCondition, TypeOK, edges, NodeState
  <2> QED
    BY <1>7, <2>3, <2>4 DEF FinishCondition
<1>8. CASE ReadByte
  <2>1. ~Idle /\ Top.pc = "read" /\ UNCHANGED <<schema, edges>>
    BY <1>8 DEF ReadByte, At
  <2>2. Top.node \in Node /\ start[Top.node] \in Int
    BY <2>1, FieldType DEF Node, TypeOK
  <2> QED
    BY <1>8, <2>1, <2>2, ByteType, ReadAtType DEF ReadByte
<1>9. CASE ReadSized
  <2>1. ~Idle /\ Top.pc = "size" /\ UNCHANGED <<schema, edges>> /\ Evaluating
    BY <1>9 DEF ReadSized, Evaluated, At
  <2>2. Top.node \in Node /\ start[Top.node] \in Int
    BY <2>1, FieldType DEF Node, TypeOK
  <2> QED
    BY <1>9, <2>1, <2>2, ResultType, ReadAtType DEF ReadSized
<1>10. CASE ComputeValue
  <2>1. ~Idle /\ Top.pc = "value" /\ UNCHANGED schema /\ Return("resolved") /\ Evaluating
    BY <1>10 DEF ComputeValue, Evaluated, At
  <2>2. Result \in Nat
    BY <2>1, ResultType
  <2>3. /\ value' = [value EXCEPT ![Top.node] = Result]
        /\ end' = [end EXCEPT ![Top.node] = 0]
    BY <1>10 DEF ComputeValue
  <2>4. value' \in [Node -> Nat \cup {Null}] /\ end' \in [Node -> Int]
    BY <2>1, <2>2, <2>3, FieldType DEF TypeOK, Node
  <2> QED
    BY <1>10, <2>1, <2>4, ReturnType DEF ComputeValue, TypeOK, edges, NodeState
<1>11. CASE EnsureSibling
  <2>1. ~Idle /\ Top.pc = "siblings" /\ UNCHANGED schema
    BY <1>11 DEF EnsureSibling, At
  <2>2. Top.node \in Field /\ Top.node # Root
    BY <2>1, FieldType, RootAssumption
  <2>3. CASE (\E k \in FirstUnread : Call(schema.seq[k], "sibling", k)) /\ UNCHANGED pos
    <3>1. PICK k \in FirstUnread : Call(schema.seq[k], "sibling", k)
      BY <2>3
    <3>2. k \in DOMAIN schema.seq /\ k \in Nat \ {0} /\ schema.seq[k] \in Node
      BY SchemaType DEF FirstUnread, Node
    <3>3. Fits(FrameOf(Top.node, "sibling", k, Top.acc)) /\ "sibling" \in Pc
      BY <2>2, <3>2 DEF Fits, FrameOf, Pc
    <3> QED
      BY <1>11, <2>1, <2>3, <3>1, <3>2, <3>3, CallType DEF EnsureSibling, TypeOK, edges
  <2>4. CASE /\ FirstUnread = {}
             /\ pos' = IF schema.seq # <<>> /\ state[LastField] = "resolved"
                       THEN end[LastField] ELSE pos
             /\ Goto("pos")
             /\ UNCHANGED <<state, edited>>
    <3>1. schema.seq # <<>> => LastField \in Node
      BY SchemaType DEF LastField, Node
    <3>2. pos' \in Int
      BY <2>4, <3>1 DEF TypeOK
    <3>3. "pos" \in Pc
      BY DEF Pc, EvalPc
    <3> QED
      BY <1>11, <2>1, <2>2, <2>4, <3>2, <3>3, GotoType DEF EnsureSibling, TypeOK, edges
  <2> QED
    BY <1>11, <2>3, <2>4 DEF EnsureSibling
<1>12. CASE AfterSibling
  <2>1. ~Idle /\ Top.pc = "sibling" /\ UNCHANGED schema
    BY <1>12 DEF AfterSibling, At
  <2>2. Top.node \in Field /\ Top.node # Root
    BY <2>1, FieldType, RootAssumption
  <2>3. CASE Return("error")
    BY <1>12, <2>1, <2>3, ReturnType DEF AfterSibling, TypeOK, stored, edges, NodeState
  <2>4. CASE Goto("siblings") /\ UNCHANGED <<state, edited>>
    <3>1. "siblings" \in Pc
      BY DEF Pc
    <3> QED
      BY <1>12, <2>1, <2>2, <2>4, <3>1, GotoType DEF AfterSibling, TypeOK, stored, edges
  <2> QED
    BY <1>12, <2>3, <2>4 DEF AfterSibling
<1>13. CASE ReadInstance
  <2>1. ~Idle /\ Top.pc = "pos" /\ UNCHANGED <<schema, edges>>
    BY <1>13 DEF ReadInstance, Evaluated, At
  <2>2. Top.node \in Node /\ pos \in Int
    BY <2>1, FieldType DEF Node, TypeOK
  <2>3. CASE Evaluated("pos") /\ ReadAt(Top.node, Result, 1, ByteAt(Result))
    <3>1. Result \in Nat
      BY <2>1, <2>3, ResultType DEF Evaluated
    <3> QED
      BY <2>1, <2>2, <2>3, <3>1, ByteType, ReadAtType
  <2>4. CASE ReadAt(Top.node, pos, 1, ByteAt(pos))
    BY <2>1, <2>2, <2>4, ByteType, ReadAtType
  <2> QED
    BY <1>13, <2>3, <2>4 DEF ReadInstance
<1> QED
  BY <1>1, <1>2, <1>3, <1>4, <1>5, <1>6, <1>7, <1>8, <1>9, <1>10, <1>11, <1>12, <1>13
     DEF Resolve
LEMMA ReachedType == \A S : Reached(S) \subseteq Node
BY DEF Reached

LEMMA CallersType ==
    ASSUME TypeOK
    PROVE  /\ \A n \in Node : Access(n) => TypeOK'
           /\ \A n \in Dirtiable : MarkDirty(n) => TypeOK'
           /\ \A n \in Dirtiable, v \in EditValues : SetValue(n, v) => TypeOK'
           /\ \A n \in Invalidatable : Invalidate(n) => TypeOK'
<1>1. \A D : \A v \in NodeState : Cleared(state, D, v) \in [Node -> NodeState]
  BY DEF Cleared, TypeOK
<1>2. \A D : /\ Cleared(value, D, Null) \in [Node -> Nat \cup {Null}]
              /\ \A v \in Int : /\ Cleared(start, D, v) \in [Node -> Int]
                               /\ Cleared(end, D, v) \in [Node -> Int]
  BY DEF Cleared, TypeOK
<1>3. \A D : CutEdges(D) => deps' \in [Node -> SUBSET Node] /\ rdeps' \in [Node -> SUBSET Node]
  BY DEF CutEdges, TypeOK
<1>4. "unresolved" \in NodeState /\ "resolving" \in NodeState /\ "resolved" \in NodeState
      /\ 0 \in Int /\ -1 \in Int
  BY DEF NodeState
<1>5. \A f : schema' = schema => (Fits(f)' <=> Fits(f))
  BY DEF Fits, SeqFields
<1>6. ASSUME NEW n \in Node, Access(n) PROVE TypeOK'
  <2>1. /\ frames' \in Seq(Frame)
        /\ \A k \in DOMAIN frames' : Fits(frames'[k])
    BY <1>6, ActivationType DEF Access
  <2> QED
    BY <1>4, <1>5, <1>6, <2>1 DEF Access, TypeOK, stored, edges
<1>7. ASSUME NEW n \in Dirtiable, MarkDirty(n) PROVE TypeOK'
  BY <1>1, <1>2, <1>3, <1>4, <1>5, <1>7 DEF MarkDirty, TypeOK
<1>8. ASSUME NEW n \in Dirtiable, NEW v \in EditValues, SetValue(n, v) PROVE TypeOK'
  <2>1. n \in Node /\ v \in Nat
    BY EditsAssumption DEF Node
  <2> DEFINE D == Reached(rdeps[n])
  <2>2. /\ state' = [Cleared(state, D, "unresolved") EXCEPT ![n] = "resolved"]
        /\ value' = [Cleared(value, D, Null) EXCEPT ![n] = v]
        /\ end' = Cleared(end, D, 0)
        /\ edited' = (edited \ D) \cup {n}
        /\ CutEdges(D)
        /\ UNCHANGED <<schema, start, pos, frames>>
    BY <1>8 DEF SetValue
  <2> HIDE DEF D
  <2>3. state' \in [Node -> NodeState] /\ value' \in [Node -> Nat \cup {Null}]
    BY <1>1, <1>2, <1>4, <2>1, <2>2
  <2> QED
    BY <1>2, <1>3, <1>4, <1>5, <2>1, <2>2, <2>3 DEF TypeOK
<1>9. ASSUME NEW n \in Invalidatable, Invalidate(n) PROVE TypeOK'
  <2>1. \A D : /\ Cleared(deps, D, {}) \in [Node -> SUBSET Node]
               /\ Cleared(rdeps, D, {}) \in [Node -> SUBSET Node]
    BY DEF Cleared, TypeOK
  <2> QED
    BY <1>1, <1>2, <1>4, <1>5, <1>9, <2>1 DEF Invalidate, TypeOK
<1> QED
  BY <1>6, <1>7, <1>8, <1>9

LEMMA StutterType == ASSUME TypeOK, UNCHANGED vars PROVE TypeOK'
<1>1. \A f : Fits(f)' <=> Fits(f)
  BY DEF Fits, SeqFields, vars
<1> QED
  BY <1>1 DEF TypeOK, vars

\* The states of the tree are well typed: every program point belongs to the
\* resolve function of its node (resolveRoot, resolveSeqField or
\* resolveInstance), every loop index is in range, every position an integer.
THEOREM TypeCorrect == Spec => []TypeOK
<1>1. TypeOK /\ [Next]_vars => TypeOK'
  BY ResolveType, CallersType, StutterType DEF Next
<1> QED
  BY InitType, <1>1, PTL DEF Spec
-----------------------------------------------------------------------------
(* The discipline of the stack.  Each of the four movements preserves it,  *)
(* and none takes back an answer.                                          *)

Sound == \A k \in DOMAIN frames : state[frames[k].node] # "error"

Kept == \A n \in Node : /\ state[n] = "error" => state'[n] = "error"
                        /\ state[n] = "resolved" => state'[n] = "resolved"

LEMMA NotWaiting ==
    ASSUME StackDiscipline, \A m \in Node : Waits(Top, m) => state[m] # "error"
    PROVE  Sound
BY DEF StackDiscipline, FailurePropagates, Sound

LEMMA WaitsNext ==
    ASSUME UNCHANGED schema
    PROVE  \A f, m : Waits(f, m)' <=> Waits(f, m)
BY DEF Waits, Before, SeqIndex, ExprAt, AttrOf

LEMMA TopState ==
    ASSUME TypeOK, ~Idle, StackDiscipline
    PROVE  /\ Top.node \in Node
           /\ state[Top.node] \in {"resolving", "error"}
BY TopType DEF StackDiscipline, Sentinel, Top, Frame

\* The stack by its height l.
LEMMA StackType ==
    ASSUME TypeOK, ~Idle
    PROVE  \E l \in Nat \ {0} :
              /\ l = Len(frames)
              /\ DOMAIN frames = 1 .. l
              /\ Top = frames[l]
              /\ \A k \in 1 .. l : frames[k] \in Frame /\ frames[k].node \in Node
<1>1. \A k \in DOMAIN frames : frames[k] \in Frame
  BY DEF TypeOK
<1>2. \A f \in Frame : f.node \in Node
  BY DEF Frame
<1>3. DOMAIN frames = 1 .. Len(frames) /\ Len(frames) \in Nat \ {0}
  BY TopType DEF TypeOK
<1> QED
  BY <1>1, <1>2, <1>3 DEF Top

LEMMA AdvanceKeeps ==
    ASSUME TypeOK, ~Idle, StackDiscipline, Sound, UNCHANGED <<schema, state>>,
           frames' \in Seq(Frame), Len(frames') = Len(frames),
           \A k \in 1 .. Len(frames) - 1 : frames'[k] = frames[k],
           frames'[Len(frames)].node = Top.node
    PROVE  StackDiscipline' /\ Kept
<1> PICK l \in Nat \ {0} : /\ l = Len(frames)
                          /\ DOMAIN frames = 1 .. l
                          /\ Top = frames[l]
                          /\ \A k \in 1 .. l : frames[k] \in Frame /\ frames[k].node \in Node
  BY StackType
<1>3. DOMAIN frames' = 1 .. l /\ Len(frames') = l
  OBVIOUS
<1>1. \A k \in 1 .. l : frames'[k].node = frames[k].node
  <2>1. \A k \in 1 .. l : k = l \/ k \in 1 .. l - 1
    OBVIOUS
  <2> QED
    BY <2>1
<1>2. Distinct'
  BY <1>1, <1>3 DEF StackDiscipline, Distinct
<1>4. Sentinel'
  BY <1>1, <1>3 DEF StackDiscipline, Sentinel
<1>5. CallChain'
  <2> SUFFICES ASSUME NEW k \in 1 .. l - 1
               PROVE  Waits(frames'[k], frames'[k + 1].node)
    BY <1>3, WaitsNext DEF CallChain
  <2>1. k + 1 \in 1 .. l
    OBVIOUS
  <2>2. frames'[k] = frames[k] /\ frames'[k + 1].node = frames[k + 1].node
    BY <1>1, <2>1
  <2> QED
    BY <2>2 DEF StackDiscipline, CallChain
<1>6. FailurePropagates'
  BY <1>1, <1>3 DEF FailurePropagates, Sound
<1> QED
  BY <1>2, <1>4, <1>5, <1>6 DEF StackDiscipline, Kept

LEMMA CallKeeps ==
    ASSUME TypeOK, ~Idle, StackDiscipline, Sound, UNCHANGED schema,
           NEW m \in Node, NEW pc \in Pc, NEW next \in Nat \ {0}, Call(m, pc, next),
           state[m] = "unresolved", Waits(FrameOf(Top.node, pc, next, Top.acc), m)
    PROVE  StackDiscipline' /\ Kept
<1> PICK l \in Nat \ {0} : /\ l = Len(frames)
                          /\ DOMAIN frames = 1 .. l
                          /\ Top = frames[l]
                          /\ \A k \in 1 .. l : frames[k] \in Frame /\ frames[k].node \in Node
  BY StackType
<1>1. /\ frames' \in Seq(Frame)
      /\ Len(frames') = l + 1
      /\ \A k \in 1 .. l - 1 : frames'[k] = frames[k]
      /\ frames'[l] = FrameOf(Top.node, pc, next, Top.acc)
      /\ frames'[l + 1] = Activation(m)
      /\ DOMAIN frames' = 1 .. l + 1
  BY CallFrames
<1>2. /\ \A k \in 1 .. l : frames'[k].node = frames[k].node
      /\ frames'[l + 1].node = m
  <2>1. \A k \in 1 .. l : k = l \/ k \in 1 .. l - 1
    OBVIOUS
  <2>2. frames'[l].node = Top.node /\ frames'[l + 1].node = m
    BY <1>1 DEF FrameOf, Activation
  <2> QED
    BY <1>1, <2>1, <2>2
<1>3. \A k \in 1 .. l : frames[k].node # m
  BY DEF StackDiscipline, Sentinel
<1>4. \A n \in Node : state'[n] = IF n = m THEN "resolving" ELSE state[n]
  BY DEF Call, TypeOK
<1>5. Distinct'
  <2> SUFFICES ASSUME NEW j \in 1 .. l + 1, NEW k \in 1 .. l + 1,
                      frames'[j].node = frames'[k].node
               PROVE  j = k
    BY <1>1 DEF Distinct
  <2>1. CASE j = l + 1 \/ k = l + 1
    BY <1>1, <1>2, <1>3, <2>1
  <2>2. CASE j \in 1 .. l /\ k \in 1 .. l
    BY <1>1, <1>2, <2>2 DEF StackDiscipline, Distinct
  <2> QED
    BY <1>1, <2>1, <2>2
<1>6. Sentinel'
  <2>1. ASSUME NEW n \in Node, state'[n] = "resolving"
        PROVE  \E k \in DOMAIN frames' : frames'[k].node = n
    <3>1. CASE n = m
      BY <1>1, <1>2, <3>1
    <3>2. CASE n # m
      <4>1. PICK k \in 1 .. l : frames[k].node = n
        BY <1>1, <1>4, <2>1, <3>2 DEF StackDiscipline, Sentinel, TypeOK
      <4> QED
        BY <1>1, <1>2, <4>1
    <3> QED
      BY <3>1, <3>2
  <2>2. ASSUME NEW k \in 1 .. l + 1
        PROVE  state'[frames'[k].node] \in {"resolving", "error"}
    <3>1. CASE k = l + 1
      BY <1>2, <1>4, <3>1 DEF TypeOK
    <3>2. CASE k \in 1 .. l
      <4>1. state[frames[k].node] \in {"resolving", "error"}
        BY <3>2 DEF StackDiscipline, Sentinel
      <4> QED
        BY <1>2, <1>3, <1>4, <3>2, <4>1
    <3> QED
      BY <1>1, <3>1, <3>2
  <2> QED
    BY <1>1, <2>1, <2>2 DEF Sentinel
<1>7. CallChain'
  <2> SUFFICES ASSUME NEW k \in 1 .. l
               PROVE  Waits(frames'[k], frames'[k + 1].node)
    BY <1>1, WaitsNext DEF CallChain
  <2>1. CASE k = l
    BY <1>1, <1>2, <2>1
  <2>2. CASE k \in 1 .. l - 1
    <3>1. k + 1 \in 1 .. l
      BY <2>2
    <3> QED
      BY <1>1, <1>2, <2>2, <3>1 DEF StackDiscipline, CallChain
  <2> QED
    BY <1>1, <2>1, <2>2
<1>8. FailurePropagates'
  <2>1. \A k \in 1 .. l + 1 : state'[frames'[k].node] # "error"
    <3>1. \A k \in 1 .. l + 1 : k = l + 1 \/ k \in 1 .. l
      OBVIOUS
    <3> QED
      BY <1>2, <1>3, <1>4, <3>1 DEF Sound
  <2> QED
    BY <1>1, <2>1 DEF FailurePropagates
<1>9. Kept
  BY <1>4 DEF Kept, TypeOK
<1> QED
  BY <1>5, <1>6, <1>7, <1>8, <1>9 DEF StackDiscipline

\* Returning is the case m = Top.node of this lemma, a cycle the other.
LEMMA PopKeeps ==
    ASSUME TypeOK, ~Idle, StackDiscipline, UNCHANGED schema,
           NEW m \in Node, NEW outcome \in {"resolved", "error"},
           state[m] \in {"resolving", "error"},
           frames' = SubSeq(frames, 1, Len(frames) - 1),
           state' = [state EXCEPT ![m] = outcome, ![Top.node] = outcome],
           outcome = "resolved" => Sound /\ m = Top.node
    PROVE  StackDiscipline' /\ Kept
<1> PICK l \in Nat \ {0} : /\ l = Len(frames)
                          /\ DOMAIN frames = 1 .. l
                          /\ Top = frames[l]
                          /\ \A k \in 1 .. l : frames[k] \in Frame /\ frames[k].node \in Node
  BY StackType
<1>1. /\ frames' \in Seq(Frame)
      /\ Len(frames') = l - 1
      /\ DOMAIN frames' = 1 .. l - 1
      /\ \A k \in 1 .. l - 1 : frames'[k] = frames[k]
      /\ \A k \in 1 .. l - 1 : k \in 1 .. l
  BY PopFrames
<1>2. \A n \in Node : state'[n] = IF n \in {m, Top.node} THEN outcome ELSE state[n]
  BY TopState DEF TypeOK
<1>3. \A k \in 1 .. l - 1 : frames[k].node # Top.node
  BY <1>1 DEF StackDiscipline, Distinct
<1>4. Distinct'
  BY <1>1 DEF StackDiscipline, Distinct
<1>5. Sentinel'
  <2>1. ASSUME NEW n \in Node, state'[n] = "resolving"
        PROVE  \E k \in DOMAIN frames' : frames'[k].node = n
    <3>1. state[n] = "resolving" /\ n # Top.node
      BY <1>2, <2>1
    <3>2. PICK k \in 1 .. l : frames[k].node = n
      BY <1>1, <3>1 DEF StackDiscipline, Sentinel
    <3>3. k \in 1 .. l - 1
      BY <1>1, <3>1, <3>2
    <3> QED
      BY <1>1, <3>2, <3>3
  <2>2. ASSUME NEW k \in 1 .. l - 1
        PROVE  state'[frames'[k].node] \in {"resolving", "error"}
    <3>1. /\ frames'[k] = frames[k] /\ frames[k].node \in Node /\ frames[k].node # Top.node
          /\ k \in DOMAIN frames
      BY <1>1, <1>3
    <3>2. state[frames[k].node] \in {"resolving", "error"}
      BY <3>1 DEF StackDiscipline, Sentinel
    <3> QED
      BY <1>2, <3>1, <3>2
  <2> QED
    BY <1>1, <2>1, <2>2 DEF Sentinel
<1>6. CallChain'
  <2> SUFFICES ASSUME NEW k \in 1 .. l - 1 - 1
               PROVE  Waits(frames'[k], frames'[k + 1].node)
    BY <1>1, WaitsNext DEF CallChain
  <2>1. frames'[k] = frames[k] /\ frames'[k + 1] = frames[k + 1] /\ k \in 1 .. l - 1
    BY <1>1
  <2> QED
    BY <2>1 DEF StackDiscipline, CallChain
<1>7. FailurePropagates'
  <2>1. CASE outcome = "resolved"
    <3>1. ASSUME NEW k \in 1 .. l - 1
          PROVE  state'[frames'[k].node] # "error"
      <4>1. /\ frames'[k] = frames[k] /\ frames[k].node \in Node /\ frames[k].node # Top.node
            /\ k \in DOMAIN frames
        BY <1>1, <1>3
      <4>2. state[frames[k].node] # "error"
        BY <2>1, <4>1 DEF Sound
      <4> QED
        BY <1>2, <2>1, <4>1, <4>2
    <3> QED
      BY <1>1, <3>1 DEF FailurePropagates
  <2>2. CASE outcome = "error" /\ l > 1
    <3>1. l - 1 \in 1 .. l - 1 /\ l - 1 + 1 = l
      BY <2>2
    <3>2. Waits(frames[l - 1], Top.node)
      BY <3>1 DEF StackDiscipline, CallChain
    <3>3. Top' = frames[l - 1]
      BY <1>1, <3>1 DEF Top
    <3>4. Waits(Top', Top.node)
      BY <3>2, <3>3
    <3>5. Top.node \in Node /\ state'[Top.node] = "error"
      BY <1>2, <2>2, TopState
    <3>6. \E n \in Node : Waits(Top', n) /\ state'[n] = "error"
      BY <3>4, <3>5
    <3> QED
      BY <3>6, WaitsNext DEF FailurePropagates
  <2>3. CASE l = 1
    BY <1>1, <2>3 DEF FailurePropagates
  <2> QED
    BY <1>1, <2>1, <2>2, <2>3
<1>8. Kept
  <2> SUFFICES ASSUME NEW n \in Node, state[n] \in {"resolved", "error"}
               PROVE  state'[n] = state[n]
    BY DEF Kept
  <2>1. outcome = "resolved" => state[Top.node] # "error"
    BY <1>1 DEF Sound
  <2> QED
    BY <1>2, <2>1, TopState
<1> QED
  BY <1>4, <1>5, <1>6, <1>7, <1>8 DEF StackDiscipline
LEMMA GotoKeeps ==
    ASSUME TypeOK, ~Idle, StackDiscipline, UNCHANGED <<schema, state>>,
           NEW pc \in Pc, Goto(pc), \A m \in Node : Waits(Top, m) => state[m] # "error"
    PROVE  StackDiscipline' /\ Kept
<1>1. Sound
  BY NotWaiting
<1>2. frames'[Len(frames)].node = Top.node
  <2>1. FrameOf(Top.node, pc, 1, 0).node = Top.node
    BY DEF FrameOf
  <2> QED
    BY <2>1, GotoFrames
<1> QED
  BY <1>1, <1>2, GotoFrames, AdvanceKeeps

LEMMA ReturnKeeps ==
    ASSUME TypeOK, ~Idle, StackDiscipline, UNCHANGED schema,
           NEW outcome \in {"resolved", "error"}, Return(outcome),
           outcome = "resolved" => \A m \in Node : Waits(Top, m) => state[m] # "error"
    PROVE  StackDiscipline' /\ Kept
<1>1. outcome = "resolved" => Sound
  BY NotWaiting
<1>2. state' = [state EXCEPT ![Top.node] = outcome, ![Top.node] = outcome]
  BY TopState DEF Return, TypeOK
<1>3. frames' = SubSeq(frames, 1, Len(frames) - 1)
  BY DEF Return
<1> QED
  BY <1>1, <1>2, <1>3, TopState, PopKeeps

LEMMA CycleKeeps ==
    ASSUME TypeOK, ~Idle, StackDiscipline, UNCHANGED schema,
           NEW m \in Node, Cycle(m), state[m] = "resolving"
    PROVE  StackDiscipline' /\ Kept
<1>1. state' = [state EXCEPT ![m] = "error", ![Top.node] = "error"]
  BY DEF Cycle
<1>2. frames' = SubSeq(frames, 1, Len(frames) - 1)
  BY DEF Cycle
<1> QED
  BY <1>1, <1>2, PopKeeps

LEMMA ReadAtKeeps ==
    ASSUME TypeOK, ~Idle, StackDiscipline, UNCHANGED schema,
           NEW n, NEW at, NEW len, NEW v, ReadAt(n, at, len, v),
           \A m \in Node : Waits(Top, m) => state[m] # "error"
    PROVE  StackDiscipline' /\ Kept
<1>1. Return("resolved") \/ Return("error")
  BY DEF ReadAt
<1> QED
  BY <1>1, ReturnKeeps

\* What the running activation waits for, by its program point.
LEMMA WaitsAt ==
    ASSUME TypeOK, ~Idle
    PROVE  /\ Top.pc \in {"root", "position", "read", "siblings"} => \A m : ~Waits(Top, m)
           /\ Top.pc = "predecessor" => \A m : Waits(Top, m) <=> m = Before(Top.node)
           /\ Top.pc = "sibling" => \A m : Waits(Top, m) <=> m = schema.seq[Top.next]
           /\ Top.pc \in EvalPc /\ ~HasNextRef => \A m : ~Waits(Top, m)
           /\ HasNextRef => \A m : Waits(Top, m) <=> m = NextRef.node
<1>1. Top.pc \in {"root", "position", "read", "siblings", "predecessor", "sibling"}
        => Top.pc \notin EvalPc
  BY DEF EvalPc
<1>2. Top.pc \in EvalPc => Top.pc \notin {"predecessor", "sibling"}
  BY DEF EvalPc
<1>3. HasNextRef => Top.pc \in EvalPc
  BY DEF HasNextRef, Evaluating
<1> DEFINE refs == ExprAt(Top.node, Top.pc).refs
<1>4. Top.pc \in EvalPc => refs \in Seq(Ref) /\ Top.next \in Nat \ {0}
  BY <1>2, FieldType, ExprType, TopType DEF Frame, EvalPc
<1>5. ExprAt(Top.node, Top.pc) = NoExpr => refs = <<>>
  BY DEF NoExpr
<1>6. HasNextRef <=> Top.pc \in EvalPc /\ ExprAt(Top.node, Top.pc) # NoExpr
                     /\ Top.next <= Len(refs)
  BY DEF HasNextRef, Evaluating
<1>7. \A m : Waits(Top, m) <=>
        \/ Top.pc = "predecessor" /\ Before(Top.node) = m
        \/ Top.pc = "sibling" /\ schema.seq[Top.next] = m
        \/ Top.pc \in EvalPc /\ \E r \in {refs[k] : k \in {Top.next} \cap DOMAIN refs} : r.node = m
  BY DEF Waits
<1>8. NextRef = refs[Top.next]
  BY DEF NextRef
<1> HIDE DEF refs
<1>9. HasNextRef => Top.next \in DOMAIN refs
  BY <1>3, <1>4, <1>6
<1>10. Top.pc \in EvalPc /\ ~HasNextRef => Top.next \notin DOMAIN refs
  BY <1>4, <1>5, <1>6
<1>11. CASE HasNextRef
  BY <1>1, <1>2, <1>3, <1>7, <1>8, <1>9, <1>11
<1>12. CASE Top.pc \in EvalPc /\ ~HasNextRef
  BY <1>1, <1>2, <1>7, <1>10, <1>12
<1>13. CASE Top.pc \notin EvalPc
  BY <1>3, <1>7, <1>13
<1> QED
  BY <1>11, <1>12, <1>13

\* An expression that has been evaluated waits for nothing.
LEMMA EvaluatedWaits ==
    ASSUME TypeOK, NEW pc \in EvalPc, Evaluated(pc)
    PROVE  ~Idle /\ Top.pc = pc /\ Top.pc # "root" /\ \A m : ~Waits(Top, m)
BY WaitsAt DEF Evaluated, At, EvalPc
LEMMA ResolveKeeps ==
    ASSUME TypeOK, StackDiscipline, Resolve
    PROVE  StackDiscipline' /\ Kept
<1>0. {"cond", "pos", "siblings"} \subseteq Pc
  BY DEF Pc, EvalPc
<1>1. CASE ResolveRoot
  <2>1. ~Idle /\ Top.pc = "root" /\ UNCHANGED schema /\ Return("resolved")
    BY <1>1 DEF ResolveRoot, At
  <2> QED
    BY <2>1, WaitsAt, ReturnKeeps
<1>2. CASE FindPosition
  <2>1. ~Idle /\ Top.pc = "position" /\ UNCHANGED schema
    BY <1>2 DEF FindPosition, At
  <2>2. Top.node \in SeqFields
    BY <2>1, TopType DEF Fits
  <2>3. Before(Top.node) \in Node
    BY <2>2, BeforeType
  <2>4. \A m : ~Waits(Top, m)
    BY <2>1, WaitsAt
  <2>5. CASE Goto("cond") /\ UNCHANGED state
    BY <1>0, <2>1, <2>4, <2>5, GotoKeeps
  <2>6. CASE Call(Before(Top.node), "predecessor", 1) /\ state[Before(Top.node)] = "unresolved"
    <3>1. "predecessor" \in Pc /\ Sound
      BY <2>4, NotWaiting DEF Pc
    <3>2. Waits(FrameOf(Top.node, "predecessor", 1, Top.acc), Before(Top.node))
      BY DEF Waits, FrameOf
    <3> QED
      BY <2>1, <2>3, <2>6, <3>1, <3>2, CallKeeps
  <2>7. CASE Cycle(Before(Top.node)) /\ state[Before(Top.node)] = "resolving"
    BY <2>1, <2>3, <2>7, CycleKeeps
  <2> QED
    BY <1>2, <2>5, <2>6, <2>7 DEF FindPosition
<1>3. CASE AfterPredecessor
  <2>1. ~Idle /\ Top.pc = "predecessor" /\ UNCHANGED schema
    BY <1>3 DEF AfterPredecessor, At
  <2>2. CASE Return("error")
    BY <2>1, <2>2, ReturnKeeps
  <2>3. CASE Goto("cond") /\ UNCHANGED state /\ state[Before(Top.node)] # "error"
    BY <1>0, <2>1, <2>3, WaitsAt, GotoKeeps
  <2> QED
    BY <1>3, <2>2, <2>3 DEF AfterPredecessor
<1>4. CASE SkipCondition
  <2>1. /\ ~Idle /\ Top.pc = "cond" /\ UNCHANGED <<schema, state>>
        /\ Goto(BodyPc(Top.node)) /\ AttrOf(Top.node).cond = NoExpr
    BY <1>4 DEF SkipCondition, At
  <2>2. Top.pc \in EvalPc /\ ~HasNextRef
    BY <2>1 DEF HasNextRef, Evaluating, ExprAt, EvalPc
  <2>3. BodyPc(Top.node) \in Pc
    BY <2>1, FieldType, BodyPcType DEF Pc, EvalPc
  <2> QED
    BY <2>1, <2>2, <2>3, WaitsAt, GotoKeeps
<1>5. CASE EvaluateReference
  <2> DEFINE m == NextRef.node
  <2>1. /\ ~Idle /\ Top.pc \in EvalPc /\ Top.pc \in Pc /\ HasNextRef
        /\ UNCHANGED schema /\ Top.pc # "root"
    BY <1>5 DEF EvaluateReference, HasNextRef, Evaluating, Pc, EvalPc
  <2>2. m \in Node /\ Top.next \in Nat \ {0} /\ Top.acc \in Nat
    BY <2>1, FieldType, NextRefType
  <2>3. \A n : Waits(Top, n) <=> n = m
    BY <2>1, WaitsAt
  <2>4. CASE state[m] = "unresolved" /\ Call(m, Top.pc, Top.next)
    <3>1. Sound
      BY <2>3, <2>4, NotWaiting
    <3>2. FrameOf(Top.node, Top.pc, Top.next, Top.acc) = Top
      BY <2>1, TopType DEF FrameOf, Frame
    <3> QED
      BY <2>1, <2>2, <2>3, <2>4, <3>1, <3>2, CallKeeps
  <2>5. CASE /\ state[m] = "resolved" /\ value[m] # Null
             /\ frames' = [frames EXCEPT ![Len(frames)] =
                    FrameOf(Top.node, Top.pc, Top.next + 1, Top.acc + value[m])]
             /\ UNCHANGED state
    <3> DEFINE f == FrameOf(Top.node, Top.pc, Top.next + 1, Top.acc + value[m])
    <3>1. f \in Frame /\ f.node = Top.node
      <4>1. value[m] \in Nat
        BY <2>2, <2>5 DEF TypeOK
      <4>2. Top.node \in Node /\ Top.next + 1 \in Nat \ {0} /\ Top.acc + value[m] \in Nat
        BY <2>1, <2>2, <4>1, TopState
      <4> QED
        BY <2>1, <4>2 DEF FrameOf, Frame
    <3>2. /\ frames' \in Seq(Frame)
          /\ Len(frames') = Len(frames)
          /\ \A k \in 1 .. Len(frames) - 1 : frames'[k] = frames[k]
          /\ frames'[Len(frames)] = f
      BY <2>1, <2>5, <3>1, TopType DEF TypeOK
    <3>3. Sound
      BY <2>3, <2>5, NotWaiting
    <3> QED
      BY <2>1, <2>5, <3>1, <3>2, <3>3, AdvanceKeeps
  <2>6. CASE Return("error")
    BY <2>1, <2>6, ReturnKeeps
  <2>7. CASE state[m] = "resolving" /\ Cycle(m)
    BY <2>1, <2>2, <2>7, CycleKeeps
  <2> QED
    BY <1>5, <2>4, <2>5, <2>6, <2>7 DEF EvaluateReference
<1>6. CASE ExceedDepth
  <2>1. ~Idle /\ UNCHANGED schema /\ Return("error")
    BY <1>6 DEF ExceedDepth, Evaluating
  <2> QED
    BY <2>1, ReturnKeeps
<1>7. CASE FinishCondition
  <2>1. ~Idle /\ Top.pc = "cond" /\ Top.pc # "root" /\ \A m : ~Waits(Top, m)
    BY <1>7, EvaluatedWaits DEF FinishCondition, EvalPc
  <2>2. UNCHANGED schema
    BY <1>7 DEF FinishCondition
  <2>3. CASE Goto(BodyPc(Top.node)) /\ UNCHANGED state
    <3>1. BodyPc(Top.node) \in Pc
      BY <2>1, FieldType, BodyPcType DEF Pc, EvalPc
    <3> QED
      BY <2>1, <2>2, <2>3, <3>1, GotoKeeps
  <2>4. CASE Return("resolved")
    BY <2>1, <2>2, <2>4, ReturnKeeps
  <2> QED
    BY <1>7, <2>3, <2>4 DEF FinishCondition
<1>8. CASE ReadByte
  <2>1. ~Idle /\ \A m : ~Waits(Top, m)
    BY <1>8, WaitsAt DEF ReadByte, At
  <2> QED
    BY <1>8, <2>1, ReadAtKeeps DEF ReadByte
<1>9. CASE ReadSized
  <2>1. ~Idle /\ \A m : ~Waits(Top, m)
    BY <1>9, EvaluatedWaits DEF ReadSized, EvalPc
  <2> QED
    BY <1>9, <2>1, ReadAtKeeps DEF ReadSized
<1>10. CASE ComputeValue
  <2>1. ~Idle /\ \A m : ~Waits(Top, m)
    BY <1>10, EvaluatedWaits DEF ComputeValue, EvalPc
  <2> QED
    BY <1>10, <2>1, ReturnKeeps DEF ComputeValue
<1>11. CASE EnsureSibling
  <2>1. ~Idle /\ Top.pc = "siblings" /\ UNCHANGED schema
    BY <1>11 DEF EnsureSibling, At
  <2>2. \A m : ~Waits(Top, m)
    BY <2>1, WaitsAt
  <2>3. CASE \E k \in FirstUnread : Call(schema.seq[k], "sibling", k)
    <3>1. PICK k \in FirstUnread : Call(schema.seq[k], "sibling", k)
      BY <2>3
    <3>2. /\ k \in Nat \ {0} /\ schema.seq[k] \in Node /\ "sibling" \in Pc
          /\ state[schema.seq[k]] = "unresolved"
      BY SchemaType DEF FirstUnread, Node, Pc
    <3>3. Sound /\ Waits(FrameOf(Top.node, "sibling", k, Top.acc), schema.seq[k])
      BY <2>2, NotWaiting DEF Waits, FrameOf
    <3> QED
      BY <2>1, <3>1, <3>2, <3>3, CallKeeps
  <2>4. CASE Goto("pos") /\ UNCHANGED state
    BY <1>0, <2>1, <2>2, <2>4, GotoKeeps
  <2> QED
    BY <1>11, <2>3, <2>4 DEF EnsureSibling
<1>12. CASE AfterSibling
  <2>1. ~Idle /\ Top.pc = "sibling" /\ UNCHANGED schema
    BY <1>12 DEF AfterSibling, At
  <2>2. CASE Return("error")
    BY <2>1, <2>2, ReturnKeeps
  <2>3. CASE Goto("siblings") /\ UNCHANGED state /\ state[schema.seq[Top.next]] # "error"
    BY <1>0, <2>1, <2>3, WaitsAt, GotoKeeps
  <2> QED
    BY <1>12, <2>2, <2>3 DEF AfterSibling
<1>13. CASE ReadInstance
  <2>1. ~Idle /\ \A m : ~Waits(Top, m)
    <3>1. CASE Evaluated("pos")
      BY <3>1, EvaluatedWaits DEF EvalPc
    <3>2. CASE At("pos") /\ AttrOf(Top.node).expr = NoExpr
      <4>1. ~Idle /\ Top.pc \in EvalPc /\ ~HasNextRef
        BY <3>2 DEF At, EvalPc, HasNextRef, Evaluating, ExprAt
      <4> QED
        BY <4>1, WaitsAt
    <3> QED
      BY <1>13, <3>1, <3>2 DEF ReadInstance
  <2> QED
    BY <1>13, <2>1, ReadAtKeeps DEF ReadInstance
<1> QED
  BY <1>1, <1>2, <1>3, <1>4, <1>5, <1>6, <1>7, <1>8, <1>9, <1>10, <1>11, <1>12, <1>13
     DEF Resolve
LEMMA CallersKeep ==
    ASSUME TypeOK, StackDiscipline
    PROVE  /\ \A n \in Node : Access(n) => StackDiscipline'
           /\ \A n \in Dirtiable : MarkDirty(n) => StackDiscipline'
           /\ \A n \in Dirtiable, v \in EditValues : SetValue(n, v) => StackDiscipline'
           /\ \A n \in Invalidatable : Invalidate(n) => StackDiscipline'
<1>1. Idle => \A n \in Node : state[n] # "resolving"
  BY DEF Idle, StackDiscipline, Sentinel
<1>2. ASSUME Idle, Idle', \A n \in Node : state'[n] # "resolving"
      PROVE  StackDiscipline'
  BY <1>2 DEF Idle, StackDiscipline, Distinct, Sentinel, CallChain, FailurePropagates
<1>3. \A D, n : Cleared(state, D, "unresolved")[n] = "resolving" /\ n \in Node
                  => state[n] = "resolving"
  BY DEF Cleared
<1>4. ASSUME NEW n \in Node, Access(n) PROVE StackDiscipline'
  <2>1. /\ frames' = <<Activation(n)>> /\ Activation(n).node = n /\ Idle
        /\ state' = [state EXCEPT ![n] = "resolving"]
    BY <1>4 DEF Access, Activation, FrameOf
  <2>2. DOMAIN frames' = {1} /\ Len(frames') = 1 /\ frames'[1].node = n
    BY <2>1
  <2>3. \A m \in Node : state'[m] = "resolving" <=> m = n
    BY <1>1, <2>1 DEF TypeOK
  <2> QED
    BY <2>2, <2>3 DEF StackDiscipline, Distinct, Sentinel, CallChain, FailurePropagates
<1>5. ASSUME NEW n \in Dirtiable, MarkDirty(n) PROVE StackDiscipline'
  BY <1>1, <1>2, <1>3, <1>5 DEF MarkDirty, Idle
<1>6. ASSUME NEW n \in Dirtiable, NEW v \in EditValues, SetValue(n, v) PROVE StackDiscipline'
  <2>1. \A m \in Node : state'[m] # "resolving"
    <3> DEFINE D == Reached(rdeps[n])
    <3>1. state' = [Cleared(state, D, "unresolved") EXCEPT ![n] = "resolved"] /\ Idle
      BY <1>6 DEF SetValue
    <3>2. \A m \in Node : Cleared(state, D, "unresolved")[m] # "resolving"
      BY <1>1, <1>3, <3>1
    <3>3. DOMAIN Cleared(state, D, "unresolved") = Node
      BY DEF Cleared
    <3> HIDE DEF D
    <3> QED
      BY <3>1, <3>2, <3>3
  <2> QED
    BY <1>2, <1>6, <2>1 DEF SetValue, Idle
<1>7. ASSUME NEW n \in Invalidatable, Invalidate(n) PROVE StackDiscipline'
  BY <1>1, <1>2, <1>3, <1>7 DEF Invalidate, Idle
<1> QED
  BY <1>4, <1>5, <1>6, <1>7

LEMMA StutterKeeps ==
    ASSUME StackDiscipline, UNCHANGED vars
    PROVE  StackDiscipline'
<1>1. \A f, m : Waits(f, m)' <=> Waits(f, m)
  BY WaitsNext DEF vars
<1>2. UNCHANGED <<frames, state>> /\ (Top' = Top)
  BY DEF vars, Top
<1>3. Distinct' /\ Sentinel'
  BY <1>2 DEF StackDiscipline, Distinct, Sentinel
<1>4. CallChain'
  BY <1>1, <1>2 DEF StackDiscipline, CallChain
<1>5. FailurePropagates'
  BY <1>1, <1>2 DEF StackDiscipline, FailurePropagates
<1> QED
  BY <1>3, <1>4, <1>5 DEF StackDiscipline

LEMMA InitKeeps == Init => StackDiscipline
BY DEF Init, StackDiscipline, Distinct, Sentinel, CallChain, FailurePropagates

LEMMA StackStep == TypeOK /\ StackDiscipline /\ [Next]_vars => StackDiscipline'
BY ResolveKeeps, CallersKeep, StutterKeeps DEF Next

\* On every path through resolve, error paths and cycles included, the
\* Resolving sentinel marks exactly the nodes of the stack, no node is resolved
\* re-entrantly, and a cycle's mark makes everything down to it fail.
THEOREM StackSafe == Spec => []StackDiscipline
<1>1. TypeOK /\ StackDiscipline /\ [Next]_vars => StackDiscipline'
  BY StackStep
<1> QED
  BY InitKeeps, TypeCorrect, <1>1, PTL DEF Spec

\* A step of resolve writes the value and the span of the running activation's
\* node only.
LEMMA OnlyTop ==
    ASSUME TypeOK, Resolve, NEW n \in Node, n # Top.node
    PROVE  value'[n] = value[n] /\ start'[n] = start[n] /\ end'[n] = end[n]
<1> DEFINE Kept3 == value'[n] = value[n] /\ start'[n] = start[n] /\ end'[n] = end[n]
<1>1. \A f, x : f \in [Node -> Int] => [f EXCEPT ![Top.node] = x][n] = f[n]
  OBVIOUS
<1>2. CASE ResolveRoot
  <2>1. n # Root
    BY <1>2, TopType DEF ResolveRoot, At, Fits
  <2> QED
    BY <1>2, <2>1 DEF ResolveRoot, TypeOK
<1>3. CASE FindPosition
  BY <1>1, <1>3 DEF FindPosition, TypeOK
<1>4. CASE AfterPredecessor
  BY <1>1, <1>4 DEF AfterPredecessor, TypeOK
<1>5. CASE SkipCondition \/ EvaluateReference \/ ExceedDepth \/ AfterSibling
  BY <1>5 DEF SkipCondition, EvaluateReference, ExceedDepth, AfterSibling, stored
<1>6. CASE FinishCondition
  BY <1>1, <1>6 DEF FinishCondition, TypeOK
<1>7. CASE ComputeValue
  BY <1>1, <1>7 DEF ComputeValue, TypeOK
<1>8. CASE EnsureSibling
  BY <1>8 DEF EnsureSibling
<1>9. ASSUME NEW at, NEW len, NEW v, ReadAt(Top.node, at, len, v) PROVE Kept3
  BY <1>1, <1>9 DEF ReadAt, TypeOK
<1>10. CASE ReadByte
  BY <1>9, <1>10 DEF ReadByte
<1>11. CASE ReadSized
  BY <1>9, <1>11 DEF ReadSized
<1>12. CASE ReadInstance
  BY <1>9, <1>12 DEF ReadInstance
<1> QED
  BY <1>2, <1>3, <1>4, <1>5, <1>6, <1>7, <1>8, <1>10, <1>11, <1>12 DEF Resolve

\* Resolving never takes back an answer: what a node's Resolve returned once,
\* a value, a span or an error, it returns until the next edit.
THEOREM AnswersKept == Spec => AnswersAreStable
<1>1. ASSUME TypeOK, StackDiscipline, [Next]_vars, ~Idle, NEW n \in Node
      PROVE  /\ state[n] = "error" => state'[n] = "error"
             /\ state[n] = "resolved" =>
                  /\ state'[n] = "resolved" /\ value'[n] = value[n]
                  /\ start'[n] = start[n] /\ end'[n] = end[n]
  <2>1. CASE Resolve
    <3>1. Kept
      BY <1>1, <2>1, ResolveKeeps
    <3>2. state[n] = "resolved" => n # Top.node
      BY <1>1, TopState
    <3> QED
      BY <1>1, <2>1, <3>1, <3>2, OnlyTop DEF Kept
  <2>2. CASE UNCHANGED vars
    BY <2>2 DEF vars, stored
  <2>3. Resolve \/ UNCHANGED vars
    BY <1>1 DEF Next, Access, MarkDirty, SetValue, Invalidate
  <2> QED
    BY <2>1, <2>2, <2>3
<1>2. TypeOK /\ StackDiscipline /\ [Next]_vars =>
        [~Idle => \A n \in Node :
          /\ state[n] = "error" => state'[n] = "error"
          /\ state[n] = "resolved" =>
               /\ state'[n] = "resolved" /\ value'[n] = value[n]
               /\ start'[n] = start[n] /\ end'[n] = end[n]]_vars
  BY <1>1
<1> QED
  BY TypeCorrect, StackSafe, <1>2, PTL DEF Spec, AnswersAreStable

-----------------------------------------------------------------------------
(* The layout.  Layout is about an idle tree; LayoutInv says what the      *)
(* activations on the stack have established on the way there.             *)

Settled(n) == state[n] \in {"resolved", "error"}

\* The kind of attribute that each program point is for.
KindFits ==
    \A k \in DOMAIN frames :
        LET f == frames[k] IN
        /\ f.pc \in {"siblings", "sibling", "pos"} => AttrOf(f.node).kind = "at"
        /\ f.pc = "read" => AttrOf(f.node).kind = "u1"
        /\ f.pc = "size" => AttrOf(f.node).kind = "bytes"
        /\ f.pc = "value" => AttrOf(f.node).kind = "value"

\* A field that has asked for the one before it has its answer.
Answered == ~Idle /\ Top.pc = "predecessor" => Settled(Before(Top.node))

\* A seq field has taken its start from the one before it.
Placed(n) == \/ state[n] = "resolved"
             \/ \E k \in DOMAIN frames :
                   frames[k].node = n /\ frames[k].pc \notin {"position", "predecessor"}
Adjoins(n) == /\ Settled(Before(n))
              /\ state[Before(n)] = "resolved" => start[n] = BeforeEnd(n)
InSequence == \A n \in SeqFields : Placed(n) => Adjoins(n)

\* An instance without pos: is read where the fields end.
Unplaced(n) == AttrOf(n).kind = "at" /\ AttrOf(n).expr = NoExpr
AtTheEnd(p) == /\ Settled(LastField)
               /\ state[LastField] = "resolved" => p = end[LastField]
AfterFields ==
    schema.seq # <<>> /\ Acyclic(ReadsOf) =>
        /\ \A n \in Field : Unplaced(n) /\ state[n] = "resolved" /\ value[n] # Null => AtTheEnd(start[n])
        /\ ~Idle /\ Top.pc = "pos" /\ Unplaced(Top.node) => AtTheEnd(pos)

LayoutInv == KindFits /\ Answered /\ InSequence /\ AfterFields

\* What a step of resolve leaves as it was.
LEMMA StepKeeps ==
    ASSUME TypeOK, StackDiscipline, Resolve
    PROVE  /\ UNCHANGED schema /\ ~Idle
           /\ \A n \in Node : /\ Settled(n) => state'[n] = state[n]
                              /\ n # Top.node => start'[n] = start[n] /\ end'[n] = end[n]
                              /\ state[n] = "resolved" =>
                                    start'[n] = start[n] /\ end'[n] = end[n] /\ value'[n] = value[n]
<1>1. UNCHANGED schema
  BY DEF Resolve, ResolveRoot, FindPosition, AfterPredecessor, SkipCondition, EvaluateReference,
         ExceedDepth, FinishCondition, ReadByte, ReadSized, ComputeValue, EnsureSibling,
         AfterSibling, ReadInstance
<1>2. ~Idle
  BY DEF Resolve, ResolveRoot, FindPosition, AfterPredecessor, SkipCondition, EvaluateReference,
         ExceedDepth, FinishCondition, ReadByte, ReadSized, ComputeValue, EnsureSibling,
         AfterSibling, ReadInstance, At, HasNextRef, Evaluating, Evaluated
<1>3. ASSUME NEW n \in Node
      PROVE  /\ Settled(n) => state'[n] = state[n]
             /\ n # Top.node => start'[n] = start[n] /\ end'[n] = end[n]
             /\ state[n] = "resolved" =>
                   start'[n] = start[n] /\ end'[n] = end[n] /\ value'[n] = value[n]
  <2>1. Settled(n) => state'[n] = state[n]
    BY ResolveKeeps DEF Kept, Settled
  <2>2. state[n] = "resolved" => n # Top.node
    BY <1>2, TopState
  <2> QED
    BY <2>1, <2>2, OnlyTop
<1> QED
  BY <1>1, <1>2, <1>3

\* Where the stack may have moved.
Advanced(pc) == /\ frames' \in Seq(Frame) /\ Len(frames') = Len(frames)
                /\ \A k \in 1 .. Len(frames) - 1 : frames'[k] = frames[k]
                /\ frames'[Len(frames)].node = Top.node /\ frames'[Len(frames)].pc = pc
                /\ UNCHANGED <<state, edited>>
Fresh == frames'[Len(frames)].next = 1 /\ frames'[Len(frames)].acc = 0
Called(m, pc) == /\ frames' \in Seq(Frame) /\ Len(frames') = Len(frames) + 1
                 /\ \A k \in 1 .. Len(frames) - 1 : frames'[k] = frames[k]
                 /\ frames'[Len(frames)].node = Top.node /\ frames'[Len(frames)].pc = pc
                 /\ frames'[Len(frames) + 1].node = m /\ frames'[Len(frames) + 1].pc = EntryPc(m)
                 /\ frames'[Len(frames) + 1].next = 1 /\ frames'[Len(frames) + 1].acc = 0
                 /\ state' = [state EXCEPT ![m] = "resolving"] /\ state[m] = "unresolved"
                 /\ edited' = edited \ {m}
Popped(m, outcome) == /\ frames' \in Seq(Frame) /\ Len(frames') = Len(frames) - 1
                      /\ \A k \in 1 .. Len(frames) - 1 : frames'[k] = frames[k]
                      /\ state' = [state EXCEPT ![m] = outcome, ![Top.node] = outcome]
                      /\ UNCHANGED edited

\* goto stays in its activation, call enters one above it, a return and a
\* detected cycle leave one.
LEMMA GotoAdvances ==
    ASSUME TypeOK, ~Idle, NEW pc \in Pc, Goto(pc), UNCHANGED <<state, edited>>
    PROVE  Advanced(pc) /\ Fresh
<1>1. /\ FrameOf(Top.node, pc, 1, 0).node = Top.node /\ FrameOf(Top.node, pc, 1, 0).pc = pc
      /\ FrameOf(Top.node, pc, 1, 0).next = 1 /\ FrameOf(Top.node, pc, 1, 0).acc = 0
  BY DEF FrameOf
<1> QED
  BY <1>1, GotoFrames DEF Advanced, Fresh

LEMMA CallCalls ==
    ASSUME TypeOK, ~Idle, NEW m \in Node, NEW pc \in Pc, NEW next \in Nat \ {0}, Call(m, pc, next),
           state[m] = "unresolved"
    PROVE  /\ Called(m, pc)
           /\ frames'[Len(frames)].next = next /\ frames'[Len(frames)].acc = Top.acc
<1>1. /\ FrameOf(Top.node, pc, next, Top.acc).node = Top.node
      /\ FrameOf(Top.node, pc, next, Top.acc).pc = pc
      /\ FrameOf(Top.node, pc, next, Top.acc).next = next
      /\ FrameOf(Top.node, pc, next, Top.acc).acc = Top.acc
      /\ Activation(m).node = m /\ Activation(m).pc = EntryPc(m)
      /\ Activation(m).next = 1 /\ Activation(m).acc = 0
  BY DEF FrameOf, Activation
<1> QED
  BY <1>1, CallFrames DEF Called, Call

LEMMA ReturnPops ==
    ASSUME TypeOK, StackDiscipline, ~Idle, NEW outcome, Return(outcome)
    PROVE  Popped(Top.node, outcome)
<1>1. state' = [state EXCEPT ![Top.node] = outcome, ![Top.node] = outcome]
  BY TopState DEF Return, TypeOK
<1> QED
  BY <1>1, PopFrames DEF Popped, Return

LEMMA CyclePops ==
    ASSUME TypeOK, ~Idle, NEW m, Cycle(m)
    PROVE  Popped(m, "error")
BY PopFrames DEF Popped, Cycle

\* What a resolution leaves: nothing where the if: is false, or the value that
\* was read or computed.
Reads(at, len) ==
    /\ start'[Top.node] = at /\ end'[Top.node] = at + len /\ Top.node \in Field
    /\ value'[Top.node] = IF Top.pc = "size" THEN len ELSE ByteAt(at)
Settles ==
    /\ UNCHANGED edges
    /\ Top.pc = "cond" => /\ Evaluated("cond") /\ Result = 0 /\ Top.node \in Field
                          /\ value'[Top.node] = Null /\ UNCHANGED start
    /\ Top.pc = "read" => Reads(start[Top.node], 1)
    /\ Top.pc = "size" => Evaluated("size") /\ Reads(start[Top.node], Result)
    /\ Top.pc = "value" => /\ Evaluated("value") /\ Top.node \in Field
                           /\ value'[Top.node] = Result /\ UNCHANGED start
    /\ Top.pc = "pos" => \/ Evaluated("pos") /\ Reads(Result, 1)
                         \/ AttrOf(Top.node).expr = NoExpr /\ Reads(pos, 1)

\* What a step of resolve does, by where it moves.
Enters == /\ Top.pc \in {"position", "predecessor"} /\ Advanced("cond") /\ Fresh
          /\ Settled(Before(Top.node)) /\ start'[Top.node] = BeforeEnd(Top.node)
Asks == Top.pc = "position" /\ Called(Before(Top.node), "predecessor") /\ UNCHANGED start
Begins == /\ Top.pc = "cond" /\ Advanced(BodyPc(Top.node)) /\ Fresh /\ UNCHANGED start
          /\ AttrOf(Top.node).cond = NoExpr \/ (Evaluated("cond") /\ Result # 0)
Refers == /\ HasNextRef /\ UNCHANGED start /\ RecordDep(NextRef)
          /\ \/ /\ Called(NextRef.node, Top.pc)
                /\ frames'[Len(frames)].next = Top.next /\ frames'[Len(frames)].acc = Top.acc
             \/ /\ Advanced(Top.pc)
                /\ state[NextRef.node] = "resolved" /\ value[NextRef.node] # Null
                /\ frames'[Len(frames)].next = Top.next + 1
                /\ frames'[Len(frames)].acc = Top.acc + value[NextRef.node]
Ensures == Top.pc = "siblings" /\ (\E m \in Node : Called(m, "sibling")) /\ UNCHANGED start
Seeks == /\ Top.pc = "siblings" /\ FirstUnread = {} /\ Advanced("pos") /\ Fresh
         /\ UNCHANGED <<start, end>>
         /\ schema.seq # <<>> /\ state[LastField] = "resolved" => pos' = end[LastField]
GoesOn == Top.pc = "sibling" /\ Advanced("siblings") /\ Fresh /\ UNCHANGED start
Fails == \E m \in Node : Popped(m, "error")
Succeeds == Popped(Top.node, "resolved") /\ Top.pc \in EvalPc \cup {"root", "read"} /\ Settles

\* A read returns an error or places the node it reads for.
LEMMA ReadMoves ==
    ASSUME TypeOK, StackDiscipline, ~Idle, Top.pc \in {"size", "pos", "read"},
           NEW at \in Int, NEW len \in Nat, UNCHANGED edges,
           ReadAt(Top.node, at, len, IF Top.pc = "size" THEN len ELSE ByteAt(at))
    PROVE  Fails \/ (Popped(Top.node, "resolved") /\ Reads(at, len))
<1>1. Top.node \in Field /\ Top.node \in Node
  BY FieldType, TopState
<1> PICK v : v = IF Top.pc = "size" THEN len ELSE ByteAt(at)
  OBVIOUS
<1>2. CASE Return("error")
  BY <1>1, <1>2, ReturnPops DEF Fails
<1>3. CASE /\ Return("resolved") /\ start' = [start EXCEPT ![Top.node] = at]
           /\ end' = [end EXCEPT ![Top.node] = at + len]
           /\ value' = [value EXCEPT ![Top.node] = v]
  <2>1. Popped(Top.node, "resolved")
    BY <1>3, ReturnPops
  <2>2. start'[Top.node] = at /\ end'[Top.node] = at + len /\ value'[Top.node] = v
    BY <1>1, <1>3 DEF TypeOK
  <2> QED
    BY <1>1, <2>1, <2>2 DEF Reads
<1> QED
  BY <1>2, <1>3 DEF ReadAt

\* Every step of resolve is one of the nine movements.
LEMMA Movements ==
    ASSUME TypeOK, StackDiscipline, Answered, Resolve
    PROVE  Enters \/ Asks \/ Begins \/ Refers \/ Ensures \/ Seeks \/ GoesOn \/ Fails \/ Succeeds
<1>0. /\ {"cond", "pos", "siblings", "predecessor", "sibling"} \subseteq Pc
      /\ ~Idle /\ Top.node \in Node
  BY StepKeeps, TopState DEF Pc, EvalPc
<1>1. CASE ResolveRoot
  <2>1. Top.pc = "root" /\ Return("resolved") /\ UNCHANGED edges
    BY <1>1 DEF ResolveRoot, At
  <2> QED
    BY <1>0, <2>1, ReturnPops DEF Succeeds, Settles, EvalPc
<1>2. CASE FindPosition
  <2>1. Top.pc = "position" /\ Top.node \in SeqFields
    BY <1>0, <1>2, TopType DEF FindPosition, At, Fits
  <2>2. Before(Top.node) \in Node
    BY <2>1, BeforeType
  <2>3. CASE /\ state[Before(Top.node)] \in {"resolved", "error"} /\ Goto("cond")
             /\ UNCHANGED <<state, edited>>
             /\ start' = [start EXCEPT ![Top.node] = BeforeEnd(Top.node)]
    <3>1. start'[Top.node] = BeforeEnd(Top.node)
      BY <1>0, <2>3 DEF TypeOK
    <3> QED
      BY <1>0, <2>1, <2>3, <3>1, GotoAdvances DEF Enters, Settled
  <2>4. CASE /\ Call(Before(Top.node), "predecessor", 1) /\ UNCHANGED start
             /\ state[Before(Top.node)] = "unresolved"
    <3>1. "predecessor" \in Pc /\ 1 \in Nat \ {0}
      BY <1>0
    <3>2. Called(Before(Top.node), "predecessor")
      BY <1>0, <2>2, <2>4, <3>1, CallCalls
    <3> QED
      BY <2>1, <2>4, <3>2 DEF Asks
  <2>5. CASE Cycle(Before(Top.node))
    BY <1>0, <2>2, <2>5, CyclePops DEF Fails
  <2> QED
    BY <1>2, <2>3, <2>4, <2>5 DEF FindPosition
<1>3. CASE AfterPredecessor
  <2>1. Top.pc = "predecessor" /\ Top.node \in SeqFields
    BY <1>0, <1>3, TopType DEF AfterPredecessor, At, Fits
  <2>2. Settled(Before(Top.node))
    BY <1>0, <2>1 DEF Answered
  <2>3. CASE /\ Goto("cond") /\ UNCHANGED <<state, edited>>
             /\ start' = [start EXCEPT ![Top.node] = BeforeEnd(Top.node)]
    <3>1. start'[Top.node] = BeforeEnd(Top.node)
      BY <1>0, <2>3 DEF TypeOK
    <3> QED
      BY <1>0, <2>1, <2>2, <2>3, <3>1, GotoAdvances DEF Enters
  <2>4. CASE Return("error")
    BY <1>0, <2>4, ReturnPops DEF Fails
  <2> QED
    BY <1>3, <2>3, <2>4 DEF AfterPredecessor
<1>4. CASE SkipCondition
  <2>1. /\ Top.pc = "cond" /\ UNCHANGED <<state, edited, start>> /\ Goto(BodyPc(Top.node))
        /\ AttrOf(Top.node).cond = NoExpr
    BY <1>4 DEF SkipCondition, At, stored
  <2>2. BodyPc(Top.node) \in Pc
    BY <1>0, <2>1, FieldType, BodyPcType DEF Pc, EvalPc
  <2> QED
    BY <1>0, <2>1, <2>2, GotoAdvances DEF Begins
<1>5. CASE EvaluateReference
  <2> DEFINE m == NextRef.node
  <2>1. /\ Top.pc \in EvalPc /\ Top.pc \in Pc /\ HasNextRef /\ UNCHANGED start /\ Top.pc # "root"
        /\ RecordDep(NextRef)
    BY <1>5 DEF EvaluateReference, HasNextRef, Evaluating, Pc, EvalPc, stored
  <2>2. m \in Node /\ Top.next \in Nat \ {0} /\ Top.acc \in Nat
    BY <1>0, <2>1, FieldType, NextRefType
  <2>4. CASE Call(m, Top.pc, Top.next) /\ state[m] = "unresolved"
    BY <1>0, <2>1, <2>2, <2>4, CallCalls DEF Refers
  <2>5. CASE /\ state[m] = "resolved" /\ value[m] # Null
             /\ frames' = [frames EXCEPT ![Len(frames)] =
                    FrameOf(Top.node, Top.pc, Top.next + 1, Top.acc + value[m])]
             /\ UNCHANGED <<state, edited>>
    <3>1. PICK f : f = FrameOf(Top.node, Top.pc, Top.next + 1, Top.acc + value[m])
      OBVIOUS
    <3>2. /\ f \in Frame /\ f.node = Top.node /\ f.pc = Top.pc
          /\ f.next = Top.next + 1 /\ f.acc = Top.acc + value[m]
      <4>1. value[m] \in Nat
        BY <2>2, <2>5 DEF TypeOK
      <4>2. Top.node \in Node /\ Top.next + 1 \in Nat \ {0} /\ Top.acc + value[m] \in Nat
        BY <1>0, <2>2, <4>1
      <4> QED
        BY <2>1, <3>1, <4>2 DEF FrameOf, Frame
    <3>3. /\ frames' \in Seq(Frame)
          /\ Len(frames') = Len(frames)
          /\ \A k \in 1 .. Len(frames) - 1 : frames'[k] = frames[k]
          /\ frames'[Len(frames)] = f
      BY <1>0, <2>5, <3>1, <3>2, TopType DEF TypeOK
    <3>4. Advanced(Top.pc)
      BY <2>5, <3>2, <3>3 DEF Advanced
    <3> QED
      BY <2>1, <2>5, <3>2, <3>3, <3>4 DEF Refers
  <2>6. CASE Return("error")
    BY <1>0, <2>6, ReturnPops DEF Fails
  <2>7. CASE Cycle(m)
    BY <1>0, <2>2, <2>7, CyclePops DEF Fails
  <2> QED
    BY <1>5, <2>4, <2>5, <2>6, <2>7 DEF EvaluateReference
<1>6. CASE ExceedDepth
  BY <1>0, <1>6, ReturnPops DEF ExceedDepth, Fails
<1>7. CASE FinishCondition
  <2>1. Top.pc = "cond"
    BY <1>7, EvaluatedWaits DEF FinishCondition, EvalPc
  <2>2. UNCHANGED start /\ Top.node \in Field
    BY <1>0, <1>7, <2>1, FieldType DEF FinishCondition
  <2>3. CASE Goto(BodyPc(Top.node)) /\ UNCHANGED <<state, edited>> /\ Result # 0
    <3>1. BodyPc(Top.node) \in Pc
      BY <1>0, <2>1, FieldType, BodyPcType DEF Pc, EvalPc
    <3> QED
      BY <1>0, <1>7, <2>1, <2>2, <2>3, <3>1, GotoAdvances DEF Begins, FinishCondition
  <2>4. CASE Result = 0 /\ Return("resolved") /\ value' = [value EXCEPT ![Top.node] = Null]
    <3>1. value'[Top.node] = Null
      BY <1>0, <2>4 DEF TypeOK
    <3>2. UNCHANGED edges /\ Evaluated("cond")
      BY <1>7 DEF FinishCondition
    <3>3. Settles
      BY <2>1, <2>2, <2>4, <3>1, <3>2 DEF Settles
    <3> QED
      BY <1>0, <2>1, <2>4, <3>3, ReturnPops DEF Succeeds, EvalPc
  <2> QED
    BY <1>7, <2>3, <2>4 DEF FinishCondition
<1>8. CASE ReadByte
  <2>1. /\ Top.pc = "read" /\ ReadAt(Top.node, start[Top.node], 1, ByteAt(start[Top.node]))
        /\ UNCHANGED edges
    BY <1>8 DEF ReadByte, At
  <2>2. start[Top.node] \in Int
    BY <1>0 DEF TypeOK
  <2>3. Fails \/ (Popped(Top.node, "resolved") /\ Reads(start[Top.node], 1))
    BY <1>0, <2>1, <2>2, ReadMoves
  <2> QED
    BY <2>1, <2>3 DEF Succeeds, Settles
<1>9. CASE ReadSized
  <2>1. /\ Top.pc = "size" /\ ReadAt(Top.node, start[Top.node], Result, Result)
        /\ UNCHANGED edges /\ Evaluated("size")
    BY <1>9 DEF ReadSized, Evaluated, At
  <2>2. start[Top.node] \in Int /\ Result \in Nat
    BY <1>0, <2>1, ResultType DEF TypeOK, Evaluated
  <2>3. Fails \/ (Popped(Top.node, "resolved") /\ Reads(start[Top.node], Result))
    BY <1>0, <2>1, <2>2, ReadMoves
  <2> QED
    BY <2>1, <2>3 DEF Succeeds, Settles, EvalPc
<1>10. CASE ComputeValue
  <2>1. /\ Top.pc = "value" /\ Return("resolved") /\ UNCHANGED start /\ UNCHANGED edges
        /\ Evaluated("value") /\ value' = [value EXCEPT ![Top.node] = Result]
    BY <1>10 DEF ComputeValue, Evaluated, At
  <2>2. Top.node \in Field /\ value'[Top.node] = Result
    BY <1>0, <2>1, FieldType DEF TypeOK
  <2>3. Settles
    BY <2>1, <2>2 DEF Settles
  <2> QED
    BY <1>0, <2>1, <2>3, ReturnPops DEF Succeeds, EvalPc
<1>11. CASE EnsureSibling
  <2>1. Top.pc = "siblings" /\ UNCHANGED <<start, end>>
    BY <1>11 DEF EnsureSibling, At
  <2>3. CASE \E k \in FirstUnread : Call(schema.seq[k], "sibling", k)
    <3>1. PICK k \in FirstUnread : Call(schema.seq[k], "sibling", k)
      BY <2>3
    <3>2. k \in Nat \ {0} /\ schema.seq[k] \in Node /\ state[schema.seq[k]] = "unresolved"
      BY SchemaType DEF FirstUnread, Node
    <3>3. Called(schema.seq[k], "sibling")
      BY <1>0, <3>1, <3>2, CallCalls
    <3> QED
      BY <2>1, <3>2, <3>3 DEF Ensures
  <2>4. CASE /\ FirstUnread = {} /\ Goto("pos") /\ UNCHANGED <<state, edited>>
             /\ pos' = IF schema.seq # <<>> /\ state[LastField] = "resolved" THEN end[LastField] ELSE pos
    BY <1>0, <2>1, <2>4, GotoAdvances DEF Seeks
  <2> QED
    BY <1>11, <2>3, <2>4 DEF EnsureSibling
<1>12. CASE AfterSibling
  <2>1. Top.pc = "sibling" /\ UNCHANGED start
    BY <1>12 DEF AfterSibling, At, stored
  <2>2. CASE Return("error")
    BY <1>0, <2>2, ReturnPops DEF Fails
  <2>3. CASE Goto("siblings") /\ UNCHANGED <<state, edited>>
    BY <1>0, <2>1, <2>3, GotoAdvances DEF GoesOn
  <2> QED
    BY <1>12, <2>2, <2>3 DEF AfterSibling
<1>13. CASE ReadInstance
  <2>0. Top.pc = "pos" /\ UNCHANGED edges
    BY <1>13 DEF ReadInstance, Evaluated, At
  <2>1. CASE Evaluated("pos") /\ ReadAt(Top.node, Result, 1, ByteAt(Result))
    <3>1. Result \in Nat
      BY <1>0, <2>0, <2>1, ResultType DEF Evaluated
    <3>2. Fails \/ (Popped(Top.node, "resolved") /\ Reads(Result, 1))
      BY <1>0, <2>0, <2>1, <3>1, ReadMoves
    <3> QED
      BY <2>0, <2>1, <3>2 DEF Succeeds, Settles, EvalPc
  <2>2. CASE AttrOf(Top.node).expr = NoExpr /\ ReadAt(Top.node, pos, 1, ByteAt(pos))
    <3>1. pos \in Int
      BY DEF TypeOK
    <3>2. Fails \/ (Popped(Top.node, "resolved") /\ Reads(pos, 1))
      BY <1>0, <2>0, <2>2, <3>1, ReadMoves
    <3> QED
      BY <2>0, <2>2, <3>2 DEF Succeeds, Settles, EvalPc
  <2> QED
    BY <1>13, <2>1, <2>2 DEF ReadInstance
<1> QED
  BY <1>1, <1>2, <1>3, <1>4, <1>5, <1>6, <1>7, <1>8, <1>9, <1>10, <1>11, <1>12, <1>13
     DEF Resolve

\* A frame of the stack after a step: it was there, or is where the running
\* activation goes on, or begins.
LEMMA FramesAfter ==
    ASSUME TypeOK, ~Idle, NEW k \in DOMAIN frames'
    PROVE  /\ \A pc : Advanced(pc) =>
                 \/ k \in 1 .. Len(frames) - 1 /\ k \in DOMAIN frames /\ frames'[k] = frames[k]
                 \/ k = Len(frames) /\ frames'[k].node = Top.node /\ frames'[k].pc = pc
           /\ \A m, pc : Called(m, pc) =>
                 \/ k \in 1 .. Len(frames) - 1 /\ k \in DOMAIN frames /\ frames'[k] = frames[k]
                 \/ k = Len(frames) /\ frames'[k].node = Top.node /\ frames'[k].pc = pc
                 \/ k = Len(frames) + 1 /\ frames'[k].node = m /\ frames'[k].pc = EntryPc(m)
           /\ \A m, o : Popped(m, o) =>
                 k \in 1 .. Len(frames) - 1 /\ k \in DOMAIN frames /\ frames'[k] = frames[k]
<1>1. PICK l \in Nat \ {0} : l = Len(frames) /\ DOMAIN frames = 1 .. l
  BY StackType
<1>2. ASSUME NEW pc, Advanced(pc)
      PROVE  \/ k \in 1 .. Len(frames) - 1 /\ k \in DOMAIN frames /\ frames'[k] = frames[k]
             \/ k = Len(frames) /\ frames'[k].node = Top.node /\ frames'[k].pc = pc
  BY <1>1, <1>2 DEF Advanced
<1>3. ASSUME NEW m, NEW pc, Called(m, pc)
      PROVE  \/ k \in 1 .. Len(frames) - 1 /\ k \in DOMAIN frames /\ frames'[k] = frames[k]
             \/ k = Len(frames) /\ frames'[k].node = Top.node /\ frames'[k].pc = pc
             \/ k = Len(frames) + 1 /\ frames'[k].node = m /\ frames'[k].pc = EntryPc(m)
  BY <1>1, <1>3 DEF Called
<1>4. ASSUME NEW m, NEW o, Popped(m, o)
      PROVE  k \in 1 .. Len(frames) - 1 /\ k \in DOMAIN frames /\ frames'[k] = frames[k]
  BY <1>1, <1>4 DEF Popped
<1> QED
  BY <1>2, <1>3, <1>4

\* A node that a step resolves is the running activation's.
LEMMA NewlyResolved ==
    ASSUME TypeOK, StackDiscipline, Answered, Resolve,
           NEW n \in Node, state[n] # "resolved", state'[n] = "resolved"
    PROVE  Succeeds /\ n = Top.node
<1>1. Top.node \in Node
  BY StepKeeps, TopState
<1>2. \A pc : ~Advanced(pc)
  BY DEF Advanced
<1>3. \A m, pc : ~Called(m, pc)
  BY DEF Called, TypeOK
<1>4. \A m : ~Popped(m, "error")
  BY <1>1 DEF Popped, TypeOK
<1>5. Succeeds
  BY <1>2, <1>3, <1>4, Movements DEF Enters, Asks, Begins, Refers, Ensures, Seeks, GoesOn, Fails
<1> QED
  BY <1>1, <1>5 DEF Succeeds, Popped, TypeOK

\* What depends on the schema alone does not change.
LEMMA SchemaKept ==
    ASSUME UNCHANGED schema
    PROVE  /\ \A n : AttrOf(n)' = AttrOf(n) /\ Before(n)' = Before(n) /\ BodyPc(n)' = BodyPc(n)
           /\ \A n : EntryPc(n)' = EntryPc(n) /\ Unplaced(n)' = Unplaced(n)
           /\ SeqFields' = SeqFields /\ LastField' = LastField /\ ReadsOf' = ReadsOf
BY DEF AttrOf, Before, SeqIndex, BodyPc, EntryPc, Unplaced, SeqFields, LastField, ReadsOf, Uses

\* Program points are for the kinds that KindFits names.
FitsKind(n, pc) ==
    /\ pc \in {"siblings", "sibling", "pos"} => AttrOf(n).kind = "at"
    /\ pc = "read" => AttrOf(n).kind = "u1"
    /\ pc = "size" => AttrOf(n).kind = "bytes"
    /\ pc = "value" => AttrOf(n).kind = "value"

LEMMA KindKept ==
    ASSUME TypeOK, StackDiscipline, KindFits, Answered, Resolve
    PROVE  KindFits'
<1>1. ~Idle /\ UNCHANGED schema
  BY StepKeeps
<1>2. \A k \in DOMAIN frames : FitsKind(frames[k].node, frames[k].pc)
  BY DEF KindFits, FitsKind
<1>3. FitsKind(Top.node, Top.pc)
  BY <1>1, <1>2, TopType DEF Top
<1> SUFFICES ASSUME NEW k \in DOMAIN frames'
             PROVE  FitsKind(frames'[k].node, frames'[k].pc)
  BY <1>1, SchemaKept DEF KindFits, FitsKind
<1>4. \A n : FitsKind(n, "cond") /\ FitsKind(n, "predecessor") /\ FitsKind(n, EntryPc(n))
  BY DEF FitsKind, EntryPc
<1>5. CASE \E pc : Advanced(pc) /\ FitsKind(Top.node, pc)
  BY <1>1, <1>2, <1>5, FramesAfter
<1>6. CASE \E m, pc : Called(m, pc) /\ FitsKind(Top.node, pc)
  BY <1>1, <1>2, <1>4, <1>6, FramesAfter
<1>7. CASE \E m, o : Popped(m, o)
  BY <1>1, <1>2, <1>7, FramesAfter
<1>8. CASE Enters
  BY <1>4, <1>5, <1>8 DEF Enters
<1>9. CASE Asks
  BY <1>4, <1>6, <1>9 DEF Asks
<1>10. CASE Begins
  <2>1. Top.node \in Field /\ AttrOf(Top.node).kind \in {"u1", "bytes", "value", "at"}
    BY <1>1, <1>10, FieldType, SchemaType DEF Begins, Attr
  <2>2. FitsKind(Top.node, BodyPc(Top.node))
    BY <2>1 DEF FitsKind, BodyPc
  <2> QED
    BY <1>5, <1>10, <2>2 DEF Begins
<1>11. CASE Refers
  BY <1>3, <1>5, <1>6, <1>11 DEF Refers
<1>12. CASE Ensures
  <2>1. FitsKind(Top.node, "sibling")
    BY <1>3, <1>12 DEF Ensures, FitsKind
  <2> QED
    BY <1>6, <1>12, <2>1 DEF Ensures
<1>13. CASE Seeks
  <2>1. FitsKind(Top.node, "pos")
    BY <1>3, <1>13 DEF Seeks, FitsKind
  <2> QED
    BY <1>5, <1>13, <2>1 DEF Seeks
<1>14. CASE GoesOn
  <2>1. FitsKind(Top.node, "siblings")
    BY <1>3, <1>14 DEF GoesOn, FitsKind
  <2> QED
    BY <1>5, <1>14, <2>1 DEF GoesOn
<1>15. CASE Fails \/ Succeeds
  BY <1>7, <1>15 DEF Fails, Succeeds
<1> QED
  BY <1>8, <1>9, <1>10, <1>11, <1>12, <1>13, <1>14, <1>15, Movements

\* What comes to the top of the stack when an activation returns waits for it.
LEMMA PoppedTop ==
    ASSUME TypeOK, StackDiscipline, ~Idle, NEW m \in Node, NEW o \in {"resolved", "error"}, Popped(m, o), ~Idle'
    PROVE  Waits(Top', Top.node) /\ state'[Top.node] = o /\ Top' \in Frame
<1> PICK l \in Nat \ {0} : /\ l = Len(frames)
                          /\ DOMAIN frames = 1 .. l
                          /\ Top = frames[l]
                          /\ \A k \in 1 .. l : frames[k] \in Frame /\ frames[k].node \in Node
  BY StackType
<1>1. Len(frames') = l - 1 /\ frames' \in Seq(Frame) /\ frames' # <<>>
  BY DEF Popped, Idle
<1>2. l - 1 \in 1 .. l - 1 /\ l - 1 \in 1 .. l /\ l - 1 + 1 = l
  BY <1>1
<1>3. Top' = frames[l - 1]
  BY <1>1, <1>2 DEF Popped, Top
<1>4. Waits(frames[l - 1], Top.node)
  BY <1>2 DEF StackDiscipline, CallChain
<1>5. state'[Top.node] = o
  BY TopState DEF Popped, TypeOK
<1> QED
  BY <1>2, <1>3, <1>4, <1>5

\* Only the return of the predecessor leads back to an activation that asked.
LEMMA AnsweredKept ==
    ASSUME TypeOK, StackDiscipline, Answered, Resolve
    PROVE  Answered'
<1>1. ~Idle /\ UNCHANGED schema /\ Top.node \in Node /\ Len(frames) \in Nat \ {0}
  BY StepKeeps, TopState, TopType
<1> SUFFICES ASSUME ~Idle', Top'.pc = "predecessor"
             PROVE  Settled(Before(Top.node))'
  BY DEF Answered
<1>2. \A pc : Advanced(pc) => Top'.pc = pc
  BY <1>1 DEF Advanced, Top
<1>3. \A m, pc : Called(m, pc) => Top'.pc # "predecessor"
  BY <1>1 DEF Called, Top, EntryPc
<1>4. CASE \E m \in Node, o \in {"resolved", "error"} : Popped(m, o)
  <2>1. PICK m \in Node, o \in {"resolved", "error"} : Popped(m, o)
    BY <1>4
  <2>2. Waits(Top', Top.node) /\ state'[Top.node] = o
    BY <1>1, <2>1, PoppedTop
  <2>3. Before(Top'.node) = Top.node
    BY <2>2 DEF Waits, EvalPc
  <2>4. Before(Top.node)' = Before(Top'.node)
    BY <1>1 DEF Before, SeqIndex
  <2> QED
    BY <2>1, <2>2, <2>3, <2>4 DEF Settled
<1>5. Fails \/ Succeeds => \E m \in Node, o \in {"resolved", "error"} : Popped(m, o)
  BY <1>1 DEF Fails, Succeeds
<1>6. BodyPc(Top.node) # "predecessor" \/ Top.pc # "cond"
  <2>1. Top.pc = "cond" => Top.node \in Field
    BY <1>1, FieldType
  <2> QED
    BY <2>1, BodyPcType
<1>7. HasNextRef => Top.pc # "predecessor"
  BY DEF HasNextRef, Evaluating, EvalPc
<1>8. Enters \/ Begins \/ Seeks \/ GoesOn => FALSE
  BY <1>2, <1>6 DEF Enters, Begins, Seeks, GoesOn
<1>9. Asks \/ Ensures \/ Refers => FALSE
  BY <1>2, <1>3, <1>7 DEF Asks, Ensures, Refers
<1> QED
  BY <1>4, <1>5, <1>8, <1>9, Movements

\* Where a frame is after a step, it was, or began there.
LEMMA InSequenceKept ==
    ASSUME TypeOK, StackDiscipline, KindFits, Answered, InSequence, Resolve
    PROVE  InSequence'
<1>1. /\ ~Idle /\ UNCHANGED schema /\ Top.node \in Node /\ SeqFields \subseteq Field
      /\ Len(frames) \in DOMAIN frames
  BY StepKeeps, TopState, TopType, SchemaType
<1> SUFFICES ASSUME NEW n \in SeqFields, Placed(n)'
             PROVE  Adjoins(n)'
  BY <1>1 DEF InSequence, SeqFields
<1>2. n \in Field /\ n \in Node /\ n # Root /\ Root \in Node /\ Before(n) \in Node
  BY <1>1, BeforeType, RootAssumption DEF Node
<1>3. Top = frames[Len(frames)]
  BY DEF Top
<1>4. Before(n)' = Before(n)
  BY <1>1, SchemaKept
<1>5. Settled(Before(n)) => /\ Settled(Before(n))' /\ state'[Before(n)] = state[Before(n)]
                            /\ state[Before(n)] = "resolved" => BeforeEnd(n)' = BeforeEnd(n)
  <2>1. Settled(Before(n)) => state'[Before(n)] = state[Before(n)]
    BY <1>2, StepKeeps
  <2>2. state[Before(n)] = "resolved" =>
            start'[Before(n)] = start[Before(n)] /\ end'[Before(n)] = end[Before(n)]
    BY <1>2, StepKeeps
  <2>3. SeqIndex(n)' = SeqIndex(n)
    BY <1>1 DEF SeqIndex
  <2> QED
    BY <1>4, <2>1, <2>2, <2>3 DEF Settled, BeforeEnd, Before
\* A field that has taken its start keeps it.
<1>6. ASSUME Placed(n), start'[n] = start[n]
      PROVE  Adjoins(n)'
  <2>1. Adjoins(n)
    BY <1>6 DEF InSequence
  <2> QED
    BY <1>4, <1>5, <1>6, <2>1 DEF Adjoins
<1>7. n # Top.node => start'[n] = start[n]
  BY <1>2, StepKeeps
<1>8. n = Top.node /\ Top.pc \notin {"position", "predecessor"} => Placed(n)
  BY <1>1, <1>3 DEF Placed
\* What is newly resolved or newly on the stack.
<1>9. ASSUME NEW pc, Advanced(pc), ~Placed(n)
      PROVE  n = Top.node
  BY <1>1, <1>9, FramesAfter DEF Placed, Advanced
<1>10. ASSUME NEW m \in Node, NEW pc, Called(m, pc), pc = "predecessor" \/ Top.pc = pc \/ Top.pc = "siblings"
       PROVE  Placed(n)
  <2>1. CASE state'[n] = "resolved"
    <3>1. state[n] = "resolved"
      BY <1>2, <1>10, <2>1 DEF Called, TypeOK
    <3> QED
      BY <3>1 DEF Placed
  <2>2. CASE state'[n] # "resolved"
    <3>1. PICK k \in DOMAIN frames' : frames'[k].node = n /\ frames'[k].pc \notin {"position", "predecessor"}
      BY <2>2 DEF Placed
    <3>2. EntryPc(n) = "position"
      BY <1>2 DEF EntryPc
    <3>3. \/ k \in DOMAIN frames /\ frames'[k] = frames[k]
          \/ k = Len(frames) /\ frames'[k].node = Top.node /\ frames'[k].pc = pc
      BY <1>1, <1>10, <3>1, <3>2, FramesAfter
    <3>4. CASE k \in DOMAIN frames /\ frames'[k] = frames[k]
      BY <3>1, <3>4 DEF Placed
    <3>5. CASE k = Len(frames) /\ frames'[k].node = Top.node /\ frames'[k].pc = pc
      BY <1>8, <1>10, <3>1, <3>5
    <3> QED
      BY <3>3, <3>4, <3>5
  <2> QED
    BY <2>1, <2>2
<1>11. ASSUME NEW m \in Node, NEW o, Popped(m, o), ~Placed(n), o = "error" \/ m = Top.node
       PROVE  n = Top.node /\ o = "resolved"
  <2>1. \A k \in DOMAIN frames' : k \in DOMAIN frames /\ frames'[k] = frames[k]
    BY <1>1, <1>11, FramesAfter
  <2>2. state'[n] = "resolved" /\ state[n] # "resolved"
    BY <1>11, <2>1 DEF Placed
  <2> QED
    BY <1>1, <1>2, <1>11, <2>2 DEF Popped, TypeOK
<1>12. ASSUME Enters
       PROVE  Adjoins(n)'
  <2>1. CASE Placed(n) /\ n # Top.node
    BY <1>6, <1>7, <2>1
  <2>2. CASE n = Top.node
    <3>1. Settled(Before(n)) /\ start'[n] = BeforeEnd(n)
      BY <1>12, <2>2 DEF Enters
    <3> QED
      BY <1>4, <1>5, <3>1 DEF Adjoins
  <2>3. Advanced("cond")
    BY <1>12 DEF Enters
  <2> QED
    BY <1>9, <2>1, <2>2, <2>3
<1>13. ASSUME Begins \/ Seeks \/ GoesOn \/ Refers \/ Asks \/ Ensures
       PROVE  Adjoins(n)'
  <2>1. start'[n] = start[n]
    BY <1>13 DEF Begins, Seeks, GoesOn, Refers, Asks, Ensures
  <2>2. HasNextRef => Top.pc \in EvalPc /\ NextRef.node \in Node
    <3>1. HasNextRef => Top.pc \in EvalPc /\ Top.pc # "root"
      BY DEF HasNextRef, Evaluating, EvalPc
    <3> QED
      BY <1>1, <3>1, FieldType, NextRefType
  <2>3. CASE Begins \/ Seeks \/ GoesOn \/ (HasNextRef /\ Advanced(Top.pc))
    <3>1. \E pc : Advanced(pc)
      BY <2>3 DEF Begins, Seeks, GoesOn
    <3>2. Top.pc \notin {"position", "predecessor"}
      BY <2>2, <2>3 DEF Begins, Seeks, GoesOn, EvalPc
    <3> QED
      BY <1>6, <1>8, <1>9, <2>1, <3>1, <3>2
  <2>4. CASE Asks
    <3>1. Top.node \in SeqFields
      BY <1>1, <2>4, TopType DEF Asks, Fits
    <3>2. Before(Top.node) \in Node
      BY <3>1, BeforeType
    <3> QED
      BY <1>6, <1>10, <2>1, <2>4, <3>2 DEF Asks
  <2>5. CASE Ensures
    BY <1>6, <1>10, <2>1, <2>5 DEF Ensures
  <2>6. CASE HasNextRef /\ Called(NextRef.node, Top.pc)
    BY <1>6, <1>10, <2>1, <2>2, <2>6
  <2> QED
    BY <1>13, <2>3, <2>4, <2>5, <2>6 DEF Refers
<1>14. ASSUME Fails
       PROVE  Adjoins(n)'
  <2>1. Placed(n)
    BY <1>11, <1>14 DEF Fails
  <2>2. CASE n # Top.node
    BY <1>6, <1>7, <2>1, <2>2
  <2>3. CASE n = Top.node
    <3>1. PICK m \in Node : Popped(m, "error")
      BY <1>14 DEF Fails
    <3>2. state'[n] = "error"
      BY <1>1, <2>3, <3>1 DEF Popped, TypeOK
    <3>3. PICK k \in DOMAIN frames' : frames'[k].node = n
      BY <3>2 DEF Placed
    <3>4. k \in 1 .. Len(frames) - 1 /\ k \in DOMAIN frames /\ frames'[k] = frames[k]
      BY <1>1, <3>1, FramesAfter
    <3>5. k = Len(frames)
      BY <1>1, <1>3, <2>3, <3>3, <3>4 DEF StackDiscipline, Distinct
    <3>6. Len(frames) \in Nat
      BY <1>1, TopType
    <3> QED
      BY <3>4, <3>5, <3>6
  <2> QED
    BY <2>2, <2>3
<1>15. ASSUME Succeeds
       PROVE  Adjoins(n)'
  <2>1. Popped(Top.node, "resolved")
    BY <1>15 DEF Succeeds
  <2>2. CASE n # Top.node
    <3>1. Placed(n)
      BY <1>1, <1>11, <2>1, <2>2
    <3> QED
      BY <1>6, <1>7, <2>2, <3>1
  <2>3. CASE n = Top.node
    <3>1. Top.pc # "root"
      BY <1>1, <1>2, <2>3, TopType DEF Fits
    <3>2. AttrOf(n).kind \in {"u1", "bytes"}
      BY <1>2, SchemasAssumption DEF TypeOK, Schema, SeqFields, AttrOf
    <3>3. Top.pc # "pos"
      BY <1>1, <1>3, <2>3, <3>2 DEF KindFits
    <3>4. Top.pc \in {"cond", "size", "value", "read"}
      BY <1>15, <3>1, <3>3 DEF Succeeds, EvalPc
    <3>5. start'[n] = start[n]
      BY <1>1, <1>15, <2>3, <3>4 DEF Succeeds, Settles, Reads
    <3> QED
      BY <1>6, <1>8, <2>3, <3>4, <3>5
  <2> QED
    BY <2>2, <2>3
<1> QED
  BY <1>12, <1>13, <1>14, <1>15, Movements

\* When no field is the first one unread, none is unread.
LEMMA AllRead ==
    ASSUME TypeOK, FirstUnread = {}
    PROVE  \A k \in DOMAIN schema.seq : state[schema.seq[k]] # "unresolved"
<1> DEFINE U == {k \in DOMAIN schema.seq : state[schema.seq[k]] = "unresolved"}
<1>1. DOMAIN schema.seq \subseteq Nat /\ \A k \in DOMAIN schema.seq : \A j \in 1 .. k - 1 : j \in DOMAIN schema.seq /\ j < k
  BY SchemaType
<1> SUFFICES ASSUME U # {}
             PROVE  FALSE
  OBVIOUS
<1>2. U \subseteq Nat
  BY <1>1
<1>3. PICK x \in U : \A y \in U : ~ (<<y, x>> \in OpToRel(<, Nat))
  BY <1>2, NatLessThanWellFounded, WFMin
<1>4. \A y \in U : ~(y < x)
  BY <1>2, <1>3 DEF OpToRel
<1>5. x \in FirstUnread
  BY <1>1, <1>4 DEF FirstUnread
<1> QED
  BY <1>5

\* What an activation waits for is among what its node reads, so that a chain
\* of activations is a path in the graph of reads.
LEMMA WaitsRead ==
    ASSUME TypeOK, KindFits, NEW k \in DOMAIN frames, NEW m \in Field, Waits(frames[k], m)
    PROVE  frames[k].node \in Field /\ m \in ReadsOf[frames[k].node]
<1>1. PICK f : f = frames[k]
  OBVIOUS
<1>2. f \in Frame /\ Fits(f) /\ m # Root
  BY <1>1, RootAssumption DEF TypeOK
<1>3. f.pc # "root"
  BY <1>1 DEF Waits, EvalPc
<1>4. f.node \in Field
  BY <1>2, <1>3 DEF Fits, Frame, Node
<1>5. ReadsOf[f.node] = Uses(f.node) \cup (IF AttrOf(f.node).kind = "at" THEN SeqFields ELSE {})
  BY <1>4 DEF ReadsOf
<1>6. CASE f.pc = "predecessor" /\ Before(f.node) = m
  BY <1>1, <1>2, <1>4, <1>5, <1>6 DEF Fits, Uses
<1>7. CASE f.pc = "sibling" /\ schema.seq[f.next] = m
  <2>1. AttrOf(f.node).kind = "at" /\ m \in SeqFields
    BY <1>1, <1>2, <1>7 DEF Fits, KindFits, SeqFields
  <2> QED
    BY <1>1, <1>4, <1>5, <2>1
<1>8. CASE /\ f.pc \in EvalPc
           /\ \E r \in {ExprAt(f.node, f.pc).refs[i] : i \in {f.next} \cap DOMAIN ExprAt(f.node, f.pc).refs} : r.node = m
  <2>1. PICK r \in RefsOf(ExprAt(f.node, f.pc)) : r.node = m
    BY <1>8 DEF RefsOf
  <2>2. r \in RefsOf(AttrOf(f.node).cond) \cup RefsOf(AttrOf(f.node).expr)
    BY <2>1 DEF ExprAt
  <2>3. m \in Uses(f.node)
    BY <2>1, <2>2 DEF Uses
  <2> QED
    BY <1>1, <1>4, <1>5, <2>3
<1> QED
  BY <1>1, <1>6, <1>7, <1>8 DEF Waits

\* What the running activation's node reads is not being resolved below it,
\* unless reads are cyclic.
LEMMA NoneBelow ==
    ASSUME TypeOK, StackDiscipline, KindFits, ~Idle, Acyclic(ReadsOf),
           Top.node \in Field, NEW last \in Field, last \in ReadsOf[Top.node]
    PROVE  state[last] # "resolving"
<1> SUFFICES ASSUME state[last] = "resolving"
             PROVE  FALSE
  OBVIOUS
<1> PICK l \in Nat \ {0} : /\ l = Len(frames)
                          /\ DOMAIN frames = 1 .. l
                          /\ Top = frames[l]
                          /\ \A k \in 1 .. l : frames[k] \in Frame /\ frames[k].node \in Node
  BY StackType
<1>1. last \in Field /\ last \in Node
  BY DEF Node
<1>2. PICK j \in 1 .. l : frames[j].node = last
  BY <1>1 DEF StackDiscipline, Sentinel
<1> DEFINE S == {frames[k].node : k \in j .. l}
<1>3. Top.node \in Field /\ last \in ReadsOf[Top.node]
  OBVIOUS
<1>4. ASSUME NEW k \in j .. l - 1
      PROVE  frames[k].node \in Field /\ \E i \in j .. l : frames[i].node \in ReadsOf[frames[k].node]
  <2>1. k \in 1 .. l - 1 /\ k + 1 \in j .. l /\ k \in 1 .. l /\ k + 1 \in 1 .. l
    BY <1>2
  <2>2. Waits(frames[k], frames[k + 1].node)
    BY <2>1 DEF StackDiscipline, CallChain
  <2>3. frames[k + 1].node \in Field
    <3>1. CASE k + 1 = l
      BY <1>3, <3>1
    <3>2. CASE k + 1 # l
      <4>1. k + 1 \in 1 .. l - 1 /\ k + 1 + 1 \in 1 .. l
        BY <2>1, <3>2
      <4>2. Waits(frames[k + 1], frames[k + 1 + 1].node)
        BY <4>1 DEF StackDiscipline, CallChain
      <4>3. frames[k + 1].pc # "root"
        BY <4>2 DEF Waits, EvalPc
      <4>4. Fits(frames[k + 1]) /\ frames[k + 1].node \in Node
        BY <2>1 DEF TypeOK
      <4> QED
        BY <4>3, <4>4 DEF Fits, Node
    <3> QED
      BY <3>1, <3>2
  <2> QED
    BY <2>1, <2>2, <2>3, WaitsRead
<1>5. S \in (SUBSET Field) \ {{}}
  <2>1. \A k \in j .. l : frames[k].node \in Field
    <3>1. \A k \in j .. l : k = l \/ k \in j .. l - 1
      OBVIOUS
    <3> QED
      BY <1>3, <1>4, <3>1
  <2>2. l \in j .. l
    BY <1>2
  <2>3. S \subseteq Field
    BY <2>1
  <2>4. frames[l].node \in S
    BY <2>2
  <2> HIDE DEF S
  <2> QED
    BY <2>3, <2>4
<1>6. ASSUME NEW n \in S
      PROVE  ReadsOf[n] \cap S # {}
  <2>1. PICK k \in j .. l : n = frames[k].node
    BY <1>6
  <2>2. CASE k = l
    <3>1. last \in S
      BY <1>2
    <3> QED
      BY <1>3, <2>1, <2>2, <3>1
  <2>3. CASE k # l
    BY <1>4, <2>1, <2>3
  <2> QED
    BY <2>2, <2>3
<1> HIDE DEF S
<1> QED
  BY <1>5, <1>6 DEF Acyclic

\* What is at the end of the fields stays there.
LEMMA EndKept ==
    ASSUME TypeOK, StackDiscipline, Resolve, LastField \in SeqFields, NEW p, NEW q, AtTheEnd(p), q = p
    PROVE  /\ Settled(LastField)'
           /\ state'[LastField] = "resolved" => q = end'[LastField]
<1>1. LastField \in Node
  BY SchemaType DEF Node
<1> QED
  BY <1>1, StepKeeps DEF AtTheEnd, Settled, LastField

\* The stream is sought to the end of the fields, and the read that follows
\* starts there.
LEMMA AfterFieldsKept ==
    ASSUME TypeOK, StackDiscipline, KindFits, Answered, AfterFields, Resolve
    PROVE  AfterFields'
<1>1. /\ ~Idle /\ UNCHANGED schema /\ Top.node \in Node /\ SeqFields \subseteq Field
      /\ Len(frames) \in DOMAIN frames /\ Len(frames) \in Nat \ {0} /\ Top = frames[Len(frames)]
  BY StepKeeps, TopState, TopType, SchemaType DEF Top
<1>2. LastField' = LastField /\ ReadsOf' = ReadsOf /\ \A n : Unplaced(n)' = Unplaced(n)
  BY <1>1, SchemaKept
<1> SUFFICES ASSUME schema.seq # <<>>, Acyclic(ReadsOf)
             PROVE  /\ \A n \in Field : (Unplaced(n) /\ state[n] = "resolved" /\ value[n] # Null => AtTheEnd(start[n]))'
                    /\ (~Idle /\ Top.pc = "pos" /\ Unplaced(Top.node) => AtTheEnd(pos))'
  BY <1>1, <1>2 DEF AfterFields, Acyclic
<1>3. LastField \in SeqFields
  <2>1. schema.seq \in Seq(Field)
    BY SchemaType
  <2>2. Len(schema.seq) \in DOMAIN schema.seq
    BY <2>1
  <2> QED
    BY <2>2 DEF LastField, SeqFields
<1>4. ASSUME NEW p, AtTheEnd(p)
      PROVE  Settled(LastField)' /\ (state'[LastField] = "resolved" => p = end'[LastField])
  BY <1>3, <1>4, EndKept
\* An activation that is about to read where the stream is.
<1>5. ASSUME Top.pc = "pos", Unplaced(Top.node)
      PROVE  AtTheEnd(pos)
  BY <1>1, <1>5 DEF AfterFields
<1>6. ASSUME NEW n \in Field, Unplaced(n), state'[n] = "resolved", value'[n] # Null
      PROVE  AtTheEnd(start[n])'
  <2>1. n \in Node
    BY DEF Node
  <2>2. CASE state[n] = "resolved"
    <3>1. start'[n] = start[n] /\ value'[n] = value[n]
      BY <2>1, <2>2, StepKeeps
    <3>2. AtTheEnd(start[n])
      BY <1>6, <2>2, <3>1 DEF AfterFields
    <3> QED
      BY <1>2, <1>4, <3>1, <3>2 DEF AtTheEnd
  <2>3. CASE state[n] # "resolved"
    <3>1. Succeeds /\ n = Top.node
      BY <1>6, <2>1, <2>3, NewlyResolved
    <3>2. Top.pc = "pos"
      <4>1. AttrOf(n).kind = "at" /\ n # Root
        BY <1>6, RootAssumption DEF Unplaced
      <4>2. Top.pc \notin {"size", "value", "read"}
        BY <1>1, <3>1, <4>1 DEF KindFits
      <4>3. Top.pc # "root"
        BY <1>1, <3>1, <4>1, TopType DEF Fits
      <4>4. Top.pc # "cond"
        BY <1>6, <3>1 DEF Succeeds, Settles
      <4> QED
        BY <3>1, <4>2, <4>3, <4>4 DEF Succeeds, EvalPc
    <3>3. start'[n] = pos
      <4>1. ~Evaluated("pos")
        BY <1>6, <3>1, <3>2 DEF Unplaced, Evaluated, Evaluating, ExprAt
      <4> QED
        BY <3>1, <3>2, <4>1 DEF Succeeds, Settles, Reads
    <3>4. AtTheEnd(pos)
      BY <1>5, <1>6, <3>1, <3>2
    <3> QED
      BY <1>2, <1>4, <3>3, <3>4 DEF AtTheEnd
  <2> QED
    BY <2>2, <2>3
<1>7. ASSUME ~Idle', Top'.pc = "pos", Unplaced(Top.node)'
      PROVE  AtTheEnd(pos)'
  <2>1. \A pc : Advanced(pc) => Top'.pc = pc /\ Top'.node = Top.node
    BY <1>1 DEF Advanced, Top
  <2>2. \A m, pc : Called(m, pc) => FALSE
    BY <1>1, <1>7 DEF Called, Top, EntryPc
  <2>3. \A m \in Node, o \in {"resolved", "error"} : Popped(m, o) => FALSE
    <3> SUFFICES ASSUME NEW m \in Node, NEW o \in {"resolved", "error"}, Popped(m, o)
                 PROVE  FALSE
      OBVIOUS
    <3>1. PICK t : t = Top'
      OBVIOUS
    <3>2. Waits(t, Top.node) /\ t.pc = "pos"
      BY <1>1, <1>7, <3>1, PoppedTop
    <3>3. Unplaced(t.node)
      BY <1>2, <1>7, <3>1 DEF Unplaced, AttrOf
    <3>4. ExprAt(t.node, t.pc) = NoExpr
      BY <3>2, <3>3 DEF ExprAt, Unplaced
    <3>5. DOMAIN ExprAt(t.node, t.pc).refs = {}
      BY <3>4 DEF NoExpr
    <3> QED
      BY <3>2, <3>5 DEF Waits
  <2>4. ~Fails /\ ~Succeeds /\ ~Asks /\ ~Ensures
    BY <1>1, <2>2, <2>3 DEF Fails, Succeeds, Asks, Ensures
  <2>5. ~Enters /\ ~GoesOn
    BY <1>7, <2>1 DEF Enters, GoesOn
  <2>6. ~Begins
    <3>1. Top.pc = "cond" => Top.node \in Field
      BY <1>1, FieldType
    <3> QED
      BY <1>7, <2>1, <3>1, BodyPcType DEF Begins
  <2>7. ~Refers
    <3> SUFFICES ASSUME HasNextRef, Advanced(Top.pc)
                 PROVE  FALSE
      BY <2>2 DEF Refers
    <3>1. Top.pc = "pos" /\ Unplaced(Top.node)
      BY <1>1, <1>7, <2>1 DEF Unplaced, AttrOf
    <3> QED
      BY <3>1 DEF HasNextRef, Evaluating, ExprAt, Unplaced
  <2>8. Seeks
    BY <2>4, <2>5, <2>6, <2>7, Movements
  <2>9. Settled(LastField)
    <3>1. state[LastField] # "unresolved"
      BY <2>8, <1>3, AllRead DEF Seeks, SeqFields
    <3>2. state[LastField] # "resolving"
      <4>1. Top.node \in Field /\ LastField \in Field
        BY <1>1, <1>3, <2>8, FieldType DEF Seeks
      <4>2. AttrOf(Top.node).kind = "at"
        BY <1>1, <2>8 DEF Seeks, KindFits
      <4>3. LastField \in ReadsOf[Top.node]
        BY <1>3, <4>1, <4>2 DEF ReadsOf
      <4> QED
        BY <1>1, <4>1, <4>3, NoneBelow
    <3>3. state[LastField] \in NodeState
      BY <1>1, <1>3 DEF TypeOK, Node
    <3> QED
      BY <3>1, <3>2, <3>3 DEF NodeState, Settled
  <2>10. state' = state /\ end' = end
    BY <2>8 DEF Seeks, Advanced
  <2> QED
    BY <1>2, <2>8, <2>9, <2>10 DEF AtTheEnd, Settled, Seeks
<1> QED
  BY <1>2, <1>6, <1>7

\* Nothing resolved and nobody running: nothing to hold.
LEMMA LayoutFresh ==
    ASSUME SeqFields \subseteq Field, Idle, \A n \in Node : state[n] = "unresolved"
    PROVE  LayoutInv
<1>1. DOMAIN frames = {}
  BY DEF Idle
<1>2. \A n \in Field : state[n] # "resolved" /\ n \in Node
  BY DEF Node
<1>3. InSequence
  BY <1>1, <1>2 DEF InSequence, Placed
<1> QED
  BY <1>1, <1>2, <1>3 DEF LayoutInv, KindFits, Answered, AfterFields

\* A new access starts with one activation, which is at its first point.
LEMMA LayoutAccess ==
    ASSUME TypeOK, LayoutInv, NEW n \in Node, Access(n)
    PROVE  LayoutInv'
<1>1. /\ UNCHANGED <<schema, start, end, value, pos>> /\ frames' = <<Activation(n)>> /\ Idle
      /\ state' = [state EXCEPT ![n] = "resolving"] /\ state[n] = "unresolved"
  BY DEF Access, stored
<1>2. Activation(n).node = n /\ Activation(n).pc = EntryPc(n)
  BY DEF Activation, FrameOf
<1>3. DOMAIN frames' = {1} /\ frames'[1] = Activation(n) /\ Top' = Activation(n) /\ DOMAIN frames = {}
  BY <1>1 DEF Top, Idle
<1>4. EntryPc(n) \in {"root", "position", "cond"} /\ (n \in SeqFields => EntryPc(n) = "position")
  BY SchemaType, RootAssumption DEF EntryPc
<1>5. \A m \in Node : (state'[m] = "resolved" => state[m] = "resolved") /\ (Settled(m) => state'[m] = state[m])
  BY <1>1 DEF TypeOK, Settled
<1>6. KindFits'
  BY <1>2, <1>3, <1>4 DEF KindFits
<1>7. Answered'
  BY <1>2, <1>3, <1>4 DEF Answered
<1>8. InSequence'
  <2> SUFFICES ASSUME NEW m \in SeqFields, Placed(m)'
               PROVE  Adjoins(m)'
    BY <1>1 DEF InSequence, SeqFields
  <2>1. m \in Node /\ Before(m) \in Node
    BY SchemaType, BeforeType DEF Node
  <2>2. state'[m] = "resolved"
    BY <1>2, <1>3, <1>4 DEF Placed
  <2>3. Adjoins(m)
    BY <1>5, <2>1, <2>2 DEF LayoutInv, InSequence, Placed
  <2>4. Before(m)' = Before(m) /\ BeforeEnd(m)' = BeforeEnd(m) /\ start'[m] = start[m]
    BY <1>1 DEF BeforeEnd, Before, SeqIndex
  <2>5. Settled(Before(m)) /\ state'[Before(m)] = state[Before(m)]
    BY <1>5, <2>1, <2>3 DEF Adjoins
  <2> QED
    BY <2>3, <2>4, <2>5 DEF Adjoins, Settled
<1>9. AfterFields'
  <2>1. LastField' = LastField /\ ReadsOf' = ReadsOf /\ \A m : Unplaced(m)' = Unplaced(m)
    BY <1>1, SchemaKept
  <2> SUFFICES ASSUME schema.seq # <<>>, Acyclic(ReadsOf), NEW m \in Field, Unplaced(m),
                      state'[m] = "resolved", value'[m] # Null
               PROVE  AtTheEnd(start[m])'
    BY <1>1, <1>2, <1>3, <1>4, <2>1 DEF AfterFields, Acyclic
  <2>2. state[m] = "resolved" /\ value[m] # Null /\ start'[m] = start[m]
    BY <1>1, <1>5 DEF Node
  <2>3. AtTheEnd(start[m])
    BY <2>2 DEF LayoutInv, AfterFields
  <2>4. LastField \in Node
    <3>1. schema.seq \in Seq(Field)
      BY SchemaType
    <3>2. Len(schema.seq) \in DOMAIN schema.seq
      BY <3>1
    <3> QED
      BY <3>1, <3>2 DEF LastField, Node
  <2>5. state'[LastField] = state[LastField]
    BY <1>5, <2>3, <2>4 DEF AtTheEnd
  <2> QED
    BY <1>1, <2>1, <2>2, <2>3, <2>5 DEF AtTheEnd, Settled
<1> QED
  BY <1>6, <1>7, <1>8, <1>9 DEF LayoutInv

\* Every step, when nothing is edited, keeps the four parts together.
LEMMA LayoutKept ==
    ASSUME Dirtiable = {}, Invalidatable \subseteq {Root},
           TypeOK, StackDiscipline, LayoutInv, [Next]_vars
    PROVE  LayoutInv'
<1>1. CASE Resolve
  BY <1>1, KindKept, AnsweredKept, InSequenceKept, AfterFieldsKept DEF LayoutInv
<1>2. CASE \E n \in Node : Access(n)
  BY <1>2, LayoutAccess
<1>3. CASE \E n \in Invalidatable : Invalidate(n)
  <2>1. Invalidate(Root)
    BY <1>3
  <2>2. /\ Idle' /\ UNCHANGED schema /\ \A m \in Node : state'[m] = "unresolved"
    BY <2>1 DEF Invalidate, Idle, Cleared
  <2>3. SeqFields' \subseteq Field
    BY <2>2, SchemaType DEF SeqFields
  <2>4. DOMAIN frames' = {} /\ \A m \in Field : state'[m] # "resolved"
    BY <2>2 DEF Idle, Node
  <2>5. InSequence'
    BY <2>3, <2>4 DEF InSequence, Placed
  <2> QED
    BY <2>2, <2>4, <2>5 DEF LayoutInv, KindFits, Answered, AfterFields
<1>4. CASE UNCHANGED vars
  <2>1. /\ UNCHANGED <<schema, state, value, start, end, pos, frames>>
        /\ (Top' = Top) /\ (Idle' <=> Idle)
    BY <1>4 DEF vars, Top, Idle
  <2>2. KindFits' /\ Answered'
    BY <2>1, SchemaKept DEF LayoutInv, KindFits, Answered, Settled
  <2>3. \A n : Placed(n)' <=> Placed(n)
    BY <2>1 DEF Placed
  <2>4. \A n : Adjoins(n)' <=> Adjoins(n)
    BY <2>1 DEF Adjoins, Settled, BeforeEnd, Before, SeqIndex
  <2>5. InSequence'
    BY <2>1, <2>3, <2>4, SchemaKept DEF LayoutInv, InSequence
  <2>6. AfterFields'
    BY <2>1, SchemaKept DEF LayoutInv, AfterFields, AtTheEnd, Settled, Acyclic
  <2> QED
    BY <2>2, <2>5, <2>6 DEF LayoutInv
<1> QED
  BY <1>1, <1>2, <1>3, <1>4 DEF Next

\* Whatever is accessed in whatever order, every field starts where the one
\* before it ends and an instance without pos: is read at the end of the
\* fields, for every schema whose reads are acyclic, when nothing is edited
\* (resolve.go:73-97, 337-352); invalidating the whole tree begins anew.
THEOREM LayoutHolds ==
    ASSUME Dirtiable = {}, Invalidatable \subseteq {Root}
    PROVE  Spec => []Layout
<1>1. Init => LayoutInv
  <2> SUFFICES ASSUME Init PROVE LayoutInv
    OBVIOUS
  <2>1. TypeOK
    BY InitType
  <2>2. SeqFields \subseteq Field /\ Idle /\ \A n \in Node : state[n] = "unresolved"
    BY <2>1, SchemaType DEF Init, Idle
  <2> QED
    BY <2>2, LayoutFresh
<1>2. TypeOK /\ StackDiscipline /\ LayoutInv /\ [Next]_vars => LayoutInv'
  BY LayoutKept
<1>3. LayoutInv => Layout
  <2> SUFFICES ASSUME LayoutInv, NEW n \in Field, state[n] = "resolved"
               PROVE  /\ n \in SeqFields /\ state[Before(n)] = "resolved" => start[n] = BeforeEnd(n)
                      /\ (/\ AttrOf(n).kind = "at" /\ AttrOf(n).expr = NoExpr /\ value[n] # Null
                          /\ schema.seq # <<>> /\ state[LastField] = "resolved" /\ Acyclic(ReadsOf))
                         => start[n] = end[LastField]
    BY DEF Layout
  <2>1. n \in SeqFields => Adjoins(n)
    BY DEF LayoutInv, InSequence, Placed
  <2> QED
    BY <2>1 DEF LayoutInv, Adjoins, AfterFields, Unplaced, AtTheEnd
<1> QED
  BY <1>1, <1>2, <1>3, TypeCorrect, StackSafe, PTL DEF Spec

-----------------------------------------------------------------------------
(* Errors.                                                                 *)

\* Sums is what its recursive definition says.
LEMMA SumsOf ==
    ASSUME NEW v \in [Node -> Int], NEW e, e.refs \in Seq(Ref)
    PROVE  /\ Sums(v, e) \in [0 .. Len(e.refs) -> Int] /\ Sums(v, e)[0] = 0
           /\ \A k \in 1 .. Len(e.refs) : Sums(v, e)[k] = Sums(v, e)[k - 1] + v[e.refs[k].node]
<1> DEFINE Is(s) == s = [k \in 0 .. Len(e.refs) |-> IF k = 0 THEN 0 ELSE s[k - 1] + v[e.refs[k].node]]
<1>0. PICK n : n = Len(e.refs)
  OBVIOUS
<1>1. n \in Nat /\ \A k \in 1 .. n : v[e.refs[k].node] \in Int
  <2>1. \A k \in 1 .. n : e.refs[k] \in Ref
    BY <1>0
  <2> QED
    BY <1>0, <2>1 DEF Ref, Node
<1>2. PICK step : step = [k \in 1 .. n |-> [x \in Int |-> x + v[e.refs[k].node]]]
  OBVIOUS
<1>3. /\ \A k \in 1 .. n : step[k] \in [Int -> Int]
      /\ \A k \in 1 .. n : \A x \in Int : step[k][x] = x + v[e.refs[k].node]
  <2>1. ASSUME NEW k \in 1 .. n
        PROVE  [x \in Int |-> x + v[e.refs[k].node]] \in [Int -> Int]
    BY <1>1
  <2>2. \A k \in 1 .. n : step[k] = [x \in Int |-> x + v[e.refs[k].node]]
    BY <1>2
  <2>3. \A k \in 1 .. n : \A x \in Int : step[k][x] = x + v[e.refs[k].node]
    BY <2>2
  <2>4. ASSUME NEW k \in 1 .. n
        PROVE  step[k] \in [Int -> Int]
    <3>1. step[k] = [x \in Int |-> x + v[e.refs[k].node]]
      BY <2>2
    <3>2. [x \in Int |-> x + v[e.refs[k].node]] \in [Int -> Int]
      BY <2>1
    <3> QED
      BY <3>1, <3>2
  <2> QED
    BY <2>3, <2>4
<1>4. PICK f : Iterates(f, Int, 0, n, step)
  <2>1. Iteration(Int, 0, n, step)
    BY <1>1, <1>3 DEF Iteration
  <2> QED
    BY <2>1, Recursion
<1>5. f \in [0 .. n -> Int] /\ f[0] = 0 /\ \A k \in 1 .. n : f[k] = step[k][f[k - 1]]
  BY <1>4 DEF Iterates
<1>6. \A k \in 1 .. n : f[k] = f[k - 1] + v[e.refs[k].node]
  <2> TAKE k \in 1 .. n
  <2>1. k - 1 \in 0 .. n /\ f[k - 1] \in Int
    BY <1>1, <1>5
  <2> QED
    BY <1>3, <1>5, <2>1
<1>7. Is(f)
  <2>1. \A k \in 0 .. n : f[k] = IF k = 0 THEN 0 ELSE f[k - 1] + v[e.refs[k].node]
    <3> TAKE k \in 0 .. n
    <3>1. k = 0 \/ k \in 1 .. n
      BY <1>1
    <3> QED
      BY <1>5, <1>6, <3>1
  <2> QED
    BY <1>0, <1>5, <2>1
<1>8. Is(Sums(v, e))
  <2>1. \E s : Is(s)
    BY <1>7
  <2>2. Is(CHOOSE s : Is(s))
    BY <2>1
  <2> QED
    BY <2>2 DEF Sums
<1>9. PICK s : s = Sums(v, e)
  OBVIOUS
<1>10. /\ DOMAIN s = 0 .. n /\ s[0] = 0 /\ s = [k \in 0 .. n |-> s[k]]
       /\ \A k \in 1 .. n : s[k] = s[k - 1] + v[e.refs[k].node]
  <2>1. s = [k \in 0 .. n |-> IF k = 0 THEN 0 ELSE s[k - 1] + v[e.refs[k].node]]
    BY <1>0, <1>8, <1>9
  <2>2. \A k \in 0 .. n : s[k] = IF k = 0 THEN 0 ELSE s[k - 1] + v[e.refs[k].node]
    BY <2>1
  <2>3. DOMAIN s = 0 .. n /\ s = [k \in 0 .. n |-> s[k]]
    BY <2>1
  <2>4. s[0] = 0
    <3>1. 0 \in 0 .. n
      BY <1>1
    <3>2. s[0] = IF 0 = 0 THEN 0 ELSE s[0 - 1] + v[e.refs[0].node]
      BY <2>2, <3>1
    <3> QED
      BY <3>2
  <2>5. \A k \in 1 .. n : k \in 0 .. n /\ k # 0
    BY <1>1
  <2> QED
    BY <2>2, <2>3, <2>4, <2>5
<1>11. \A k \in 0 .. n : s[k] = f[k]
  <2>1. \A k \in 1 .. n : s[k - 1] = f[k - 1] => s[k] = f[k]
    BY <1>6, <1>10
  <2>2. Alike(s, f, n)
    BY <1>1, <1>5, <1>10, <2>1 DEF Alike
  <2> QED
    BY <2>2, RecursionOnce
<1>12. s \in [0 .. n -> Int]
  BY <1>5, <1>10, <1>11
<1> QED
  BY <1>0, <1>9, <1>10, <1>12

\* It depends on the values that have been added.
LEMMA SumsSame ==
    ASSUME NEW v \in [Node -> Int], NEW w \in [Node -> Int], NEW e, e.refs \in Seq(Ref),
           NEW j \in 0 .. Len(e.refs), \A i \in 1 .. j : v[e.refs[i].node] = w[e.refs[i].node]
    PROVE  Sums(v, e)[j] = Sums(w, e)[j]
<1> PICK s : s = Sums(v, e)
  OBVIOUS
<1> PICK t : t = Sums(w, e)
  OBVIOUS
<1>1. s[0] = 0 /\ \A k \in 1 .. Len(e.refs) : s[k] = s[k - 1] + v[e.refs[k].node]
  BY SumsOf
<1>2. t[0] = 0 /\ \A k \in 1 .. Len(e.refs) : t[k] = t[k - 1] + w[e.refs[k].node]
  BY SumsOf
<1>3. Len(e.refs) \in Nat /\ j \in Nat /\ \A k \in 1 .. j : k \in 1 .. Len(e.refs)
  OBVIOUS
<1>4. Alike(s, t, j)
  BY <1>1, <1>2, <1>3 DEF Alike
<1>5. s[j] = t[j]
  BY <1>3, <1>4, RecursionOnce
<1> QED
  BY <1>5

\* What an activation has added up: the first references of e, which have values.
Found(e, j) == \A i \in 1 .. j : state[e.refs[i].node] = "resolved" /\ value[e.refs[i].node] # Null
Summed(f, e) == /\ f.next \in 1 .. Len(e.refs) + 1
                /\ f.acc = Sums(value, e)[f.next - 1] /\ Found(e, f.next - 1)
Running(f) == f.pc \in EvalPc => Summed(f, ExprAt(f.node, f.pc))
InProgress == \A k \in DOMAIN frames : Running(frames[k])

\* What a resolution never takes back.
Lasting == \A m \in Node : state[m] = "resolved" => state'[m] = "resolved" /\ value'[m] = value[m]

\* An expression of the schema has references to fields.
LEMMA AttrType ==
    ASSUME TypeOK, NEW n \in Field, NEW e, e \in {AttrOf(n).cond, AttrOf(n).expr}
    PROVE  e.refs \in Seq(Ref) /\ e.lit \in Int /\ (e = NoExpr => Len(e.refs) = 0)
<1>1. e \in Expr \cup {NoExpr}
  BY SchemaType DEF Attr
<1>2. CASE e = NoExpr
  BY <1>2 DEF NoExpr
<1>3. CASE e \in Expr /\ e # NoExpr
  BY <1>3 DEF Expr
<1> QED
  BY <1>1, <1>2, <1>3

LEMMA SumsLast ==
    ASSUME TypeOK, TypeOK', Lasting, NEW e, e.refs \in Seq(Ref), NEW j \in 0 .. Len(e.refs), Found(e, j)
    PROVE  Sums(value', e)[j] = Sums(value, e)[j] /\ Found(e, j)'
<1>1. \A i \in 1 .. j : e.refs[i].node \in Node
  <2>1. \A i \in 1 .. j : i \in 1 .. Len(e.refs)
    OBVIOUS
  <2>2. \A i \in 1 .. j : e.refs[i] \in Ref
    BY <2>1
  <2> QED
    BY <2>2 DEF Ref, Node
<1>2. \A i \in 1 .. j : LET m == e.refs[i].node IN
         state'[m] = "resolved" /\ value'[m] = value[m] /\ value[m] # Null
  BY <1>1 DEF Lasting, Found
<1>3. value \in [Node -> Int] /\ value' \in [Node -> Int]
  BY DEF TypeOK, Null
<1>4. Sums(value', e)[j] = Sums(value, e)[j]
  <2> PICK v : v = value
    OBVIOUS
  <2> PICK w : w = value'
    OBVIOUS
  <2>1. v \in [Node -> Int] /\ w \in [Node -> Int]
    BY <1>3
  <2>2. \A i \in 1 .. j : w[e.refs[i].node] = v[e.refs[i].node]
    BY <1>2
  <2>3. Sums(w, e)[j] = Sums(v, e)[j]
    BY ONLY <2>1, <2>2, SumsSame, e.refs \in Seq(Ref), j \in 0 .. Len(e.refs), SMTT(60)
  <2> QED
    BY <2>3
<1> QED
  BY <1>2, <1>4 DEF Found

LEMMA SummedKept ==
    ASSUME TypeOK, TypeOK', Lasting, NEW f, NEW e, e.refs \in Seq(Ref), Summed(f, e)
    PROVE  Summed(f, e)'
<1> PICK j : j = f.next - 1
  OBVIOUS
<1>1. f.next \in 1 .. Len(e.refs) + 1 /\ f.acc = Sums(value, e)[j] /\ j \in 0 .. Len(e.refs) /\ Found(e, j)
  BY DEF Summed
<1>2. Sums(value', e)[j] = Sums(value, e)[j] /\ Found(e, j)'
  BY <1>1, SumsLast
<1> QED
  BY <1>1, <1>2 DEF Summed, Found

LEMMA RunningKept ==
    ASSUME TypeOK, TypeOK', Lasting, UNCHANGED schema, NEW f \in Frame, Fits(f), Running(f)
    PROVE  Running(f)'
<1> SUFFICES ASSUME f.pc \in EvalPc
             PROVE  Summed(f, ExprAt(f.node, f.pc))'
  BY DEF Running
<1> PICK e : e = ExprAt(f.node, f.pc)
  OBVIOUS
<1>1. f.node \in Field
  BY DEF Fits, EvalPc, Frame, Node
<1>2. e.refs \in Seq(Ref)
  BY <1>1, AttrType DEF ExprAt
<1>3. Summed(f, e)'
  BY <1>2, SummedKept DEF Running
<1>4. ExprAt(f.node, f.pc)' = e
  BY SchemaKept DEF ExprAt
<1> QED
  BY <1>3, <1>4

\* An evaluation that begins has added nothing.
LEMMA FreshRuns ==
    ASSUME TypeOK', NEW g, g.next = 1, g.acc = 0, g \in Frame, Fits(g)'
    PROVE  Running(g)'
<1> SUFFICES ASSUME g.pc \in EvalPc
             PROVE  Summed(g, ExprAt(g.node, g.pc))'
  BY DEF Running
<1> PICK e : e = ExprAt(g.node, g.pc)'
  OBVIOUS
<1>1. g.node \in Field
  BY DEF Fits, EvalPc, Frame, Node
<1>2. e.refs \in Seq(Ref)
  <2>1. schema' \in Schema
    BY SchemasAssumption DEF TypeOK
  <2>2. AttrOf(g.node)' \in Attr
    BY <1>1, <2>1 DEF Schema, AttrOf
  <2>3. e \in Expr \cup {NoExpr}
    BY <2>2 DEF Attr, ExprAt
  <2>4. CASE e = NoExpr
    BY <2>4 DEF NoExpr
  <2>5. CASE e \in Expr
    BY <2>5 DEF Expr
  <2> QED
    BY <2>3, <2>4, <2>5
<1>3. Sums(value', e)[0] = 0
  <2>1. value' \in [Node -> Int]
    BY DEF TypeOK, Null
  <2> QED
    BY <1>2, <2>1, SumsOf
<1>4. Len(e.refs) \in Nat /\ g.next - 1 = 0
  BY <1>2
<1>5. Summed(g, e)'
  BY <1>3, <1>4 DEF Summed, Found
<1> QED
  BY <1>5

\* Where a reference has a value, it is added to what the activation has.
LEMMA AddedRuns ==
    ASSUME TypeOK, TypeOK', Lasting, UNCHANGED schema, HasNextRef, Running(Top), Top.node \in Field,
           NEW g, g.pc = Top.pc, g.node = Top.node, g.next = Top.next + 1,
           state[NextRef.node] = "resolved", value[NextRef.node] # Null,
           g.acc = Top.acc + value[NextRef.node]
    PROVE  Running(g)'
<1> PICK e : e = ExprAt(g.node, g.pc)
  OBVIOUS
<1> PICK j : j = Top.next
  OBVIOUS
<1> PICK m : m = NextRef.node
  OBVIOUS
<1>1. ~Idle /\ Top.pc \in EvalPc
  BY DEF HasNextRef, Evaluating
<1>2. e.refs \in Seq(Ref) /\ j \in 1 .. Len(e.refs) /\ e.refs[j].node = m /\ m \in Node
  <2>1. e.refs \in Seq(Ref)
    BY <1>1, ExprType
  <2>2. j \in DOMAIN e.refs /\ NextRef = e.refs[j] /\ NextRef.node \in Node
    BY NextRefType
  <2> QED
    BY <2>1, <2>2
<1>3. Summed(Top, e)
  BY <1>1 DEF Running
<1>4. j - 1 \in 0 .. Len(e.refs) /\ Top.acc = Sums(value, e)[j - 1] /\ Found(e, j - 1)
  BY <1>2, <1>3 DEF Summed
<1>5. Sums(value', e)[j - 1] = Sums(value, e)[j - 1] /\ Found(e, j - 1)'
  <2> PICK i : i = j - 1
    OBVIOUS
  <2>1. Sums(value', e)[i] = Sums(value, e)[i] /\ Found(e, i)'
    BY <1>2, <1>4, SumsLast
  <2> QED
    BY <2>1 DEF Found
<1>6. state'[m] = "resolved" /\ value'[m] = value[m]
  BY <1>2 DEF Lasting
<1>7. Sums(value', e)[j] = g.acc
  <2>1. value' \in [Node -> Int]
    BY DEF TypeOK, Null
  <2>2. Sums(value', e)[j] = Sums(value', e)[j - 1] + value'[m]
    BY <1>2, <2>1, SumsOf
  <2> QED
    BY <1>4, <1>5, <1>6, <2>2
<1>8. Summed(g, e)'
  <2>1. g.next \in 1 .. Len(e.refs) + 1 /\ g.next - 1 = j
    BY <1>2
  <2>2. \A i \in 1 .. j : i \in 1 .. j - 1 \/ i = j
    BY <1>2
  <2>3. Found(e, j)'
    BY <1>2, <1>5, <1>6, <2>2 DEF Found
  <2> QED
    BY <1>7, <2>1, <2>3 DEF Summed, Found
<1>9. ExprAt(g.node, g.pc)' = e
  BY SchemaKept DEF ExprAt
<1> QED
  BY <1>8, <1>9 DEF Running

\* An expression that has been evaluated has the sum that the properties name.
LEMMA SumFound ==
    ASSUME TypeOK, NEW pc, Evaluated(pc), Top.node \in Field, Running(Top), NEW e, e = ExprAt(Top.node, pc)
    PROVE  e # NoExpr /\ Known(e) /\ Sum(e) = Result
<1>1. ~Idle /\ Top.pc = pc /\ pc \in EvalPc /\ e # NoExpr /\ ~(Top.next <= Len(e.refs))
  BY DEF Evaluated, At, Evaluating, HasNextRef
<1>2. e.refs \in Seq(Ref) /\ Len(e.refs) \in Nat
  BY <1>1, ExprType
<1>3. Top.next \in 1 .. Len(e.refs) + 1 /\ Top.acc = Sums(value, e)[Top.next - 1] /\ Found(e, Top.next - 1)
  BY <1>1 DEF Running, Summed, Found
<1>4. Top.next - 1 = Len(e.refs)
  BY <1>1, <1>2, <1>3
<1>5. Known(e)
  BY <1>2, <1>3, <1>4 DEF Known, RefsOf, Found
<1> QED
  BY <1>1, <1>3, <1>4, <1>5 DEF Sum, Result

\* Every step keeps the sums of the activations that it leaves running.
LEMMA ResolveRuns ==
    ASSUME TypeOK, TypeOK', StackDiscipline, Answered, InProgress, Resolve,
           NEW i \in DOMAIN frames', NEW g, g = frames'[i]
    PROVE  Running(g)'
<1>1. /\ ~Idle /\ UNCHANGED schema /\ Top = frames[Len(frames)] /\ Len(frames) \in DOMAIN frames
      /\ Len(frames) \in Nat \ {0} /\ Top \in Frame /\ Fits(Top) /\ Top.node \in Node
      /\ \A k \in DOMAIN frames : frames[k] \in Frame /\ Fits(frames[k]) /\ Running(frames[k])
  BY StepKeeps, TopState, TopType DEF Top, TypeOK, InProgress
<1>2. Lasting
  BY StepKeeps DEF Lasting, Settled
<1>3. Running(Top)
  BY <1>1
<1>4. g \in Frame /\ Fits(g)'
  <2>1. frames' \in Seq(Frame) /\ (\A k \in DOMAIN frames : Fits(frames[k]))'
    BY DEF TypeOK
  <2>2. Fits(frames[i])'
    BY <2>1
  <2> QED
    BY <2>1, <2>2 DEF Fits
<1>5. CASE i \in DOMAIN frames /\ g = frames[i]
  BY <1>1, <1>2, <1>5, RunningKept
<1>6. CASE i = Len(frames) /\ g.node = Top.node
  <2>1. Fresh => Running(g)'
    BY <1>4, <1>6, FreshRuns DEF Fresh
  <2>2. g.pc \notin EvalPc => Running(g)'
    BY DEF Running
  <2>3. CASE Refers
    <3>1. CASE Called(NextRef.node, Top.pc) /\ frames'[Len(frames)].next = Top.next /\ frames'[Len(frames)].acc = Top.acc
      <4> PICK f : f = Top
        OBVIOUS
      <4>1. Running(f)'
        BY <1>1, <1>2, <1>3, RunningKept
      <4>2. g.pc = f.pc /\ g.node = f.node /\ g.next = f.next /\ g.acc = f.acc
        BY <1>6, <3>1 DEF Called
      <4> QED
        BY <4>1, <4>2 DEF Running, Summed, Found
    <3>2. CASE /\ Advanced(Top.pc)
               /\ state[NextRef.node] = "resolved" /\ value[NextRef.node] # Null
               /\ frames'[Len(frames)].next = Top.next + 1
               /\ frames'[Len(frames)].acc = Top.acc + value[NextRef.node]
      <4>1. g.pc = Top.pc /\ HasNextRef /\ Top.pc # "root"
        BY <1>6, <2>3, <3>2 DEF Advanced, Refers, HasNextRef, Evaluating, EvalPc
      <4> QED
        BY <1>1, <1>2, <1>3, <1>6, <3>2, <4>1, FieldType, AddedRuns
    <3> QED
      BY <2>3, <3>1, <3>2 DEF Refers
  <2>4. CASE Asks \/ Ensures
    BY <1>6, <2>2, <2>4 DEF Asks, Ensures, Called, EvalPc
  <2>5. CASE Enters \/ Begins \/ Seeks \/ GoesOn
    BY <2>1, <2>5 DEF Enters, Begins, Seeks, GoesOn
  <2>6. ~ (\E m, o : Popped(m, o))
    BY <1>1, <1>6, FramesAfter
  <2> QED
    BY <2>3, <2>4, <2>5, <2>6, Movements DEF Fails, Succeeds
<1>7. CASE i = Len(frames) + 1 /\ \E m, pc : Called(m, pc)
  BY <1>4, <1>7, FreshRuns DEF Called
<1>8. \/ i \in DOMAIN frames /\ g = frames[i]
      \/ i = Len(frames) /\ g.node = Top.node
      \/ i = Len(frames) + 1 /\ \E m, pc : Called(m, pc)
  <2>1. \/ \E pc : Advanced(pc)
        \/ \E m, pc : Called(m, pc)
        \/ \E m, o : Popped(m, o)
    BY Movements DEF Enters, Asks, Begins, Refers, Ensures, Seeks, GoesOn, Fails, Succeeds
  <2> QED
    BY <1>1, <2>1, FramesAfter
<1> QED
  BY <1>5, <1>6, <1>7, <1>8

\* An activation that waits is a field's.
LEMMA BelowTop ==
    ASSUME TypeOK, StackDiscipline, NEW k \in 1 .. Len(frames) - 1
    PROVE  /\ k \in DOMAIN frames /\ k + 1 \in DOMAIN frames /\ Waits(frames[k], frames[k + 1].node)
           /\ frames[k].node \in Field /\ frames[k].node # Root
<1>1. k \in DOMAIN frames /\ k + 1 \in DOMAIN frames
  BY DEF TypeOK
<1>2. Waits(frames[k], frames[k + 1].node)
  BY DEF StackDiscipline, CallChain
<1>3. frames[k].pc # "root"
  BY <1>2 DEF Waits, EvalPc
<1>4. Fits(frames[k]) /\ frames[k] \in Frame
  BY <1>1 DEF TypeOK
<1> QED
  BY <1>1, <1>2, <1>3, <1>4 DEF Fits, Frame, Node

\* From one activation to the next the rank does not grow, and it falls below
\* one that evaluates an expression.
Ranks(h) ==
    /\ h \in [Field -> 1 .. MaxEvalDepth]
    /\ \A n \in Field :
         /\ \A m \in ReadsOf[n] : h[m] <= h[n]
         /\ \A r \in RefsOf(AttrOf(n).cond) \cup RefsOf(AttrOf(n).expr) : h[r.node] < h[n]

LEMMA RankFalls ==
    ASSUME TypeOK, StackDiscipline, KindFits, NEW h, Ranks(h),
           NEW k \in 1 .. Len(frames) - 1, frames[k + 1].node \in Field
    PROVE  /\ h[frames[k + 1].node] <= h[frames[k].node]
           /\ frames[k].pc \in EvalPc => h[frames[k + 1].node] < h[frames[k].node]
<1>1. /\ k \in DOMAIN frames /\ k + 1 \in DOMAIN frames /\ Waits(frames[k], frames[k + 1].node)
      /\ frames[k].node \in Field
  BY BelowTop
<1> PICK f : f = frames[k]
  OBVIOUS
<1> PICK m : m = frames[k + 1].node
  OBVIOUS
<1>2. m \in ReadsOf[f.node]
  BY <1>1, WaitsRead
<1>3. ASSUME f.pc \in EvalPc
      PROVE  h[m] < h[f.node]
  <2>1. f.pc \notin {"predecessor", "sibling"}
    BY <1>3 DEF EvalPc
  <2>2. PICK r \in RefsOf(ExprAt(f.node, f.pc)) : r.node = m
    BY <1>1, <2>1 DEF Waits, RefsOf
  <2>3. r \in RefsOf(AttrOf(f.node).cond) \cup RefsOf(AttrOf(f.node).expr)
    BY <2>2 DEF ExprAt
  <2> QED
    BY <1>1, <2>2, <2>3 DEF Ranks
<1> QED
  BY <1>1, <1>2, <1>3 DEF Ranks

\* Where references are not nested deeper than maxEvalDepth, no evaluation is.
LEMMA DepthBound ==
    ASSUME TypeOK, StackDiscipline, KindFits, Shallow, ~Idle
    PROVE  ~(EvalDepth > MaxEvalDepth)
<1> PICK h : Ranks(h)
  BY DEF Shallow, Ranks
<1> PICK l \in Nat \ {0} : /\ l = Len(frames)
                          /\ DOMAIN frames = 1 .. l
                          /\ Top = frames[l]
                          /\ \A k \in 1 .. l : frames[k] \in Frame /\ frames[k].node \in Node
  BY StackType
<1> DEFINE E == {k \in DOMAIN frames : frames[k].pc \in EvalPc}
           T == {d \in Nat : \A j \in E : j + 1 + d \in 1 .. l /\ frames[j + 1 + d].node \in Field
                                => h[frames[j + 1 + d].node] < h[frames[j].node]}
<1>0. \A n \in Field : h[n] \in 1 .. MaxEvalDepth /\ h[n] \in Int
  BY DepthAssumption DEF Ranks
<1>1. \A k \in E : k \in 1 .. l /\ frames[k].node \in Field
  <2> SUFFICES ASSUME NEW k \in E
               PROVE  frames[k].node \in Field
    OBVIOUS
  <2>1. Fits(frames[k]) /\ frames[k].node \in Node /\ frames[k].pc # "root"
    BY DEF TypeOK, EvalPc
  <2> QED
    BY <2>1 DEF Fits, Node
<1>2. 0 \in T
  <2> SUFFICES ASSUME NEW j \in E, j + 1 + 0 \in 1 .. l, frames[j + 1 + 0].node \in Field
               PROVE  h[frames[j + 1 + 0].node] < h[frames[j].node]
    OBVIOUS
  <2>1. j \in 1 .. Len(frames) - 1 /\ j + 1 + 0 = j + 1 /\ frames[j].pc \in EvalPc
    BY <1>1
  <2> QED
    BY <2>1, RankFalls
<1>3. ASSUME NEW d \in T
      PROVE  d + 1 \in T
  <2>0. d \in Nat /\ d + 1 \in Nat
    OBVIOUS
  <2> SUFFICES ASSUME NEW j \in E, j + 1 + (d + 1) \in 1 .. l, frames[j + 1 + (d + 1)].node \in Field
               PROVE  h[frames[j + 1 + (d + 1)].node] < h[frames[j].node]
    BY <2>0
  <2> PICK k : k = j + 1 + d
    OBVIOUS
  <2>1. j \in 1 .. l /\ k \in 1 .. Len(frames) - 1 /\ k \in 1 .. l /\ j + 1 + (d + 1) = k + 1
    BY <1>1, <2>0
  <2>2. frames[k].node \in Field
    BY <2>1, BelowTop
  <2>3. h[frames[k].node] < h[frames[j].node]
    BY <2>1, <2>2
  <2>4. h[frames[k + 1].node] <= h[frames[k].node]
    BY <2>1, RankFalls
  <2>5. frames[j].node \in Field /\ frames[k + 1].node \in Field
    BY <1>1, <2>1
  <2> QED
    BY <1>0, <2>1, <2>2, <2>3, <2>4, <2>5
<1>4. T = Nat
  <2>1. T \subseteq Nat
    OBVIOUS
  <2> HIDE DEF T
  <2> QED
    BY <1>2, <1>3, <2>1, NatSets
<1>5. ASSUME NEW j \in E, NEW k \in E, j < k
      PROVE  h[frames[k].node] < h[frames[j].node]
  <2>1. j \in 1 .. l /\ k \in 1 .. l /\ frames[k].node \in Field
    BY <1>1
  <2>2. k - j - 1 \in Nat /\ j + 1 + (k - j - 1) = k
    BY <1>5, <2>1
  <2>3. k - j - 1 \in T
    BY <1>4, <2>2
  <2> QED
    BY <2>1, <2>2, <2>3
<1> HIDE DEF E, T
<1> DEFINE rank == [k \in E |-> h[frames[k].node]]
<1>6. rank \in Injection(E, 1 .. MaxEvalDepth)
  <2>1. rank \in [E -> 1 .. MaxEvalDepth]
    BY <1>0, <1>1
  <2>2. ASSUME NEW j \in E, NEW k \in E, rank[j] = rank[k]
        PROVE  j = k
    <3>1. j \in 1 .. l /\ k \in 1 .. l /\ frames[j].node \in Field /\ frames[k].node \in Field
      BY <1>1
    <3>2. h[frames[j].node] = h[frames[k].node]
      BY <2>2
    <3>3. ~(j < k) /\ ~(k < j)
      BY <1>0, <1>5, <3>1, <3>2
    <3> QED
      BY <3>1, <3>3
  <2> HIDE DEF rank
  <2> QED
    BY <2>1, <2>2 DEF Injection, IsInjective
<1>7. IsFiniteSet(1 .. MaxEvalDepth) /\ Cardinality(1 .. MaxEvalDepth) = MaxEvalDepth
  <2> PICK m : m = MaxEvalDepth
    OBVIOUS
  <2>1. m \in Nat /\ 1 \in Int /\ m \in Int
    BY DepthAssumption
  <2>2. IsFiniteSet(1 .. m) /\ Cardinality(1 .. m) = IF 1 > m THEN 0 ELSE m - 1 + 1
    BY <2>1, FS_Interval
  <2> QED
    BY <2>1, <2>2
<1>8. IsFiniteSet(E) /\ Cardinality(E) <= Cardinality(1 .. MaxEvalDepth)
  BY <1>6, <1>7, FS_Injection
<1>9. Cardinality(E) \in Nat
  BY <1>8, FS_CardinalityType
<1> QED
  BY <1>7, <1>8, <1>9, DepthAssumption DEF EvalDepth, E

\* The root is resolved by an activation that calls nobody.
LEMMA RootOnTop ==
    ASSUME TypeOK, StackDiscipline, ~Idle, state[Root] = "resolving"
    PROVE  Top.node = Root
<1> PICK l \in Nat \ {0} : /\ l = Len(frames)
                          /\ DOMAIN frames = 1 .. l
                          /\ Top = frames[l]
                          /\ \A k \in 1 .. l : frames[k] \in Frame /\ frames[k].node \in Node
  BY StackType
<1>1. PICK k \in 1 .. l : frames[k].node = Root
  BY DEF StackDiscipline, Sentinel, Node
<1>2. k \notin 1 .. Len(frames) - 1
  BY <1>1, BelowTop
<1>3. k = l
  BY <1>2
<1> QED
  BY <1>1, <1>3

\* A node reads fields only.
LEMMA ReadsType ==
    ASSUME TypeOK, NEW n \in Field
    PROVE  ReadsOf[n] \subseteq Field /\ ReadsOf[n] \subseteq Node
<1>1. ASSUME NEW r \in RefsOf(AttrOf(n).cond) \cup RefsOf(AttrOf(n).expr)
      PROVE  r.node \in Field
  <2> PICK c, x : c = AttrOf(n).cond /\ x = AttrOf(n).expr
    OBVIOUS
  <2>1. c.refs \in Seq(Ref) /\ x.refs \in Seq(Ref)
    BY AttrType
  <2>2. r \in Ref
    BY <2>1 DEF RefsOf
  <2> QED
    BY <2>2 DEF Ref
<1>2. SeqFields \subseteq Field /\ (n \in SeqFields => Before(n) \in Node)
  BY SchemaType, BeforeType
<1>3. Uses(n) \subseteq Field
  BY <1>1, <1>2 DEF Uses, Node
<1> QED
  BY <1>2, <1>3 DEF ReadsOf, Node

\* Why a node may have failed.
Cause(n) == PastTheEnd(n) \/ RefersToNull(n) \/ \E m \in ReadsOf[n] : state[m] = "error"
Blamed == \A n \in Node : state[n] = "error" => n \in Field /\ Cause(n)
ErrorInv == Acyclic(ReadsOf) /\ Shallow => Sound /\ Blamed

LEMMA KnownKept ==
    ASSUME TypeOK, TypeOK', Lasting, NEW e, e.refs \in Seq(Ref), Known(e)
    PROVE  Known(e)' /\ Sum(e)' = Sum(e)
<1> PICK j : j = Len(e.refs)
  OBVIOUS
<1>1. j \in 0 .. Len(e.refs) /\ DOMAIN e.refs = 1 .. j
  OBVIOUS
<1>2. Found(e, j)
  BY <1>1 DEF Known, RefsOf, Found
<1>3. Sums(value', e)[j] = Sums(value, e)[j] /\ Found(e, j)'
  BY <1>1, <1>2, SumsLast
<1>4. Known(e)'
  BY <1>1, <1>3 DEF Known, RefsOf, Found
<1> QED
  BY <1>3, <1>4 DEF Sum

\* An input that is too short stays so, under what has been resolved since.
LEMMA ShortKept ==
    ASSUME TypeOK, TypeOK', Lasting, UNCHANGED schema, NEW n \in Field, NEW x, x = AttrOf(n).expr,
           NEW k, k = AttrOf(n).kind, k # "value", k = "bytes" => Known(x),
           start'[n] + (IF k = "bytes" THEN Sum(x) ELSE 1) > Len(schema.data)
    PROVE  PastTheEnd(n)'
<1>1. x.refs \in Seq(Ref)
  BY AttrType
<1>2. k = "bytes" => Known(x)' /\ Sum(x)' = Sum(x)
  BY <1>1, KnownKept
<1>3. AttrOf(n)'.expr = x /\ AttrOf(n)'.kind = k
  BY SchemaKept
<1> QED
  BY <1>2, <1>3 DEF PastTheEnd

LEMMA NullKept ==
    ASSUME TypeOK, Lasting, UNCHANGED schema, NEW n \in Field, RefersToNull(n)
    PROVE  RefersToNull(n)'
<1> PICK c, x : c = AttrOf(n).cond /\ x = AttrOf(n).expr
  OBVIOUS
<1>1. PICK r \in RefsOf(c) \cup RefsOf(x) : state[r.node] = "resolved" /\ value[r.node] = Null
  BY DEF RefersToNull
<1>2. c.refs \in Seq(Ref) /\ x.refs \in Seq(Ref)
  BY AttrType
<1>3. r \in Ref /\ r.node \in Node
  <2>1. r \in Ref
    BY <1>2 DEF RefsOf
  <2> QED
    BY <2>1 DEF Ref, Node
<1>4. state'[r.node] = "resolved" /\ value'[r.node] = Null
  BY <1>1, <1>3 DEF Lasting
<1>5. AttrOf(n)'.cond = c /\ AttrOf(n)'.expr = x
  BY SchemaKept
<1> QED
  BY <1>4, <1>5 DEF RefersToNull

\* A cause lasts.
LEMMA CauseKept ==
    ASSUME TypeOK, TypeOK', StackDiscipline, Resolve, NEW n \in Field, n # Top.node, Cause(n)
    PROVE  Cause(n)'
<1>1. UNCHANGED schema /\ n \in Node /\ start'[n] = start[n]
      /\ \A m \in Node : state[m] = "error" => state'[m] = "error"
  BY StepKeeps DEF Node, Settled
<1>2. Lasting
  BY StepKeeps DEF Lasting, Settled
<1>3. CASE PastTheEnd(n)
  <2> PICK x, k : x = AttrOf(n).expr /\ k = AttrOf(n).kind
    OBVIOUS
  <2>1. /\ k # "value" /\ (k = "bytes" => Known(x))
        /\ start'[n] + (IF k = "bytes" THEN Sum(x) ELSE 1) > Len(schema.data)
    BY <1>1, <1>3 DEF PastTheEnd
  <2> QED
    BY <1>1, <1>2, <2>1, ShortKept DEF Cause
<1>4. CASE RefersToNull(n)
  BY <1>1, <1>2, <1>4, NullKept DEF Cause
<1>5. CASE \E m \in ReadsOf[n] : state[m] = "error"
  <2>1. PICK m \in ReadsOf[n] : state[m] = "error"
    BY <1>5
  <2>2. m \in Node
    BY <2>1, ReadsType
  <2>3. state'[m] = "error" /\ ReadsOf' = ReadsOf
    BY <1>1, <2>1, <2>2, SchemaKept
  <2> QED
    BY <2>1, <2>3 DEF Cause
<1> QED
  BY <1>3, <1>4, <1>5 DEF Cause

\* A read that fails finds the input too short.
LEMMA ShortRead ==
    ASSUME TypeOK, TypeOK', StackDiscipline, Resolve, NEW n \in Field, n = Top.node,
           NEW at \in Int, NEW len, NEW v, ReadAt(n, at, len, v), state'[n] = "error",
           NEW x, x = AttrOf(n).expr, NEW k, k = AttrOf(n).kind,
           k # "value", k = "bytes" => Known(x) /\ len = Sum(x), k # "bytes" => len = 1
    PROVE  PastTheEnd(n)'
<1>1. n \in Node /\ n \in Field /\ UNCHANGED schema
  BY StepKeeps DEF Node
<1>2. Lasting
  BY StepKeeps DEF Lasting, Settled
<1>3. ~Return("resolved")
  <2>1. [state EXCEPT ![Top.node] = "resolved"][n] = "resolved"
    BY <1>1 DEF TypeOK
  <2> QED
    BY <2>1 DEF Return
<1>4. ~(at + len <= Len(schema.data)) /\ start'[n] = at
  BY <1>1, <1>3 DEF ReadAt, TypeOK
<1>5. len \in Int
  <2>1. CASE k # "bytes"
    BY <2>1
  <2>2. CASE k = "bytes"
    <3>1. x.refs \in Seq(Ref) /\ x.lit \in Int /\ Len(x.refs) \in 0 .. Len(x.refs)
      BY <1>1, AttrType
    <3>2. value \in [Node -> Int]
      BY DEF TypeOK, Null
    <3>3. Sums(value, x)[Len(x.refs)] \in Int
      BY <3>1, <3>2, SumsOf
    <3> QED
      BY <2>2, <3>1, <3>3 DEF Sum
  <2> QED
    BY <2>1, <2>2
<1>6. Len(schema.data) \in Int
  BY SchemaType
<1>7. at + len > Len(schema.data)
  BY <1>4, <1>5, <1>6
<1>8. k = "bytes" => Known(x)
  OBVIOUS
<1>9. start'[n] + (IF k = "bytes" THEN Sum(x) ELSE 1) > Len(schema.data)
  BY <1>4, <1>7
<1> QED
  BY <1>1, <1>2, <1>8, <1>9, ShortKept

\* A node fails when its activation does, and for a cause: no step finds what
\* it needs on the stack, and none finds the evaluation too deep.
LEMMA NewlyFailed ==
    ASSUME TypeOK, TypeOK', StackDiscipline, KindFits, Answered, InProgress, Blamed,
           Acyclic(ReadsOf), Shallow, Resolve,
           NEW n \in Node, state[n] # "error", state'[n] = "error"
    PROVE  n = Top.node /\ n \in Field /\ Cause(n)'
<1> PICK t : t = Top.node
  OBVIOUS
<1>1. /\ ~Idle /\ UNCHANGED schema /\ t \in Node /\ Top = frames[Len(frames)]
      /\ Len(frames) \in DOMAIN frames /\ SeqFields \subseteq Field
  BY StepKeeps, TopState, TopType, SchemaType DEF Top
<1>2. Top.pc # "root" => t \in Field /\ t # Root
  BY <1>1, FieldType, RootAssumption
<1>3. \A m \in Field : m \in ReadsOf[t] /\ t \in Field => state[m] # "resolving"
  BY <1>1, NoneBelow
<1>4. state[Root] # "error" /\ (t # Root => state[Root] # "resolving")
  BY <1>1, RootOnTop, RootAssumption DEF Blamed, Node
<1>5. \A m \in Field : t \in Field /\ Waits(Top, m) => m \in ReadsOf[t]
  BY <1>1, WaitsRead
<1>6. ASSUME Return("error")
      PROVE  n = t /\ state' = [state EXCEPT ![t] = "error"]
  BY <1>1, <1>6 DEF Return, TypeOK
<1>7. ~(state' = state) /\ \A m, o : o # "error" /\ state' = [state EXCEPT ![m] = o] => FALSE
  BY DEF TypeOK
\* An error that is passed on.
<1>8. ASSUME Return("error"), NEW m \in Field, m \in ReadsOf[t], state[m] = "error", t \in Field
      PROVE  n = Top.node /\ n \in Field /\ Cause(n)'
  <2>1. state'[m] = "error" /\ ReadsOf' = ReadsOf
    BY <1>1, <1>6, <1>8, SchemaKept DEF TypeOK, Node
  <2> QED
    BY <1>6, <1>8, <2>1 DEF Cause
\* A read beyond the input.
<1>9. ASSUME NEW at \in Int, NEW len, NEW v, ReadAt(t, at, len, v), t \in Field,
             NEW x, x = AttrOf(t).expr, NEW k, k = AttrOf(t).kind,
             k # "value", k = "bytes" => Known(x) /\ len = Sum(x), k # "bytes" => len = 1
      PROVE  n = Top.node /\ n \in Field /\ Cause(n)'
  <2>1. Return("error")
    BY <1>7, <1>9 DEF ReadAt, Return
  <2>2. n = t
    BY <1>6, <2>1
  <2>3. PastTheEnd(n)'
    BY <1>9, <2>2, ShortRead
  <2> QED
    BY <1>9, <2>2, <2>3 DEF Cause
<1>10. CASE ResolveRoot
  BY <1>7, <1>10 DEF ResolveRoot, Return
<1>11. CASE FindPosition
  <2>1. Top.pc = "position" /\ t \in SeqFields
    BY <1>1, <1>11, TopType DEF FindPosition, At, Fits
  <2> PICK b : b = Before(t)
    OBVIOUS
  <2>2. b \in Node /\ (b \in Field => b \in ReadsOf[t])
    BY <1>1, <2>1, BeforeType, RootAssumption DEF ReadsOf, Uses
  <2>3. state[b] # "resolving"
    BY <1>2, <1>3, <1>4, <2>1, <2>2 DEF Node
  <2>4. state' = state \/ Call(b, "predecessor", 1)
    BY <1>11, <2>3 DEF FindPosition
  <2> QED
    BY <1>7, <2>4 DEF Call
<1>12. CASE AfterPredecessor
  <2>1. Top.pc = "predecessor" /\ t \in SeqFields
    BY <1>1, <1>12, TopType DEF AfterPredecessor, At, Fits
  <2> PICK b : b = Before(t)
    OBVIOUS
  <2>2. b \in Node /\ (b \in Field => b \in ReadsOf[t])
    BY <1>1, <2>1, BeforeType, RootAssumption DEF ReadsOf, Uses
  <2>3. state[b] = "error" /\ Return("error")
    BY <1>7, <1>12 DEF AfterPredecessor
  <2>4. b \in Field
    BY <1>4, <2>2, <2>3 DEF Node
  <2> QED
    BY <1>1, <1>8, <2>1, <2>2, <2>3, <2>4
<1>13. CASE SkipCondition
  BY <1>7, <1>13 DEF SkipCondition
<1>14. CASE EvaluateReference
  <2> PICK m : m = NextRef.node
    OBVIOUS
  <2>1. HasNextRef /\ Top.pc # "root"
    BY <1>14 DEF EvaluateReference, HasNextRef, Evaluating, EvalPc
  <2>2. t \in Field /\ NextRef \in Ref /\ m \in Field
    BY <1>2, <2>1, NextRefType DEF Ref
  <2>3. m \in ReadsOf[t]
    BY <1>1, <1>5, <2>1, <2>2, WaitsAt
  <2>4. state[m] # "resolving"
    BY <1>3, <2>2, <2>3
  <2>5. Return("error") /\ (state[m] = "error" \/ (state[m] = "resolved" /\ value[m] = Null))
    BY <1>7, <1>14, <2>4 DEF EvaluateReference, Call
  <2>6. CASE state[m] = "error"
    BY <1>8, <2>2, <2>3, <2>5, <2>6
  <2>7. CASE state[m] = "resolved" /\ value[m] = Null
    <3>1. NextRef \in RefsOf(ExprAt(t, Top.pc))
      BY <2>1, <2>2, NextRefType DEF RefsOf
    <3>2. NextRef \in RefsOf(AttrOf(t).cond) \cup RefsOf(AttrOf(t).expr)
      BY <3>1 DEF ExprAt
    <3>3. RefersToNull(t)
      BY <2>7, <3>2 DEF RefersToNull
    <3>4. Lasting
      BY StepKeeps DEF Lasting, Settled
    <3>5. RefersToNull(t)'
      BY <1>1, <2>2, <3>3, <3>4, NullKept
    <3> QED
      BY <1>6, <2>2, <2>5, <3>5 DEF Cause
  <2> QED
    BY <2>5, <2>6, <2>7
<1>15. CASE ExceedDepth
  BY <1>1, <1>15, DepthBound DEF ExceedDepth
<1>16. CASE FinishCondition
  BY <1>7, <1>16 DEF FinishCondition, Return
<1>17. CASE ReadByte
  <2>1. Top.pc = "read" /\ ReadAt(t, start[t], 1, ByteAt(start[t])) /\ AttrOf(t).kind = "u1"
    BY <1>1, <1>17 DEF ReadByte, At, KindFits
  <2>2. start[t] \in Int
    BY <1>1 DEF TypeOK
  <2> QED
    BY <1>2, <1>9, <2>1, <2>2
<1>18. CASE ReadSized
  <2> PICK x : x = ExprAt(Top.node, "size")
    OBVIOUS
  <2>1. Evaluated("size") /\ ReadAt(t, start[t], Result, Result) /\ Top.pc = "size"
    BY <1>18 DEF ReadSized, Evaluated, At
  <2>2. AttrOf(t).kind = "bytes" /\ x = AttrOf(t).expr /\ Running(Top)
    BY <1>1, <2>1 DEF KindFits, ExprAt, InProgress
  <2>3. Known(x) /\ Sum(x) = Result
    BY <1>2, <2>1, <2>2, SumFound
  <2>4. start[t] \in Int
    BY <1>1 DEF TypeOK
  <2> QED
    BY <1>2, <1>9, <2>1, <2>2, <2>3, <2>4
<1>19. CASE ComputeValue
  BY <1>7, <1>19 DEF ComputeValue, Return
<1>20. CASE EnsureSibling
  <2>1. state' = state \/ \E k \in FirstUnread : Call(schema.seq[k], "sibling", k)
    BY <1>20 DEF EnsureSibling
  <2> QED
    BY <1>7, <2>1 DEF Call
<1>21. CASE AfterSibling
  <2> PICK m : m = schema.seq[Top.next]
    OBVIOUS
  <2>1. Top.pc = "sibling" /\ t \in Field /\ m \in SeqFields /\ AttrOf(t).kind = "at"
    BY <1>1, <1>2, <1>21, TopType DEF AfterSibling, At, Fits, KindFits, SeqFields
  <2>2. m \in Field /\ m \in ReadsOf[t]
    BY <1>1, <2>1 DEF ReadsOf
  <2>3. Return("error") /\ state[m] = "error"
    BY <1>7, <1>21 DEF AfterSibling
  <2> QED
    BY <1>8, <2>1, <2>2, <2>3
<1>22. CASE ReadInstance
  <2>1. Top.pc = "pos" /\ AttrOf(t).kind = "at"
    BY <1>1, <1>22 DEF ReadInstance, Evaluated, At, KindFits
  <2>2. pos \in Int /\ (Evaluated("pos") => Result \in Int)
    BY <2>1, ResultType DEF TypeOK, Evaluated
  <2>3. \E at \in Int : ReadAt(t, at, 1, ByteAt(at))
    BY <1>22, <2>2 DEF ReadInstance
  <2> QED
    BY <1>2, <1>9, <2>1, <2>3
<1> QED
  BY <1>10, <1>11, <1>12, <1>13, <1>14, <1>15, <1>16, <1>17, <1>18, <1>19, <1>20, <1>21, <1>22
     DEF Resolve

LEMMA ResolveBlames ==
    ASSUME TypeOK, TypeOK', StackDiscipline, StackDiscipline', KindFits, Answered, InProgress,
           ErrorInv, Resolve
    PROVE  ErrorInv'
<1>1. UNCHANGED schema /\ ~Idle /\ Top.node \in Node
      /\ Top = frames[Len(frames)] /\ Len(frames) \in DOMAIN frames /\ Len(frames) \in Nat \ {0}
  BY StepKeeps, TopState, TopType DEF Top
<1>2. ReadsOf' = ReadsOf /\ (Shallow' <=> Shallow)
  BY <1>1, SchemaKept DEF Shallow
<1> SUFFICES ASSUME Acyclic(ReadsOf), Shallow
             PROVE  Sound' /\ Blamed'
  BY <1>2 DEF ErrorInv, Acyclic
<1>3. Sound /\ Blamed /\ Top.node \in Node /\ state[Top.node] # "error"
  BY <1>1 DEF ErrorInv, Sound
<1>4. ASSUME NEW n \in Node, state[n] # "error", state'[n] = "error"
      PROVE  n = Top.node /\ n \in Field /\ Cause(n)'
  BY <1>3, <1>4, NewlyFailed
<1>5. Blamed'
  <2> SUFFICES ASSUME NEW n \in Node, state'[n] = "error"
               PROVE  n \in Field /\ Cause(n)'
    BY DEF Blamed
  <2>1. CASE state[n] # "error"
    BY <1>4, <2>1
  <2>2. CASE state[n] = "error"
    BY <1>3, <2>2, CauseKept DEF Blamed
  <2> QED
    BY <2>1, <2>2
<1>6. Sound'
  <2> SUFFICES ASSUME NEW k \in DOMAIN frames', state'[frames'[k].node] = "error"
               PROVE  FALSE
    BY DEF Sound
  <2> PICK n : n = frames'[k].node
    OBVIOUS
  <2>1. n \in Node
    <3>1. frames' \in Seq(Frame)
      BY DEF TypeOK
    <3>2. frames'[k] \in Frame
      BY <3>1
    <3> QED
      BY <3>2 DEF Frame
  <2>2. \A j \in DOMAIN frames : state[frames[j].node] # "error"
    BY <1>3 DEF Sound
  <2>3. CASE \E pc : Advanced(pc)
    <3>1. \E j \in DOMAIN frames : n = frames[j].node
      BY <1>1, <2>3, FramesAfter
    <3> QED
      BY <2>2, <2>3, <3>1 DEF Advanced
  <2>4. CASE \E m, pc : Called(m, pc)
    <3>1. PICK m, pc : Called(m, pc)
      BY <2>4
    <3>2. n = m \/ \E j \in DOMAIN frames : n = frames[j].node
      BY <1>1, <3>1, FramesAfter
    <3>3. state' = [state EXCEPT ![m] = "resolving"] /\ state[m] = "unresolved"
      BY <3>1 DEF Called
    <3>4. state[n] = "error"
      BY <2>1, <3>3 DEF TypeOK
    <3> QED
      BY <2>2, <3>2, <3>3, <3>4
  <2>5. CASE \E m, o : Popped(m, o)
    <3>1. k \in 1 .. Len(frames) - 1 /\ k \in DOMAIN frames /\ n = frames[k].node
      BY <1>1, <2>5, FramesAfter
    <3>2. n # Top.node
      BY <1>1, <3>1 DEF StackDiscipline, Distinct
    <3> QED
      BY <1>4, <2>1, <2>2, <3>1, <3>2
  <2>6. \/ \E pc : Advanced(pc)
        \/ \E m, pc : Called(m, pc)
        \/ \E m, o : Popped(m, o)
    BY Movements DEF Enters, Asks, Begins, Refers, Ensures, Seeks, GoesOn, Fails, Succeeds
  <2> QED
    BY <2>3, <2>4, <2>5, <2>6
<1> QED
  BY <1>5, <1>6

LEMMA AccessBlames ==
    ASSUME TypeOK, TypeOK', ErrorInv, NEW a \in Node, Access(a)
    PROVE  InProgress' /\ ErrorInv'
<1>1. /\ UNCHANGED <<schema, start, value>> /\ frames' = <<Activation(a)>>
      /\ state' = [state EXCEPT ![a] = "resolving"] /\ state[a] = "unresolved"
  BY DEF Access, stored
<1>2. \A m \in Node : (state'[m] = "error" <=> state[m] = "error") /\ (state[m] = "resolved" => state'[m] = "resolved")
  BY <1>1 DEF TypeOK
<1>3. Lasting
  BY <1>1, <1>2 DEF Lasting
<1>4. DOMAIN frames' = {1} /\ frames'[1] = Activation(a) /\ Activation(a).node = a
      /\ Activation(a).pc \in {"root", "position", "cond"} /\ Activation(a).next = 1 /\ Activation(a).acc = 0
  BY <1>1 DEF Activation, FrameOf, EntryPc
<1>5. InProgress'
  <2> PICK g : g = Activation(a)
    OBVIOUS
  <2>1. g \in Frame /\ Fits(g)'
    <3>1. g \in Frame /\ Fits(g)
      BY ActivationType
    <3> QED
      BY <1>1, <3>1 DEF Fits, SeqFields
  <2>2. Running(g)'
    BY <1>4, <2>1, FreshRuns
  <2> QED
    BY <1>4, <2>2 DEF InProgress, Running, Summed, Found
<1>6. ReadsOf' = ReadsOf /\ (Shallow' <=> Shallow)
  BY <1>1, SchemaKept DEF Shallow
<1>7. ASSUME Sound /\ Blamed
      PROVE  Sound' /\ Blamed'
  <2>1. Sound'
    BY <1>1, <1>4 DEF Sound, TypeOK
  <2>2. ASSUME NEW n \in Node, state'[n] = "error"
        PROVE  n \in Field /\ Cause(n)'
    <3>1. n \in Field /\ Cause(n)
      BY <1>2, <1>7, <2>2 DEF Blamed
    <3>2. CASE PastTheEnd(n)
      <4> PICK x, k : x = AttrOf(n).expr /\ k = AttrOf(n).kind
        OBVIOUS
      <4>1. /\ k # "value" /\ (k = "bytes" => Known(x))
            /\ start'[n] + (IF k = "bytes" THEN Sum(x) ELSE 1) > Len(schema.data)
        BY <1>1, <3>2 DEF PastTheEnd
      <4> QED
        BY <1>1, <1>3, <3>1, <4>1, ShortKept DEF Cause
    <3>3. CASE RefersToNull(n)
      BY <1>1, <1>3, <3>1, <3>3, NullKept DEF Cause
    <3>4. CASE \E m \in ReadsOf[n] : state[m] = "error"
      BY <1>2, <1>6, <3>1, <3>4, ReadsType DEF Cause
    <3> QED
      BY <3>1, <3>2, <3>3, <3>4 DEF Cause
  <2> QED
    BY <2>1, <2>2 DEF Blamed
<1> QED
  BY <1>5, <1>6, <1>7 DEF ErrorInv, Acyclic

\* Nothing failed and nobody running: nobody to blame.
LEMMA FreshBlames ==
    ASSUME Idle, \A n \in Node : state[n] = "unresolved"
    PROVE  InProgress /\ ErrorInv
BY DEF Idle, InProgress, ErrorInv, Sound, Blamed

LEMMA ErrorsKept ==
    ASSUME Dirtiable = {}, Invalidatable \subseteq {Root},
           TypeOK, TypeOK', StackDiscipline, StackDiscipline', LayoutInv, InProgress, ErrorInv, [Next]_vars
    PROVE  InProgress' /\ ErrorInv'
<1>1. CASE Resolve
  <2>1. InProgress'
    <3>1. ASSUME NEW i \in DOMAIN frames'
          PROVE  Running(frames[i])'
      <4> PICK g : g = frames'[i]
        OBVIOUS
      <4>1. Running(g)'
        BY <1>1, <3>1, ResolveRuns DEF LayoutInv
      <4> QED
        BY <4>1 DEF Running, Summed, Found
    <3> QED
      BY <3>1 DEF InProgress
  <2> QED
    BY <1>1, <2>1, ResolveBlames DEF LayoutInv
<1>2. CASE \E n \in Node : Access(n)
  BY <1>2, AccessBlames
<1>3. CASE \E n \in Invalidatable : Invalidate(n)
  <2>1. Invalidate(Root)
    BY <1>3
  <2>2. Idle' /\ \A m \in Node : state'[m] = "unresolved"
    BY <2>1 DEF Invalidate, Idle, Cleared
  <2> QED
    BY <2>2 DEF Idle, InProgress, ErrorInv, Sound, Blamed
<1>4. CASE UNCHANGED vars
  <2>1. UNCHANGED <<schema, state, value, start, frames>>
    BY <1>4 DEF vars
  <2>2. \A f : Running(f)' <=> Running(f)
    BY <2>1 DEF Running, Summed, Found, ExprAt, AttrOf
  <2>3. InProgress'
    BY <2>1, <2>2 DEF InProgress
  <2>4. ReadsOf' = ReadsOf /\ (Shallow' <=> Shallow)
    BY <2>1, SchemaKept DEF Shallow
  <2>5. \A n : Cause(n)' <=> Cause(n)
    BY <2>1, <2>4 DEF Cause, PastTheEnd, RefersToNull, Known, Sum, AttrOf
  <2> QED
    BY <2>1, <2>3, <2>4, <2>5 DEF ErrorInv, Sound, Blamed, Acyclic
<1> QED
  BY <1>1, <1>2, <1>3, <1>4 DEF Next

\* For every schema whose reads are acyclic and whose references are nested no
\* deeper than maxEvalDepth, and whatever is accessed in whatever order, a node
\* that fails does so because the input ends, because it refers to a field that
\* its if: skipped, or because a node it reads has failed (resolve.go: the
\* cycle check, the depth check, the sticky errors).
THEOREM ErrorsHaveCauses ==
    ASSUME Dirtiable = {}, Invalidatable \subseteq {Root}
    PROVE  Spec => []NoSpuriousError
<1>1. Init => LayoutInv /\ InProgress /\ ErrorInv
  <2> SUFFICES ASSUME Init
               PROVE  LayoutInv /\ InProgress /\ ErrorInv
    OBVIOUS
  <2>1. TypeOK
    BY InitType
  <2>2. SeqFields \subseteq Field /\ Idle /\ \A n \in Node : state[n] = "unresolved"
    BY <2>1, SchemaType DEF Init, Idle
  <2> QED
    BY <2>2, LayoutFresh, FreshBlames
<1>2. TypeOK /\ StackDiscipline /\ LayoutInv /\ [Next]_vars => LayoutInv'
  BY LayoutKept
<1>3. TypeOK /\ TypeOK' /\ StackDiscipline /\ StackDiscipline' /\ LayoutInv
        /\ InProgress /\ ErrorInv /\ [Next]_vars => InProgress' /\ ErrorInv'
  BY ErrorsKept
<1>4. ErrorInv => NoSpuriousError
  BY DEF ErrorInv, Blamed, Cause, NoSpuriousError
<1> QED
  BY <1>1, <1>2, <1>3, <1>4, TypeCorrect, StackSafe, PTL DEF Spec
=============================================================================
