-------------------------- MODULE SubStreamsProofs --------------------------
(***************************************************************************)
(* For all structs, schemas, inputs and any number of readings: the offset *)
(* of every node is the origin of its stream (OffsetsAreOrigins), what is  *)
(* read are the bytes the schema describes (ReadsRight), and it lies in    *)
(* the buffer (RangesRight).                                               *)
(*                                                                         *)
(* The last two need an invariant of the whole evaluation, SteadyInv.  It  *)
(* is stated against the layout of SubLayout, for the fields the schema    *)
(* still speaks of (Here) and of those for what can be read at all (Ok).   *)
(* That the layout is well defined, for no quantity depends on itself, is  *)
(* proved here too (PlacesAreDefined).                                     *)
(***************************************************************************)
EXTENDS SubLayout, SharedLemmas

StreamFields == {"data", "base", "size", "limit"}
NodeFields == {"state", "stream", "streamOffset", "startPos", "from", "to", "value"}

\* A node at home in its stream.
Rooted(n) ==
    /\ DOMAIN n = NodeFields
    /\ DOMAIN n.stream = StreamFields
    /\ n.streamOffset = n.stream.base

Pcs == {"root", "position", "siblings", "read", "walk"}
FrameType == [node : Node, pc : Pcs, awaited : Node]

\* What an activation has to know about its node to call on others.
FrameOK(f) ==
    /\ f.pc # "root" => f.node # Root
    /\ f.pc = "position" => IsSeq(f.node)

FramesOK ==
    /\ frames \in Seq(FrameType)
    /\ \A k \in 1 .. Len(frames) : FrameOK(frames[k])

\* The root itself never moves, so that SetStream may give it another stream.
AllRooted ==
    /\ DOMAIN nodes = Node
    /\ \A n \in Node : Rooted(nodes[n])
    /\ nodes[Root].streamOffset = 0

OriginInv == schema \in Schema /\ FramesOK /\ AllRooted

USE TreeAssumption, SchemasAssumption, CallersAssumption

-----------------------------------------------------------------------------
(* The tree.                                                               *)

\* Every field is one of the parts of its parent, and what comes before it in
\* the stream is a node.
LEMMA ParentIsNode ==
    ASSUME NEW m \in Field
    PROVE  Parent[m] \in Node /\ m \in Parts[Parent[m]]
<1>1. PICK n \in Node : m \in Range(Kids[n]) \cup Insts[n]
    OBVIOUS
<1>2. m \in Parts[n]
    BY <1>1 DEF Parts
<1>3. Parent[m] = CHOOSE p \in Node : m \in Parts[p]
    BY DEF Parent
<1> QED
    BY <1>2, <1>3

LEMMA PartsAreFields ==
    ASSUME NEW n \in Node
    PROVE  Parts[n] \subseteq Field
<1>1. Kids[n] \in Seq(Field) /\ Insts[n] \subseteq Field
    OBVIOUS
<1>2. Range(Kids[n]) \subseteq Field
    BY <1>1 DEF Range
<1> QED
    BY <1>1, <1>2 DEF Parts

LEMMA PredIsNode ==
    ASSUME NEW m \in Field, IsSeq(m)
    PROVE  Pred(m) \in Node
<1> DEFINE kids == Kids[Parent[m]]
<1>1. Parent[m] \in Node /\ kids \in Seq(Field)
    BY ParentIsNode
<1>2. \E k \in DOMAIN kids : kids[k] = m
    BY DEF IsSeq, Range
<1>3. SeqIndex(m) \in DOMAIN kids
    BY <1>2 DEF SeqIndex
<1>4. CASE SeqIndex(m) = 1
    BY <1>1, <1>4 DEF Pred
<1>5. CASE SeqIndex(m) # 1
  <2>1. SeqIndex(m) - 1 \in 1 .. Len(kids)
      BY <1>1, <1>3, <1>5
  <2>2. kids[SeqIndex(m) - 1] \in Field
      BY <1>1, <2>1
  <2> QED
      BY <1>5, <2>2 DEF Pred, Node
<1> QED
    BY <1>4, <1>5

LEMMA UnreadAreFields ==
    ASSUME NEW n \in Node
    PROVE  NextUnread(n) \subseteq Field
<1>1. Kids[n] \in Seq(Field)
    OBVIOUS
<1> QED
    BY <1>1 DEF NextUnread, Unread

-----------------------------------------------------------------------------
(* Nodes.                                                                  *)

LEMMA FreshRooted ==
    ASSUME NEW s, NEW off, DOMAIN s = StreamFields, off = s.base
    PROVE  Rooted(Fresh(s, off))
BY DEF Fresh, Rooted, NodeFields

LEMMA WholeIsStream ==
    ASSUME NEW data
    PROVE  DOMAIN Whole(data) = StreamFields /\ Whole(data).base = 0
BY DEF Whole, StreamFields

LEMMA AbsentRooted == Rooted(Absent)
<1>1. Rooted(Fresh(Whole(<<>>), 0))
    BY FreshRooted, WholeIsStream
<1> QED
    BY <1>1 DEF Absent, Rooted, NodeFields

LEMMA StateRooted ==
    ASSUME NEW n, Rooted(n), NEW v
    PROVE  Rooted([n EXCEPT !.state = v])
BY DEF Rooted, NodeFields

\* A window that is cut out of the stream at the position of a node begins
\* there.
LEMMA SubStreamRooted ==
    ASSUME NEW n, Rooted(n), NEW len, NEW start
    PROVE  Rooted([n EXCEPT !.stream = SubStream(@, n.startPos, len),
                            !.streamOffset = @ + n.startPos, !.startPos = start])
<1> DEFINE s == SubStream(n.stream, n.startPos, len)
<1>1. DOMAIN s = StreamFields /\ s.base = n.stream.base + n.startPos
    BY DEF SubStream, Rooted, StreamFields
<1>2. DOMAIN n = NodeFields /\ n.streamOffset = n.stream.base
    BY DEF Rooted
<1> HIDE DEF s
<1>3. Rooted([n EXCEPT !.stream = s, !.streamOffset = n.streamOffset + n.startPos,
                       !.startPos = start])
    BY <1>1, <1>2 DEF Rooted, NodeFields
<1> QED
    BY <1>3 DEF s

-----------------------------------------------------------------------------
(* The stack.                                                              *)

LEMMA TopOK ==
    ASSUME FramesOK, ~Idle
    PROVE  /\ Len(frames) \in Nat \ {0} /\ Top \in FrameType /\ FrameOK(Top) /\ This \in Node
<1>1. Len(frames) \in 1 .. Len(frames)
    BY DEF FramesOK, Idle
<1>2. frames[Len(frames)] \in FrameType /\ FrameOK(frames[Len(frames)])
    BY <1>1 DEF FramesOK
<1>3. This \in Node
    BY <1>2 DEF This, Top, FrameType
<1> QED
    BY <1>1, <1>2, <1>3 DEF Top

LEMMA ActivationOK ==
    ASSUME NEW m \in Node
    PROVE  Activation(m) \in FrameType /\ FrameOK(Activation(m))
<1> DEFINE pc == IF m = Root THEN "root" ELSE IF IsSeq(m) THEN "position" ELSE "siblings"
<1>1. /\ pc \in Pcs
      /\ pc # "root" => m # Root
      /\ pc = "position" => IsSeq(m)
    BY DEF Pcs
<1>2. Activation(m) = [node |-> m, pc |-> pc, awaited |-> m]
    BY DEF Activation, Frame
<1> HIDE DEF pc
<1> QED
    BY <1>1, <1>2 DEF FrameType, FrameOK

LEMMA PopKeeps ==
    ASSUME FramesOK, ~Idle, frames' = SubSeq(frames, 1, Len(frames) - 1)
    PROVE  FramesOK'
<1> DEFINE l == Len(frames) - 1
<1>1. l \in Nat /\ l < Len(frames) /\ \A k \in 1 .. l : frames[k] \in FrameType
    BY TopOK DEF FramesOK
<1>2. \A k \in 1 .. l : FrameOK(frames[k])
    BY <1>1 DEF FramesOK
<1>3. frames' = SubSeq(frames, 1, l)
    OBVIOUS
<1> HIDE DEF l
<1>4. /\ frames' \in Seq(FrameType)
      /\ Len(frames') = IF 1 <= l THEN l - 1 + 1 ELSE 0
      /\ \A k \in 1 .. l - 1 + 1 : frames'[k] = frames[1 + k - 1]
    BY <1>1, <1>3, SubSeqProperties
<1>5. Len(frames') = l /\ \A k \in 1 .. l : k \in 1 .. l - 1 + 1 /\ 1 + k - 1 = k
    BY <1>1, <1>4
<1>6. \A k \in 1 .. l : frames'[k] = frames[k]
    BY <1>4, <1>5
<1>7. \A k \in 1 .. Len(frames') : FrameOK(frames'[k])
    BY <1>2, <1>5, <1>6
<1> QED
    BY <1>4, <1>7 DEF FramesOK, FrameOK, IsSeq

\* The running activation goes on elsewhere.
LEMMA MoveKeeps ==
    ASSUME FramesOK, ~Idle, NEW f \in FrameType, FrameOK(f)
    PROVE  LET moved == [frames EXCEPT ![Len(frames)] = f] IN
           /\ moved \in Seq(FrameType) /\ Len(moved) = Len(frames)
           /\ \A k \in 1 .. Len(moved) : FrameOK(moved[k])
<1>1. frames \in Seq(FrameType) /\ Len(frames) \in Nat \ {0}
    BY TopOK DEF FramesOK
<1> DEFINE moved == [frames EXCEPT ![Len(frames)] = f]
<1>2. moved \in Seq(FrameType) /\ Len(moved) = Len(frames)
    BY <1>1
<1>3. \A k \in 1 .. Len(frames) : moved[k] = IF k = Len(frames) THEN f ELSE frames[k]
    BY <1>1
<1>4. \A k \in 1 .. Len(frames) : FrameOK(moved[k])
  <2> SUFFICES ASSUME NEW k \in 1 .. Len(frames)
               PROVE  FrameOK(moved[k])
      OBVIOUS
  <2>1. moved[k] = f \/ moved[k] = frames[k]
      BY <1>3
  <2>2. FrameOK(frames[k])
      BY DEF FramesOK
  <2> QED
      BY <2>1, <2>2
<1> QED
    BY <1>2, <1>4

LEMMA GotoKeeps ==
    ASSUME FramesOK, ~Idle, This # Root, NEW pc \in {"read", "walk"}, Goto(pc)
    PROVE  FramesOK'
<1>1. Frame(This, pc, This) \in FrameType /\ FrameOK(Frame(This, pc, This))
    BY TopOK DEF Frame, FrameType, FrameOK, Pcs
<1> QED
    BY <1>1, MoveKeeps DEF Goto, FramesOK, FrameOK, IsSeq

LEMMA CallKeeps ==
    ASSUME OriginInv, ~Idle, NEW m \in Node, NEW pc \in Pcs, Call(m, pc),
           This # Root, pc = "position" => IsSeq(This)
    PROVE  FramesOK' /\ AllRooted'
<1> DEFINE f == Frame(This, pc, m)
           moved == [frames EXCEPT ![Len(frames)] = f]
<1>1. f \in FrameType /\ FrameOK(f)
    BY TopOK DEF OriginInv, Frame, FrameType, FrameOK
<1>2. /\ moved \in Seq(FrameType)
      /\ \A k \in 1 .. Len(moved) : FrameOK(moved[k])
    BY <1>1, MoveKeeps DEF OriginInv
<1>3. frames' = Append(moved, Activation(m))
    BY DEF Call
<1> HIDE DEF moved
<1>4. /\ frames' \in Seq(FrameType) /\ Len(frames') = Len(moved) + 1
      /\ \A k \in 1 .. Len(moved) : frames'[k] = moved[k]
      /\ frames'[Len(moved) + 1] = Activation(m)
    BY <1>2, <1>3, ActivationOK
<1>5. \A k \in 1 .. Len(frames') : FrameOK(frames'[k])
  <2> SUFFICES ASSUME NEW k \in 1 .. Len(frames')
               PROVE  FrameOK(frames'[k])
      OBVIOUS
  <2>1. k \in 1 .. Len(moved) \/ k = Len(moved) + 1
      BY <1>2, <1>4
  <2> QED
      BY <2>1, <1>2, <1>4, ActivationOK
<1>6. FramesOK'
    BY <1>4, <1>5 DEF FramesOK, FrameOK, IsSeq
<1>7. AllRooted'
    BY StateRooted DEF OriginInv, AllRooted, Call, Resolving, Rooted, NodeFields, StreamFields
<1> QED
    BY <1>6, <1>7

LEMMA ReturnKeeps ==
    ASSUME OriginInv, ~Idle, NEW result, Rooted(result), Return(result),
           This = Root => result.streamOffset = 0
    PROVE  FramesOK' /\ AllRooted'
<1>1. FramesOK'
    BY PopKeeps DEF OriginInv, Return
<1>2. AllRooted'
    BY DEF OriginInv, AllRooted, Return, Rooted
<1> QED
    BY <1>1, <1>2

\* The parts of a struct get the struct's own stream and its origin.
LEMMA BuildKeeps ==
    ASSUME OriginInv, This \in Node \ {Root}, NEW n, Rooted(n), nodes' = Build(n)
    PROVE  AllRooted'
<1>1. Rooted(Fresh(n.stream, n.streamOffset))
    BY FreshRooted DEF Rooted
<1>2. nodes'[Root] = nodes[Root] \/ nodes'[Root] = Absent
    BY PartsAreFields DEF Build, BuildFrom, Node
<1>3. Absent.streamOffset = 0
    BY DEF Absent, Fresh
<1> QED
    BY <1>1, <1>2, <1>3, AbsentRooted DEF OriginInv, AllRooted, Build, BuildFrom, Rooted

LEMMA FailKeeps ==
    ASSUME OriginInv, ~Idle, Fail
    PROVE  FramesOK' /\ AllRooted'
<1> DEFINE result == [nodes[This] EXCEPT !.state = "error"]
<1>1. Rooted(result) /\ result.streamOffset = nodes[This].streamOffset
    BY TopOK, StateRooted DEF OriginInv, AllRooted, Rooted, NodeFields
<1> QED
    BY <1>1, ReturnKeeps DEF Fail, OriginInv, AllRooted

-----------------------------------------------------------------------------
(* The steps of resolve.                                                   *)

LEMMA LeafKeeps ==
    ASSUME OriginInv, This # Root, ReadLeaf
    PROVE  FramesOK' /\ AllRooted'
<1> DEFINE n == nodes[This]
           len == IF schema.kind[This] = "u1" THEN 1 ELSE SizeOf(This)
           own == schema.kind[This] = "bytes" /\ ~IsSeq(This)
           moved == IF own THEN [n EXCEPT !.stream = SubStream(@, n.startPos, len),
                                          !.streamOffset = @ + n.startPos, !.startPos = 0]
                    ELSE n
           result == IF CanRead(moved.stream, moved.startPos, len)
                     THEN [moved EXCEPT !.state = "resolved", !.from = moved.startPos,
                                        !.to = moved.startPos + len,
                                        !.value = Bytes(moved.stream, moved.startPos, len)]
                     ELSE [moved EXCEPT !.state = "error"]
<1>1. ~Idle /\ Return(result)
    BY DEF ReadLeaf, Running, At
<1>2. Rooted(n)
    BY <1>1, TopOK DEF OriginInv, AllRooted
<1> HIDE DEF n, len, own
<1>3. Rooted(moved)
    BY <1>2, SubStreamRooted
<1> HIDE DEF moved
<1>4. Rooted(result)
    BY <1>3 DEF Rooted, NodeFields
<1> HIDE DEF result
<1> QED
    BY <1>1, <1>4, ReturnKeeps

LEMMA StructKeeps ==
    ASSUME OriginInv, This # Root, ReadStruct
    PROVE  FramesOK' /\ AllRooted'
<1> DEFINE n == nodes[This]
           done(entered, to) == [entered EXCEPT !.state = "resolved", !.from = n.startPos, !.to = to]
<1>1. ~Idle /\ Rooted(n) /\ This \in Node
    BY TopOK DEF OriginInv, AllRooted, ReadStruct, Running, At
<1>2. \A to : Rooted(done(n, to))
    BY <1>1 DEF Rooted, NodeFields
<1>3. \A len, to : Rooted(done(Entered(n, len), to))
  <2> SUFFICES ASSUME NEW len, NEW to
               PROVE  Rooted(done(Entered(n, len), to))
      OBVIOUS
  <2>1. Rooted(Entered(n, len))
      BY <1>1, SubStreamRooted DEF Entered
  <2> HIDE DEF n
  <2> QED
      BY <2>1 DEF Rooted, NodeFields
<1>4. CASE Fail
    BY <1>1, <1>4, FailKeeps
<1>5. ASSUME NEW len, NEW to, nodes' = Build(done(Entered(n, len), to)),
             frames' = SubSeq(frames, 1, Len(frames) - 1)
      PROVE  FramesOK' /\ AllRooted'
    BY <1>1, <1>3, <1>5, BuildKeeps, PopKeeps DEF OriginInv
<1>6. ASSUME NEW to, nodes' = Build(done(n, to)),
             frames' = SubSeq(frames, 1, Len(frames) - 1) \/ Goto("walk")
      PROVE  FramesOK' /\ AllRooted'
    BY <1>1, <1>2, <1>6, BuildKeeps, PopKeeps, GotoKeeps DEF OriginInv
<1> QED
    BY <1>4, <1>5, <1>6 DEF ReadStruct

LEMMA ResolveKeeps ==
    ASSUME OriginInv, Resolve
    PROVE  FramesOK' /\ AllRooted'
<1>1. ~Idle /\ This \in Node /\ Rooted(nodes[This]) /\ FrameOK(Top)
    BY TopOK DEF Resolve, ResolveRoot, FindPosition, EnsureSiblings, EvaluateSize, ReadLeaf,
       ReadStruct, Walk, AwaitedFails, Awaited, Running, At, OriginInv, AllRooted
<1> DEFINE moves == FindPosition \/ EnsureSiblings \/ EvaluateSize \/ ReadLeaf \/ ReadStruct \/ Walk
<1>below. moves => This # Root
    BY <1>1 DEF FindPosition, EnsureSiblings, EvaluateSize, ReadLeaf, ReadStruct, Walk,
       Running, At, FrameOK, This
<1>2. CASE ResolveRoot
  <2> DEFINE result == [nodes[Root] EXCEPT !.state = "resolved", !.startPos = 0, !.from = 0, !.to = 0]
  <2>1. Rooted(result) /\ Return(result) /\ result.streamOffset = 0
      BY <1>2 DEF ResolveRoot, OriginInv, AllRooted, Rooted, NodeFields, Node
  <2> HIDE DEF result
  <2> QED
      BY <1>1, <2>1, ReturnKeeps
<1>3. CASE FindPosition
  <2>1. Pred(This) \in Node /\ This # Root /\ IsSeq(This)
      BY <1>1, <1>3, <1>below, PredIsNode DEF FindPosition, Running, At, FrameOK, This, Node
  <2>2. CASE Call(Pred(This), "position")
      BY <1>1, <2>1, <2>2, CallKeeps DEF Pcs
  <2>3. ASSUME NEW start, nodes' = [nodes EXCEPT ![This].startPos = start], Goto("read")
        PROVE  FramesOK' /\ AllRooted'
    <3>1. FramesOK'
        BY <1>1, <2>1, <2>3, GotoKeeps DEF OriginInv
    <3>2. AllRooted'
        BY <1>1, <2>3 DEF OriginInv, AllRooted, Rooted, NodeFields
    <3> QED
        BY <3>1, <3>2
  <2> QED
      BY <1>3, <2>2, <2>3 DEF FindPosition
<1>4. CASE EnsureSiblings
  <2>1. This \in Field /\ This # Root
      BY <1>1, <1>4, <1>below DEF Node
  <2>2. NextUnread(Parent[This]) \subseteq Node
      BY <2>1, ParentIsNode, UnreadAreFields DEF Node
  <2>3. ASSUME NEW m \in NextUnread(Parent[This]), Call(m, "siblings")
        PROVE  FramesOK' /\ AllRooted'
      BY <1>1, <2>1, <2>2, <2>3, CallKeeps DEF Pcs
  <2>4. ASSUME NEW start, nodes' = [nodes EXCEPT ![This].startPos = start], Goto("read")
        PROVE  FramesOK' /\ AllRooted'
    <3>1. FramesOK'
        BY <1>1, <2>1, <2>4, GotoKeeps DEF OriginInv
    <3>2. AllRooted'
        BY <1>1, <2>4 DEF OriginInv, AllRooted, Rooted, NodeFields
    <3> QED
        BY <3>1, <3>2
  <2> QED
      BY <1>4, <2>3, <2>4 DEF EnsureSiblings
<1>5. CASE EvaluateSize
  <2>1. schema.size[This].of \in Node
      BY <1>1 DEF OriginInv, Schema, Size
  <2>2. CASE Call(schema.size[This].of, "read")
      BY <1>1, <1>5, <1>below, <2>1, <2>2, CallKeeps DEF Pcs
  <2>3. CASE Fail
      BY <1>1, <2>3, FailKeeps
  <2> QED
      BY <1>5, <2>2, <2>3 DEF EvaluateSize
<1>6. CASE ReadLeaf
    BY <1>6, <1>below, LeafKeeps
<1>7. CASE ReadStruct
    BY <1>7, <1>below, StructKeeps
<1>8. CASE Walk
  <2>1. NextUnread(This) \subseteq Node
      BY <1>1, UnreadAreFields DEF Node
  <2>2. ASSUME NEW m \in NextUnread(This), Call(m, "walk")
        PROVE  FramesOK' /\ AllRooted'
      BY <1>1, <1>8, <1>below, <2>1, <2>2, CallKeeps DEF Pcs
  <2>3. ASSUME NEW to, Return([nodes[This] EXCEPT !.to = to])
        PROVE  FramesOK' /\ AllRooted'
    <3>1. Rooted([nodes[This] EXCEPT !.to = to])
        BY <1>1 DEF Rooted, NodeFields
    <3> QED
        BY <1>1, <1>8, <1>below, <2>3, <3>1, ReturnKeeps
  <2> QED
      BY <1>8, <2>2, <2>3 DEF Walk
<1>9. CASE AwaitedFails
    BY <1>1, <1>9, FailKeeps DEF AwaitedFails
<1> QED
    BY <1>2, <1>3, <1>4, <1>5, <1>6, <1>7, <1>8, <1>9 DEF Resolve

-----------------------------------------------------------------------------
(* Callers, and the theorem.                                               *)

LEMMA InvalidatedRooted ==
    ASSUME AllRooted, NEW n \in Node
    PROVE  /\ DOMAIN Invalidated(n) = Node
           /\ \A m \in Node : /\ Rooted(Invalidated(n)[m])
                              /\ Invalidated(n)[m].streamOffset = nodes[m].streamOffset
<1>1. \A m \in Node : Rooted(Cleared(nodes[m])) /\ Cleared(nodes[m]).streamOffset = nodes[m].streamOffset
  <2> SUFFICES ASSUME NEW m \in Node
               PROVE  /\ Rooted(Cleared(nodes[m]))
                      /\ Cleared(nodes[m]).streamOffset = nodes[m].streamOffset
      OBVIOUS
  <2> DEFINE x == nodes[m]
  <2>1. Rooted(x)
      BY DEF AllRooted
  <2> HIDE DEF x
  <2>2. Rooted(Cleared(x)) /\ Cleared(x).streamOffset = x.streamOffset
      BY <2>1 DEF Cleared, Rooted, NodeFields
  <2> QED
      BY <2>2 DEF x
<1> QED
    BY <1>1 DEF Invalidated, AllRooted

LEMMA InitOrigin == Init => OriginInv
<1> SUFFICES ASSUME Init
             PROVE  OriginInv
    OBVIOUS
<1> DEFINE fresh == Fresh(Whole(schema.data), 0)
<1>1. Rooted(fresh) /\ fresh.streamOffset = 0
    BY FreshRooted, WholeIsStream DEF Fresh
<1>2. /\ nodes = [n \in Node |-> IF n \in {Root} \cup Parts[Root] THEN fresh ELSE Absent]
      /\ Root \in Node
    BY DEF Init, Node
<1> HIDE DEF fresh
<1>3. AllRooted
    BY <1>1, <1>2, AbsentRooted DEF AllRooted
<1> QED
    BY <1>3 DEF Init, OriginInv, FramesOK

LEMMA NextOrigin == OriginInv /\ [Next]_vars => OriginInv'
<1> SUFFICES ASSUME OriginInv, [Next]_vars
             PROVE  OriginInv'
    OBVIOUS
<1>1. CASE Resolve /\ UNCHANGED <<schema, reread, replaced>>
    BY <1>1, ResolveKeeps DEF OriginInv
<1>2. ASSUME NEW n \in Node, Access(n)
      PROVE  OriginInv'
  <2>1. frames' = <<Activation(n)>> /\ schema' = schema
      BY <1>2 DEF Access
  <2>2. FramesOK'
      BY <2>1, ActivationOK DEF FramesOK, FrameOK, IsSeq
  <2>3. AllRooted'
      BY <1>2 DEF Access, Resolving, OriginInv, AllRooted, Rooted, NodeFields
  <2> QED
      BY <2>1, <2>2, <2>3 DEF OriginInv
<1>3. ASSUME NEW n \in Invalidatable, Invalidate(n)
      PROVE  OriginInv'
  <2>1. FramesOK' /\ schema' = schema
      BY <1>3 DEF Invalidate, OriginInv, FramesOK, FrameOK, IsSeq
  <2>2. AllRooted'
      BY <1>3, InvalidatedRooted DEF Invalidate, OriginInv, AllRooted, Rooted, Node
  <2> QED
      BY <2>1, <2>2 DEF OriginInv
<1>4. ASSUME NEW data \in Inputs, SetStream(data)
      PROVE  OriginInv'
  <2>1. schema' \in Schema
      BY <1>4 DEF SetStream, OriginInv, Schema
  <2>2. FramesOK'
      BY <1>4 DEF SetStream, OriginInv, FramesOK, FrameOK, IsSeq
  <2>3. AllRooted'
    <3> DEFINE inv == Invalidated(Root)
               w == Whole(data)
    <3>1. /\ DOMAIN inv = Node /\ \A m \in Node : Rooted(inv[m])
          /\ Root \in Node /\ inv[Root].streamOffset = 0
        BY InvalidatedRooted DEF OriginInv, AllRooted, Node
    <3>2. DOMAIN w = StreamFields /\ w.base = 0
        BY WholeIsStream
    <3>3. nodes' = [inv EXCEPT ![Root].stream = w]
        BY <1>4 DEF SetStream
    <3> HIDE DEF inv, w
    <3> QED
        BY <3>1, <3>2, <3>3 DEF AllRooted, Rooted, NodeFields
  <2> QED
      BY <2>1, <2>2, <2>3 DEF OriginInv
<1>5. CASE UNCHANGED vars
    BY <1>5 DEF vars, OriginInv, AllRooted, Rooted, FramesOK, FrameOK, IsSeq
<1> QED
    BY <1>1, <1>2, <1>3, <1>4, <1>5 DEF Next

\* For every tree of structs, every schema and input, and any number of readings,
\* invalidations and calls of SetStream: the offset that ByteRange adds is the
\* origin of the stream that the node is read from.
THEOREM OffsetsAreOrigins == Spec => []OffsetIsOrigin
<1>1. OriginInv => OffsetIsOrigin
    BY DEF OriginInv, AllRooted, Rooted, OffsetIsOrigin
<1> QED
    BY <1>1, InitOrigin, NextOrigin, PTL DEF Spec

-----------------------------------------------------------------------------
(* The tree: what is below what.                                           *)

LEMMA BelowSelf == \A n \in Node : n \in Below[n] /\ Below[n] \subseteq Node
BY DEF Below

LEMMA BelowParts ==
    ASSUME NEW n \in Node, NEW k \in Below[n], NEW m \in Parts[k]
    PROVE  m \in Below[n] /\ m \in Field
<1>1. k \in Node
    BY DEF Below
<1>2. m \in Field /\ m \in Node
    BY <1>1, PartsAreFields DEF Node
<1>3. ASSUME NEW S \in SUBSET Node, n \in S, \A j \in S : Parts[j] \subseteq S
      PROVE  m \in S
  <2>1. k \in S
      BY <1>3 DEF Below
  <2> QED
      BY <1>3, <2>1
<1> QED
    BY <1>2, <1>3 DEF Below

LEMMA BelowLeast ==
    ASSUME NEW n \in Node, NEW S, n \in S,
           \A k \in S \cap Node : Parts[k] \subseteq S
    PROVE  Below[n] \subseteq S
<1> DEFINE T == S \cap Node
<1>1. T \in SUBSET Node /\ n \in T
    OBVIOUS
<1>2. \A k \in T : Parts[k] \subseteq T
    BY PartsAreFields DEF Node
<1>3. \A m \in Below[n] : m \in T
  <2> HIDE DEF T
  <2> QED
    BY <1>1, <1>2 DEF Below
<1> QED
    BY <1>3

LEMMA ParentUnique ==
    ASSUME NEW n \in Node, NEW m \in Parts[n]
    PROVE  m \in Field /\ Parent[m] = n
<1>1. m \in Field
    BY PartsAreFields
<1>2. Parent[m] \in Node /\ m \in Parts[Parent[m]]
    BY <1>1, ParentIsNode
<1> QED
    BY <1>1, <1>2, TreeIsFinite

LEMMA RootNotBelow == \A m \in Field : Root \notin Below[m]
<1> SUFFICES ASSUME NEW m \in Field, Root \in Below[m]
             PROVE  FALSE
    OBVIOUS
<1>0. m \in Node /\ m # Root /\ Root \in Node /\ m \in Below[m]
    BY TreeAssumption, BelowSelf DEF Node
<1> DEFINE S == Below[m] \ {Root}
<1>1. m \in S /\ \A k \in S \cap Node : Parts[k] \subseteq S
    BY <1>0, BelowParts, TreeAssumption
<1> HIDE DEF S
<1>2. Below[m] \subseteq S
    BY <1>0, <1>1, BelowLeast
<1> QED
    BY <1>2 DEF S

\* What is below a node but not the node itself has its parent there.
LEMMA BelowUp ==
    ASSUME NEW n \in Node, NEW m \in Below[n], m # n
    PROVE  m \in Field /\ Parent[m] \in Below[n]
<1> DEFINE S == {n} \cup {k \in Below[n] : k \in Field /\ Parent[k] \in Below[n]}
<1>1. \A k \in S \cap Node : Parts[k] \subseteq S
  <2> SUFFICES ASSUME NEW k \in S, NEW j \in Parts[k]
               PROVE  j \in S
      OBVIOUS
  <2>1. k \in Below[n] /\ k \in Node
      BY BelowSelf
  <2> QED
      BY <2>1, BelowParts, ParentUnique
<1>2. n \in S
    OBVIOUS
<1>3. Below[n] \subseteq S
  <2> HIDE DEF S
  <2> QED
    BY <1>1, <1>2, BelowLeast
<1> QED
    BY <1>3

LEMMA BelowTrans ==
    ASSUME NEW n \in Node, NEW m \in Below[n]
    PROVE  m \in Node /\ Below[m] \subseteq Below[n]
<1>1. m \in Node
    BY BelowSelf
<1>2. \A k \in Below[n] \cap Node : Parts[k] \subseteq Below[n]
    BY BelowParts
<1>3. Below[m] \subseteq Below[n]
    BY <1>1, <1>2, BelowLeast
<1> QED
    BY <1>1, <1>3

LEMMA NoCycle ==
    ASSUME NEW m \in Field
    PROVE  Parent[m] \notin Below[m]
<1> SUFFICES ASSUME Parent[m] \in Below[m]
             PROVE  FALSE
    OBVIOUS
<1>0. m \in Node /\ Root \in Node /\ Root \notin Below[m]
    BY RootNotBelow DEF Node
<1> DEFINE S == Node \ Below[m]
<1>1. \A k \in S \cap Node : Parts[k] \subseteq S
  <2> SUFFICES ASSUME NEW k \in S, NEW j \in Parts[k], j \in Below[m]
               PROVE  FALSE
      BY PartsAreFields DEF Node
  <2>1. j \in Field /\ Parent[j] = k
      BY ParentUnique
  <2>2. j # m
      BY <2>1
  <2> QED
      BY <1>0, <2>1, <2>2, BelowUp
<1>2. Below[Root] \subseteq S
    BY <1>0, <1>1, BelowLeast
<1> QED
    BY <1>0, <1>2, BelowSelf, TreeIsFinite

\* The parts of a node have nothing in common.
LEMMA PartsApart ==
    ASSUME NEW a \in Field, NEW c \in Field, a # c, Parent[a] = Parent[c]
    PROVE  Below[a] \cap Below[c] = {}
<1> DEFINE S == Below[a] \ Below[c]
<1>0. a \in Node /\ c \in Node
    BY DEF Node
<1>1. a \in S
    BY <1>0, BelowSelf, BelowUp, NoCycle
<1>2. \A k \in S \cap Node : Parts[k] \subseteq S
  <2> SUFFICES ASSUME NEW k \in S, NEW j \in Parts[k]
               PROVE  j \in S
      OBVIOUS
  <2>1. j \in Below[a] /\ j \in Field /\ Parent[j] = k
      BY <1>0, BelowSelf, BelowParts, ParentUnique
  <2>2. j \notin Below[c]
      BY <1>0, <2>1, BelowUp, NoCycle
  <2> QED
      BY <2>1, <2>2
<1>3. Below[a] \subseteq S
  <2> HIDE DEF S
  <2> QED
    BY <1>0, <1>1, <1>2, BelowLeast
<1> QED
    BY <1>3

LEMMA TopDown ==
    ASSUME NEW T, Root \in T, \A n \in T \cap Node : Parts[n] \subseteq T
    PROVE  Node \subseteq T
<1>1. Root \in Node
    BY DEF Node
<1> QED
    BY <1>1, BelowLeast, TreeIsFinite

LEMMA BottomUp ==
    ASSUME NEW T, \A n \in Node : Parts[n] \subseteq T => n \in T
    PROVE  Node \subseteq T
<1> SUFFICES ASSUME NEW d \in Node \ T
             PROVE  FALSE
    OBVIOUS
<1> DEFINE B == {Below[n] : n \in Node \ T}
<1>1. IsFiniteSet(Node)
    BY TreeIsFinite, FS_AddElement DEF Node
<1>2. B \subseteq SUBSET Node /\ B # {}
    BY BelowSelf
<1>3. PICK x \in B : \A y \in B : y \subseteq x => y = x
  <2> HIDE DEF B
  <2> QED
    BY <1>1, <1>2, LeastSet
<1>4. PICK n \in Node \ T : x = Below[n]
    OBVIOUS
<1>5. PICK m \in Parts[n] : m \notin T
    BY <1>4
<1>6. m \in Node /\ m \in Below[n] /\ m \in Field /\ Parent[m] = n
    BY BelowParts, BelowSelf, ParentUnique DEF Node
<1>7. Below[m] \in B /\ Below[m] \subseteq x
    BY <1>4, <1>5, <1>6, BelowTrans
<1>8. n \in Below[m]
    BY <1>3, <1>4, <1>7, BelowSelf
<1> QED
    BY <1>6, <1>8, NoCycle

-----------------------------------------------------------------------------
(* The fields of a struct in their order.                                  *)

LEMMA KidFacts ==
    ASSUME NEW n \in Node, NEW k \in DOMAIN Kids[n]
    PROVE  /\ k \in Nat /\ k >= 1 /\ k <= Len(Kids[n])
           /\ Kids[n][k] \in Field /\ Kids[n][k] \in Parts[n] /\ Kids[n][k] \in Node
           /\ Parent[Kids[n][k]] = n /\ IsSeq(Kids[n][k]) /\ SeqIndex(Kids[n][k]) = k
<1> DEFINE m == Kids[n][k]
<1>1. Kids[n] \in Seq(Field)
    BY TreeAssumption
<1>2. m \in Range(Kids[n])
    BY DEF Range
<1>3. m \in Parts[n]
    BY <1>2 DEF Parts
<1>4. m \in Field /\ Parent[m] = n /\ m # Root
    BY <1>3, ParentUnique, TreeAssumption
<1>5. IsSeq(m)
    BY <1>2, <1>4 DEF IsSeq
<1>6. SeqIndex(m) = k
    BY <1>4, TreeIsFinite DEF SeqIndex
<1> QED
    BY <1>1, <1>3, <1>4, <1>5, <1>6 DEF Node

LEMMA SeqFacts ==
    ASSUME NEW m \in Field, IsSeq(m)
    PROVE  /\ Parent[m] \in Node /\ SeqIndex(m) \in DOMAIN Kids[Parent[m]]
           /\ Kids[Parent[m]][SeqIndex(m)] = m
           /\ SeqIndex(m) \in Nat /\ SeqIndex(m) >= 1 /\ SeqIndex(m) <= Len(Kids[Parent[m]])
           /\ Len(Kids[Parent[m]]) \in Nat /\ DOMAIN Kids[Parent[m]] = 1 .. Len(Kids[Parent[m]])
<1>1. Parent[m] \in Node /\ m \in Range(Kids[Parent[m]])
    BY ParentIsNode DEF IsSeq
<1>2. PICK k \in DOMAIN Kids[Parent[m]] : Kids[Parent[m]][k] = m
    BY <1>1 DEF Range
<1>3. SeqIndex(m) = k
    BY <1>1, <1>2, KidFacts
<1>4. Kids[Parent[m]] \in Seq(Field)
    BY <1>1, TreeAssumption
<1> QED
    BY <1>1, <1>2, <1>3, <1>4, KidFacts

LEMMA BeforeFacts ==
    ASSUME NEW m \in Field, NEW g \in Before(m)
    PROVE  /\ IsSeq(m) /\ g \in Field /\ g \in Node /\ IsSeq(g) /\ Parent[g] = Parent[m] /\ g # m
           /\ SeqIndex(g) < SeqIndex(m) /\ Before(g) \subseteq Before(m)
<1>1. IsSeq(m)
    BY DEF Before
<1>2. PICK k \in 1 .. SeqIndex(m) - 1 : g = Kids[Parent[m]][k]
    BY <1>1 DEF Before
<1>3. Parent[m] \in Node /\ k \in DOMAIN Kids[Parent[m]] /\ k < SeqIndex(m) /\ SeqIndex(m) \in Nat
    BY <1>1, <1>2, SeqFacts
<1>4. /\ g \in Field /\ g \in Node /\ IsSeq(g) /\ Parent[g] = Parent[m] /\ SeqIndex(g) = k
    BY <1>2, <1>3, KidFacts
<1>5. Before(g) \subseteq Before(m)
  <2>1. 1 .. k - 1 \subseteq 1 .. SeqIndex(m) - 1
      BY <1>2, <1>3
  <2> QED
      BY <2>1, <1>1, <1>4 DEF Before
<1> QED
    BY <1>1, <1>3, <1>4, <1>5

\* All fields of a struct with a lower index are before one.
LEMMA BeforeIndex ==
    ASSUME NEW m \in Field, NEW g \in Field, IsSeq(m), IsSeq(g), Parent[g] = Parent[m],
           SeqIndex(g) < SeqIndex(m)
    PROVE  g \in Before(m)
<1>1. SeqIndex(g) \in 1 .. SeqIndex(m) - 1 /\ Kids[Parent[m]][SeqIndex(g)] = g
    BY SeqFacts
<1> QED
    BY <1>1 DEF Before

LEMMA PredFacts ==
    ASSUME NEW m \in Field, IsSeq(m)
    PROVE  \/ SeqIndex(m) = 1 /\ Pred(m) = Parent[m] /\ Before(m) = {}
           \/ /\ SeqIndex(m) # 1 /\ Pred(m) \in Before(m) /\ SeqIndex(Pred(m)) = SeqIndex(m) - 1
              /\ Before(m) = Before(Pred(m)) \cup {Pred(m)}
<1>1. CASE SeqIndex(m) = 1
  <2>1. 1 .. SeqIndex(m) - 1 = {}
      BY <1>1
  <2> QED
      BY <1>1, <2>1 DEF Pred, Before
<1>2. CASE SeqIndex(m) # 1
  <2> DEFINE k == SeqIndex(m) - 1
             q == Kids[Parent[m]][k]
  <2>1. k \in 1 .. SeqIndex(m) - 1 /\ k \in DOMAIN Kids[Parent[m]] /\ Parent[m] \in Node
      BY <1>2, SeqFacts
  <2>2. Pred(m) = q /\ q \in Before(m)
      BY <1>2, <2>1 DEF Pred, Before
  <2>3. SeqIndex(q) = k /\ IsSeq(q) /\ Parent[q] = Parent[m]
      BY <2>1, KidFacts
  <2>4. 1 .. SeqIndex(m) - 1 = (1 .. k - 1) \cup {k}
      BY <2>1, SeqFacts
  <2>5. Before(m) = {Kids[Parent[m]][j] : j \in 1 .. SeqIndex(m) - 1}
      BY DEF Before
  <2>6. Before(q) = {Kids[Parent[m]][j] : j \in 1 .. k - 1}
      BY <2>3 DEF Before
  <2>7. Before(m) = Before(q) \cup {q}
      BY <2>4, <2>5, <2>6
  <2> QED
      BY <1>2, <2>2, <2>3, <2>7
<1> QED
    BY <1>1, <1>2

LEMMA NotRoot ==
    ASSUME NEW m \in Field
    PROVE  m # Root /\ m \in Node /\ Root \in Node /\ Parent[m] \in Node /\ Parent[m] # m
<1> QED
    BY TreeAssumption, ParentIsNode, NoCycle, BelowSelf DEF Node

\* What is around a field but not the field itself is around its parent.
LEMMA AroundParent ==
    ASSUME NEW m \in Field, NEW n \in Node, m \in Below[n]
    PROVE  m = n \/ Parent[m] \in Below[n]
BY BelowUp

-----------------------------------------------------------------------------
(* The fields after a node: those that start where it or a struct around   *)
(* it ends, and what is below them.                                        *)

After(n) == {x \in Field : \E a, b \in Field : n \in Below[a] /\ a \in Before(b) /\ x \in Below[b]}

LEMMA AfterSource ==
    ASSUME NEW n \in Node, NEW x \in Field, x \notin After(n), NEW b \in Field, x \in Below[b],
           NEW m \in Before(b)
    PROVE  m \notin After(n)
<1> SUFFICES ASSUME m \in After(n)
             PROVE  FALSE
    OBVIOUS
<1>1. PICK a \in Field, c \in Field : n \in Below[a] /\ a \in Before(c) /\ m \in Below[c]
    BY DEF After
<1>2. IsSeq(b) /\ Parent[m] = Parent[b] /\ Before(m) \subseteq Before(b) /\ c \in Node /\ b \in Node
    BY BeforeFacts, NotRoot
<1>3. CASE m = c
    BY <1>1, <1>2, <1>3 DEF After
<1>4. CASE Parent[m] \in Below[c]
  <2>1. b \in Parts[Parent[b]]
      BY ParentIsNode
  <2>2. b \in Below[c]
      BY <1>2, <1>4, <2>1, BelowParts
  <2>3. x \in Below[c]
      BY <1>2, <2>2, BelowTrans
  <2> QED
      BY <1>1, <2>3 DEF After
<1> QED
    BY <1>1, <1>2, <1>3, <1>4, AroundParent, BeforeFacts

LEMMA AfterKid ==
    ASSUME NEW n \in Node, NEW x \in Field, x \notin After(n) \/ x = n, x = n \/ n \notin Below[x],
           NEW m \in Field, Parent[m] = x
    PROVE  m \notin After(n)
<1> SUFFICES ASSUME m \in After(n)
             PROVE  FALSE
    OBVIOUS
<1>1. PICK a \in Field, c \in Field : n \in Below[a] /\ a \in Before(c) /\ m \in Below[c]
    BY DEF After
<1>2. /\ c \in Node /\ a \in Node /\ x \in Node
      /\ Parent[a] = Parent[c] /\ a # c /\ Below[a] \cap Below[c] = {}
    BY <1>1, NotRoot, BeforeFacts, PartsApart
<1>3. CASE m = c
  <2>1. a \in Below[x]
      BY <1>2, <1>3, ParentIsNode, BelowParts, BelowSelf
  <2>2. n \in Below[x]
      BY <1>1, <1>2, <2>1, BelowTrans
  <2> QED
      BY <1>1, <1>2, <1>3, <2>2, NoCycle
<1>4. CASE x \in Below[c]
    BY <1>1, <1>2, <1>4 DEF After
<1> QED
    BY <1>1, <1>2, <1>3, <1>4, AroundParent

\* The field after a node is one of them.
LEMMA AfterNext ==
    ASSUME NEW x \in Field, NEW p \in Before(x)
    PROVE  x \in After(p)
<1>1. p \in Field /\ p \in Node /\ x \in Node
    BY BeforeFacts, NotRoot
<1>2. p \in Below[p] /\ x \in Below[x]
    BY <1>1, BelowSelf
<1> QED
    BY <1>1, <1>2 DEF After

-----------------------------------------------------------------------------
(* The order in which places are determined: the fields of a struct one    *)
(* after another with what is in them, and an instance after the fields of *)
(* all structs around it.                                                  *)

\* Where the seq fields below n lead.
SeqBelow == [n \in Node |->
    {m \in Node : \A S \in SUBSET Node :
                    n \in S /\ (\A k \in S : Range(Kids[k]) \subseteq S) => m \in S}]

LEMMA SeqBelowSelf == \A n \in Node : n \in SeqBelow[n] /\ SeqBelow[n] \subseteq Node
BY DEF SeqBelow

LEMMA SeqBelowKid ==
    ASSUME NEW n \in Node, NEW k \in SeqBelow[n], NEW m \in Range(Kids[k])
    PROVE  m \in SeqBelow[n]
<1>1. k \in Node
    BY DEF SeqBelow
<1>2. m \in Node
    BY <1>1, PartsAreFields DEF Node, Parts
<1>3. ASSUME NEW S \in SUBSET Node, n \in S, \A j \in S : Range(Kids[j]) \subseteq S
      PROVE  m \in S
  <2>1. k \in S
      BY <1>3 DEF SeqBelow
  <2> QED
      BY <1>3, <2>1
<1> QED
    BY <1>2, <1>3 DEF SeqBelow

LEMMA SeqBelowLeast ==
    ASSUME NEW n \in Node, NEW S, n \in S, \A k \in S \cap Node : Range(Kids[k]) \subseteq S
    PROVE  SeqBelow[n] \subseteq S
<1> DEFINE T == S \cap Node
<1>1. T \in SUBSET Node /\ n \in T
    OBVIOUS
<1>2. \A k \in T : Range(Kids[k]) \subseteq T
    BY PartsAreFields DEF Node, Parts
<1>3. \A m \in SeqBelow[n] : m \in T
  <2> HIDE DEF T
  <2> QED
    BY <1>1, <1>2 DEF SeqBelow
<1> QED
    BY <1>3

LEMMA SeqBelowTrans ==
    ASSUME NEW n \in Node, NEW m \in SeqBelow[n]
    PROVE  m \in Node /\ SeqBelow[m] \subseteq SeqBelow[n]
<1>1. m \in Node /\ SeqBelow[n] \subseteq Node
    BY SeqBelowSelf
<1>2. \A k \in SeqBelow[n] \cap Node : Range(Kids[k]) \subseteq SeqBelow[n]
    BY SeqBelowKid
<1> QED
    BY <1>1, <1>2, SeqBelowLeast

LEMMA SeqBelowBelow ==
    ASSUME NEW n \in Node
    PROVE  SeqBelow[n] \subseteq Below[n]
<1>1. n \in Below[n]
    BY BelowSelf
<1>2. \A k \in Below[n] \cap Node : Range(Kids[k]) \subseteq Below[n]
    BY BelowParts DEF Parts
<1> QED
    BY <1>1, <1>2, SeqBelowLeast

LEMMA KidField ==
    ASSUME NEW n \in Node, NEW m \in Range(Kids[n])
    PROVE  m \in Field /\ m \in Node /\ Parent[m] = n /\ IsSeq(m) /\ m \in Parts[n] /\ m \in Below[n]
<1>1. m \in Parts[n]
    BY DEF Parts
<1>2. m \in Field /\ Parent[m] = n
    BY <1>1, ParentUnique
<1>3. m \in Below[n]
    BY <1>1, BelowSelf, BelowParts
<1> QED
    BY <1>1, <1>2, <1>3, NotRoot DEF IsSeq

\* Two nodes around a third are around one another.
LEMMA BelowChain ==
    ASSUME NEW a \in Node, NEW b \in Node, NEW x \in Below[a], x \in Below[b]
    PROVE  a \in Below[b] \/ b \in Below[a]
<1> DEFINE S == {y \in Below[a] : y \in Below[b] => a \in Below[b] \/ b \in Below[a]}
<1>1. a \in S
    BY BelowSelf
<1>2. ASSUME NEW k \in S \cap Node, NEW m \in Parts[k]
      PROVE  m \in S
  <2>1. m \in Below[a] /\ m \in Field /\ Parent[m] = k
      BY BelowParts, ParentUnique
  <2>2. m \in Below[b] => m = b \/ k \in Below[b]
      BY <2>1, AroundParent
  <2> QED
      BY <2>1, <2>2
<1>3. Below[a] \subseteq S
  <2>1. \A k \in S \cap Node : Parts[k] \subseteq S
      BY <1>2
  <2> HIDE DEF S
  <2> QED
      BY <1>1, <2>1, BelowLeast
<1> QED
    BY <1>3

\* What is on the way along seq fields is a seq field.
LEMMA SeqPath ==
    ASSUME NEW b \in Node, NEW x \in SeqBelow[b], NEW a \in Field, x \in Below[a], a \in Below[b], a # b
    PROVE  IsSeq(a) /\ Parent[a] \in SeqBelow[b]
<1> DEFINE S == {y \in SeqBelow[b] : y \in Below[a] => IsSeq(a) /\ Parent[a] \in SeqBelow[b]}
<1>0. a \in Node /\ b \in SeqBelow[b]
    BY NotRoot, SeqBelowSelf
<1>1. b \notin Below[a]
  <2>1. Parent[a] \in Below[b]
      BY BelowUp
  <2> QED
      BY <1>0, <2>1, BelowTrans, NoCycle
<1>2. ASSUME NEW k \in S \cap Node, NEW m \in Range(Kids[k])
      PROVE  m \in S
  <2>1. m \in Field /\ Parent[m] = k /\ IsSeq(m) /\ m \in SeqBelow[b]
      BY KidField, SeqBelowKid
  <2>2. m \in Below[a] => m = a \/ k \in Below[a]
      BY <1>0, <2>1, AroundParent
  <2> QED
      BY <2>1, <2>2
<1>3. SeqBelow[b] \subseteq S
  <2>1. \A k \in S \cap Node : Range(Kids[k]) \subseteq S
      BY <1>2
  <2>2. b \in S
      BY <1>0, <1>1
  <2> HIDE DEF S
  <2> QED
      BY <2>1, <2>2, SeqBelowLeast
<1> QED
    BY <1>3

Around(n) == {c \in Node : n \in Below[c] /\ c # n}
Prior(a) == IF IsSeq(a) THEN Before(a) ELSE Around(a)

\* What has ended, and what has begun, when n begins.
Ended(n) == {x \in Node : \E a \in Field : /\ n \in Below[a]
                                            /\ \E b \in Prior(a) \cap Node : x \in SeqBelow[b]}
Begun(n) == Ended(n) \cup Around(n)

LEMMA EndedBelow ==
    ASSUME NEW a \in Field, NEW n \in Below[a], NEW b \in Prior(a)
    PROVE  b \in Node /\ SeqBelow[b] \subseteq Ended(n) /\ b \in Ended(n)
<1>1. b \in Node
    BY BeforeFacts DEF Prior, Around
<1> QED
    BY <1>1, SeqBelowSelf DEF Ended

LEMMA EndedSeq ==
    ASSUME NEW n \in Node, NEW x \in Ended(n)
    PROVE  x \in Node /\ SeqBelow[x] \subseteq Ended(n)
<1>1. PICK a \in Field : n \in Below[a] /\ \E b \in Prior(a) \cap Node : x \in SeqBelow[b]
    BY DEF Ended
<1>2. PICK b \in Prior(a) \cap Node : x \in SeqBelow[b]
    BY <1>1
<1> QED
    BY <1>1, <1>2, SeqBelowTrans, EndedBelow

LEMMA AroundEnded ==
    ASSUME NEW n \in Node, NEW x \in Around(n)
    PROVE  x \in Node /\ Ended(x) \subseteq Ended(n) /\ Around(x) \subseteq Around(n)
<1>1. x \in Node /\ n \in Below[x] /\ x # n
    BY DEF Around
<1>2. \A c \in Node : x \in Below[c] => n \in Below[c]
    BY <1>1, BelowTrans
<1>3. \A a \in Field : a \in Node
    BY NotRoot
<1>4. Ended(x) \subseteq Ended(n)
    BY <1>2, <1>3 DEF Ended
<1>5. \A c \in Node : x \in Below[c] /\ c # x => c # n
  <2> SUFFICES ASSUME x \in Below[n]
               PROVE  FALSE
      BY <1>1
  <2>1. n \in Field /\ Parent[n] \in Below[x]
      BY <1>1, BelowUp
  <2>2. Parent[n] \in Below[n]
      BY <1>1, <2>1, BelowTrans
  <2> QED
      BY <2>1, <2>2, NoCycle
<1> QED
    BY <1>1, <1>2, <1>4, <1>5 DEF Around

LEMMA EndedEnded ==
    ASSUME NEW n \in Node, NEW x \in Ended(n)
    PROVE  Ended(x) \subseteq Ended(n) /\ Around(x) \subseteq Begun(n)
<1>1. PICK a \in Field : n \in Below[a] /\ \E b \in Prior(a) \cap Node : x \in SeqBelow[b]
    BY DEF Ended
<1>2. PICK b \in Prior(a) \cap Node : x \in SeqBelow[b]
    BY <1>1
<1>3. /\ a \in Node /\ b \in Node /\ x \in Node /\ x \in Below[b] /\ SeqBelow[b] \subseteq Ended(n)
      /\ n \in Below[a] /\ n \in Node
    BY <1>1, <1>2, NotRoot, SeqBelowBelow, SeqBelowSelf, EndedBelow
    \* What is around b, and b itself if a is an instance, is around n.
<1>4. ASSUME NEW c \in Node, b \in Below[c], c # b \/ ~IsSeq(a)
      PROVE  n \in Below[c] /\ c # n
  <2>1. CASE IsSeq(a)
    <3>1. b \in Field /\ Parent[b] = Parent[a] /\ b # c
        BY <1>2, <1>4, <2>1, BeforeFacts DEF Prior
    <3>2. Parent[a] \in Below[c]
        BY <1>3, <1>4, <3>1, AroundParent
    <3>3. a \in Below[c]
        BY <1>3, <1>4, <3>2, ParentIsNode, BelowParts
    <3>4. n \in Below[c]
        BY <1>3, <1>4, <3>3, BelowTrans
    <3>5. c # n
      <4>1. Parent[a] \notin Below[n]
        <5>1. n \in Below[Parent[a]]
            BY <1>3, ParentIsNode, BelowSelf, BelowParts, BelowTrans
        <5>2. Below[n] \subseteq Below[a]
            BY <1>3, BelowTrans
        <5> QED
            BY <5>2, NoCycle
      <4> QED
          BY <3>2, <4>1
    <3> QED
        BY <3>4, <3>5
  <2>2. CASE ~IsSeq(a)
    <3>1. a \in Below[b] /\ b # a
        BY <1>2, <2>2 DEF Prior, Around
    <3>2. Parent[a] \in Below[b]
        BY <1>3, <3>1, BelowUp
    <3>3. Parent[a] \in Below[c] /\ n \in Below[c]
        BY <1>3, <1>4, <3>1, <3>2, BelowTrans
    <3>4. Below[n] \subseteq Below[a]
        BY <1>3, BelowTrans
    <3> QED
        BY <3>3, <3>4, NoCycle
  <2> QED
      BY <2>1, <2>2
<1>5. ASSUME NEW y \in Ended(x)
      PROVE  y \in Ended(n)
  <2>1. PICK d \in Field : x \in Below[d] /\ \E e \in Prior(d) \cap Node : y \in SeqBelow[e]
      BY <1>5 DEF Ended
  <2>2. PICK e \in Prior(d) \cap Node : y \in SeqBelow[e]
      BY <2>1
  <2>3. d \in Node /\ (b \in Below[d] \/ d \in Below[b])
      BY <1>3, <2>1, NotRoot, BelowChain
  <2>4. CASE b \in Below[d] /\ (b # d \/ ~IsSeq(a))
      BY <1>4, <2>2, <2>3, <2>4, EndedBelow
  <2>5. CASE b = d /\ IsSeq(a)
    <3>1. IsSeq(b) /\ Before(b) \subseteq Before(a)
        BY <1>2, <2>5, BeforeFacts DEF Prior
    <3>2. e \in Prior(a)
        BY <2>2, <2>5, <3>1 DEF Prior
    <3> QED
        BY <1>3, <2>2, <3>2, EndedBelow
  <2>6. CASE d \in Below[b] /\ b # d
    <3>1. IsSeq(d) /\ Parent[d] \in SeqBelow[b]
        BY <1>2, <1>3, <2>1, <2>6, SeqPath
    <3>2. e \in Field /\ IsSeq(e) /\ Parent[e] = Parent[d]
        BY <2>2, <3>1, BeforeFacts DEF Prior
    <3>3. e \in Range(Kids[Parent[d]])
        BY <3>2 DEF IsSeq
    <3>4. e \in SeqBelow[b]
        BY <1>3, <3>1, <3>3, SeqBelowKid
    <3> QED
        BY <1>3, <2>2, <3>4, SeqBelowTrans
  <2> QED
      BY <2>3, <2>4, <2>5, <2>6
<1>6. ASSUME NEW c \in Around(x)
      PROVE  c \in Begun(n)
  <2>1. c \in Node /\ x \in Below[c] /\ c # x
      BY <1>6 DEF Around
  <2>2. b \in Below[c] \/ c \in Below[b]
      BY <1>3, <2>1, BelowChain
  <2>3. CASE b \in Below[c] /\ c # b
      BY <1>4, <2>1, <2>3 DEF Begun, Around
  <2>4. CASE c = b
      BY <1>3, <2>4, SeqBelowSelf DEF Begun
  <2>5. CASE c \in Below[b] /\ c # b
    <3>1. c \in Field
        BY <1>3, <2>5, BelowUp
    <3>2. IsSeq(c) /\ Parent[c] \in SeqBelow[b]
        BY <1>2, <1>3, <2>1, <2>5, <3>1, SeqPath
    <3>3. c \in SeqBelow[b]
        BY <1>3, <3>1, <3>2, SeqBelowKid DEF IsSeq
    <3> QED
        BY <1>3, <3>3 DEF Begun
  <2> QED
      BY <2>2, <2>3, <2>4, <2>5
<1> QED
    BY <1>5, <1>6

LEMMA NotEnded ==
    ASSUME NEW n \in Node
    PROVE  n \notin Ended(n) /\ n \notin Begun(n)
<1>1. ASSUME n \in Ended(n)
      PROVE  FALSE
  <2>1. PICK a \in Field : n \in Below[a] /\ \E b \in Prior(a) \cap Node : n \in SeqBelow[b]
      BY <1>1 DEF Ended
  <2>2. PICK b \in Prior(a) \cap Node : n \in SeqBelow[b]
      BY <2>1
  <2>3. n \in Below[b]
      BY <2>2, SeqBelowBelow
  <2>4. CASE IsSeq(a)
    <3>1. b \in Field /\ b # a /\ Parent[b] = Parent[a]
        BY <2>2, <2>4, BeforeFacts DEF Prior
    <3> QED
        BY <2>1, <2>3, <3>1, PartsApart
  <2>5. CASE ~IsSeq(a)
    <3>1. a \in Below[b] /\ b # a
        BY <2>2, <2>5 DEF Prior, Around
    <3> QED
        BY <2>1, <2>2, <2>5, <3>1, SeqPath
  <2> QED
      BY <2>4, <2>5
<1> QED
    BY <1>1 DEF Begun, Around

\* What has been determined before a quantity of a node: 3 stands for the end of
\* a node, and 4 for that of all.
Earlier(n) == (Begun(n) \X (0 .. 2)) \cup (Ended(n) \X {3})
Stage(what) == IF what = "begin" THEN 0 ELSE IF what \in {"ioBegin", "extent"} THEN 1 ELSE 2
Open(s, n) == s.size[n].how = "none" /\ s.kind[n] = "user"
Span(s, what, n) ==
    IF what = "extent" /\ n = Root THEN Node \X (0 .. 4)
    ELSE IF what = "extent" /\ Open(s, n) THEN Earlier(n) \cup (SeqBelow[n] \X (0 .. 3))
    ELSE Earlier(n) \cup ({n} \X (0 .. Stage(what)))

Less(A, B) == A \subseteq B /\ A # B

LEMMA EarlierNode ==
    ASSUME NEW n \in Node
    PROVE  Begun(n) \subseteq Node /\ Ended(n) \subseteq Node /\ Earlier(n) \subseteq Node \X (0 .. 3)
BY DEF Earlier, Begun, Ended, Around

\* A quantity of what has begun, and all of what has ended, comes before.
LEMMA BegunEarlier ==
    ASSUME NEW n \in Node, NEW x \in Begun(n)
    PROVE  Earlier(x) \cup ({x} \X (0 .. 2)) \subseteq Earlier(n)
<1>1. x \in Node
    BY EarlierNode
<1>2. Ended(x) \subseteq Ended(n) /\ Begun(x) \subseteq Begun(n)
    BY AroundEnded, EndedEnded DEF Begun
<1> QED
    BY <1>2 DEF Earlier

LEMMA EndedEarlier ==
    ASSUME NEW n \in Node, NEW x \in Ended(n)
    PROVE  Earlier(x) \cup (SeqBelow[x] \X (0 .. 3)) \subseteq Earlier(n)
<1>1. SeqBelow[x] \subseteq Ended(n) /\ x \in Begun(n)
    BY EndedSeq DEF Begun
<1>2. Earlier(x) \subseteq Earlier(n)
    BY <1>1, BegunEarlier
<1>3. SeqBelow[x] \X (0 .. 3) \subseteq Earlier(n)
  <2>1. 0 .. 3 = (0 .. 2) \cup {3}
      OBVIOUS
  <2> QED
      BY <1>1, <2>1 DEF Earlier, Begun
<1> QED
    BY <1>2, <1>3

LEMMA NotEarlier ==
    ASSUME NEW n \in Node
    PROVE  \A k : <<n, k>> \notin Earlier(n)
BY NotEnded DEF Earlier

\* The fields of a struct come before it ends.
LEMMA KidEarlier ==
    ASSUME NEW n \in Node, NEW m \in Range(Kids[n])
    PROVE  /\ Earlier(m) \cup (SeqBelow[m] \X (0 .. 3)) \cup ({m} \X (0 .. 2))
                \subseteq Earlier(n) \cup (SeqBelow[n] \X (0 .. 3))
           /\ <<n, 3>> \notin Earlier(m) \cup (SeqBelow[m] \X (0 .. 3)) \cup ({m} \X (0 .. 2))
<1>1. m \in Field /\ m \in Node /\ Parent[m] = n /\ IsSeq(m)
    BY KidField
<1>2. m \in SeqBelow[n] /\ SeqBelow[m] \subseteq SeqBelow[n] /\ n \in SeqBelow[n]
    BY SeqBelowSelf, SeqBelowKid, SeqBelowTrans
<1>3. n \notin Below[m] /\ n \notin SeqBelow[m] /\ n # m
    BY <1>1, NoCycle, SeqBelowBelow, NotRoot
<1>4. ASSUME NEW x \in Ended(m)
      PROVE  x # n /\ (x \in Ended(n) \/ x \in SeqBelow[n])
  <2>1. PICK a \in Field : m \in Below[a] /\ \E b \in Prior(a) \cap Node : x \in SeqBelow[b]
      BY <1>4 DEF Ended
  <2>2. PICK b \in Prior(a) \cap Node : x \in SeqBelow[b]
      BY <2>1
  <2>3. CASE a = m
    <3>1. b \in Field /\ IsSeq(b) /\ Parent[b] = n
        BY <1>1, <2>2, <2>3, BeforeFacts DEF Prior
    <3>2. b \in Range(Kids[n])
        BY <3>1 DEF IsSeq
    <3>3. b \in SeqBelow[n]
        BY <1>2, <3>2, SeqBelowKid
    <3>4. x \in SeqBelow[n]
        BY <2>2, <3>3, SeqBelowTrans
    <3>5. x # n
        BY <2>2, <3>1, NoCycle, SeqBelowBelow, NotRoot
    <3> QED
        BY <3>4, <3>5
  <2>4. CASE a # m
    <3>1. n \in Below[a]
        BY <1>1, <2>1, <2>4, NotRoot, AroundParent
    <3>2. x \in Ended(n)
        BY <2>2, <3>1, EndedBelow
    <3> QED
        BY <3>2, NotEnded
  <2> QED
      BY <2>3, <2>4
<1>5. ASSUME NEW x \in Around(m)
      PROVE  x \in Begun(n) \/ x \in SeqBelow[n]
  <2>1. x \in Node /\ m \in Below[x] /\ x # m
      BY <1>5 DEF Around
  <2>2. n \in Below[x]
      BY <1>1, <2>1, AroundParent
  <2> QED
      BY <1>2, <2>1, <2>2 DEF Begun, Around
<1>6. 0 .. 3 = (0 .. 2) \cup {3}
    OBVIOUS
<1>7. Earlier(m) \subseteq Earlier(n) \cup (SeqBelow[n] \X (0 .. 3))
  <2>1. Begun(m) \X (0 .. 2) \subseteq Earlier(n) \cup (SeqBelow[n] \X (0 .. 3))
      BY <1>4, <1>5, <1>6 DEF Earlier, Begun
  <2>2. Ended(m) \X {3} \subseteq Earlier(n) \cup (SeqBelow[n] \X (0 .. 3))
      BY <1>4, <1>6 DEF Earlier
  <2> QED
      BY <2>1, <2>2 DEF Earlier
<1>8. <<n, 3>> \notin Earlier(m)
    BY <1>4 DEF Earlier
<1> QED
    BY <1>2, <1>3, <1>6, <1>7, <1>8

\* What comes before n comes before every quantity of n.
LEMMA SpanHolds ==
    ASSUME NEW s, NEW n \in Node, NEW what, what # "extent" \/ n # Root
    PROVE  <<n, 0>> \in Span(s, what, n) /\ Earlier(n) \subseteq Span(s, what, n)
<1>1. n \in SeqBelow[n] /\ 0 \in 0 .. 3
    BY SeqBelowSelf
<1>2. 0 \in 0 .. Stage(what)
    BY DEF Stage
<1>3. <<n, 0>> \in SeqBelow[n] \X (0 .. 3) /\ <<n, 0>> \in {n} \X (0 .. Stage(what))
    BY <1>1, <1>2
<1> HIDE DEF Stage
<1> QED
    BY <1>3 DEF Span

\* Of what has begun every quantity but the extent of an open struct comes
\* before those of n.
LEMMA SpanBegun ==
    ASSUME NEW s, NEW n \in Node, NEW x \in Begun(n), NEW q, NEW what,
           q # "extent", what # "extent" \/ n # Root
    PROVE  Less(Span(s, q, x), Span(s, what, n))
<1>1. Span(s, q, x) \subseteq Earlier(n)
  <2>1. Span(s, q, x) \subseteq Earlier(x) \cup ({x} \X (0 .. 2))
      BY DEF Span, Stage
  <2> QED
      BY <2>1, BegunEarlier
<1>2. <<n, 0>> \in Span(s, what, n) /\ Earlier(n) \subseteq Span(s, what, n)
    BY SpanHolds
<1> QED
    BY <1>1, <1>2, NotEarlier DEF Less

LEMMA SpanEnded ==
    ASSUME NEW s, NEW n \in Node, NEW x \in Ended(n) \ {Root}, NEW q, NEW what,
           what # "extent" \/ n # Root
    PROVE  Less(Span(s, q, x), Span(s, what, n))
<1>0. x \in Node /\ x \in SeqBelow[x]
    BY EarlierNode, SeqBelowSelf
<1>1. Span(s, q, x) \subseteq Earlier(n)
  <2>1. {x} \X (0 .. 2) \subseteq SeqBelow[x] \X (0 .. 3)
      BY <1>0
  <2>2. Span(s, q, x) \subseteq Earlier(x) \cup (SeqBelow[x] \X (0 .. 3))
      BY <2>1 DEF Span, Stage
  <2> QED
      BY <2>2, EndedEarlier
<1>2. <<n, 0>> \in Span(s, what, n) /\ Earlier(n) \subseteq Span(s, what, n)
    BY SpanHolds
<1> QED
    BY <1>1, <1>2, NotEarlier DEF Less

\* The quantities of one node.
LEMMA SpanStage ==
    ASSUME NEW s, NEW n \in Node, NEW q, NEW what, Stage(q) < Stage(what),
           q = "extent" => n # Root /\ ~Open(s, n), what = "extent" => n # Root /\ ~Open(s, n)
    PROVE  Less(Span(s, q, n), Span(s, what, n))
<1>1. Span(s, q, n) = Earlier(n) \cup ({n} \X (0 .. Stage(q)))
    BY DEF Span
<1>2. Span(s, what, n) = Earlier(n) \cup ({n} \X (0 .. Stage(what)))
    BY DEF Span
<1>3. Stage(q) \in Nat /\ Stage(what) \in Nat
    BY DEF Stage
<1>4. <<n, Stage(what)>> \notin Span(s, q, n)
    BY <1>1, <1>3, NotEarlier
<1> QED
    BY <1>1, <1>2, <1>3, <1>4 DEF Less

LEMMA SpanOpen ==
    ASSUME NEW s, NEW n \in Field, Open(s, n)
    PROVE  /\ Less(Span(s, "begin", n), Span(s, "extent", n))
           /\ \A m \in Range(Kids[n]) : \A q : Less(Span(s, q, m), Span(s, "extent", n))
<1>0. n \in Node /\ n # Root /\ n \in SeqBelow[n]
    BY NotRoot, SeqBelowSelf
<1>1. Span(s, "extent", n) = Earlier(n) \cup (SeqBelow[n] \X (0 .. 3))
    BY <1>0 DEF Span
<1>2. <<n, 3>> \in Span(s, "extent", n)
    BY <1>0, <1>1
<1>3. Less(Span(s, "begin", n), Span(s, "extent", n))
    BY <1>0, <1>1, <1>2, NotEarlier DEF Less, Span, Stage
<1>4. ASSUME NEW m \in Range(Kids[n]), NEW q
      PROVE  Less(Span(s, q, m), Span(s, "extent", n))
  <2>1. m # Root
      BY <1>0, KidField, NotRoot
  <2>2. Span(s, q, m) \subseteq Earlier(m) \cup (SeqBelow[m] \X (0 .. 3)) \cup ({m} \X (0 .. 2))
      BY <2>1 DEF Span, Stage
  <2>3. /\ Earlier(m) \cup (SeqBelow[m] \X (0 .. 3)) \cup ({m} \X (0 .. 2)) \subseteq Span(s, "extent", n)
        /\ <<n, 3>> \notin Earlier(m) \cup (SeqBelow[m] \X (0 .. 3)) \cup ({m} \X (0 .. 2))
      BY <1>0, <1>1, KidEarlier
  <2>4. Span(s, q, m) \subseteq Span(s, "extent", n) /\ <<n, 3>> \notin Span(s, q, m)
      BY <2>2, <2>3
  <2> QED
      BY <1>2, <2>4 DEF Less
<1> QED
    BY <1>3, <1>4

LEMMA SpanNode ==
    ASSUME NEW s, NEW n \in Node, NEW what
    PROVE  /\ Span(s, what, n) \in SUBSET (Node \X (0 .. 4))
           /\ ~(what = "extent" /\ n = Root) => Less(Span(s, what, n), Span(s, "extent", Root))
<1>1. Root \in Node
    BY DEF Node
<1>2. CASE what = "extent" /\ n = Root
    BY <1>2 DEF Span
<1>3. CASE ~(what = "extent" /\ n = Root)
  <2>1. SeqBelow[n] \subseteq Node
      BY SeqBelowSelf
  <2>2. Span(s, what, n) \subseteq Node \X (0 .. 3)
      BY <1>3, <2>1, EarlierNode DEF Span, Stage
  <2>3. Node \X (0 .. 3) \subseteq Node \X (0 .. 4) /\ <<Root, 4>> \in Node \X (0 .. 4)
      BY <1>1
  <2>4. <<Root, 4>> \notin Node \X (0 .. 3)
      OBVIOUS
  <2> QED
      BY <2>2, <2>3, <2>4 DEF Less, Span
<1> QED
    BY <1>2, <1>3

\* What a quantity rests on comes before it.
Lower(s, f, g, what, n) ==
    \A q \in Quantity, x \in Node : Less(Span(s, q, x), Span(s, what, n)) => f[<<q, x>>] = g[<<q, x>>]

LEMMA ReadableFacts ==
    ASSUME NEW s \in Schemas
    PROVE  /\ s \in Schema /\ Readable(s) /\ s.data \in Seq(Nat)
           /\ \A n \in Node : /\ s.kind[n] \in {"u1", "bytes", "user"}
                              /\ s.size[n].how \in {"none", "eos", "lit", "field"}
                              /\ s.size[n].k \in Nat /\ s.size[n].of \in Node
           /\ \A n \in Field : s.pos[n] \in Nat
BY SchemasAssumption, SchemasAreReadable DEF Schema, Size

LEMMA ParentBegun ==
    ASSUME NEW n \in Field
    PROVE  Parent[n] \in Begun(n) /\ Parent[n] \in Node
<1>1. Parent[n] \in Node /\ n \in Below[Parent[n]] /\ Parent[n] # n
    BY NotRoot, ParentIsNode, BelowSelf, BelowParts
<1> QED
    BY <1>1 DEF Begun, Around

LEMMA BeforeEnded ==
    ASSUME NEW a \in Field, NEW n \in Below[a], NEW b \in Before(a)
    PROVE  b \in Ended(n) \ {Root} /\ b \in Begun(n) /\ b \in Node
<1>1. b \in Field /\ b \in Node /\ IsSeq(a)
    BY BeforeFacts
<1>2. b \in Ended(n)
    BY <1>1, EndedBelow DEF Prior
<1> QED
    BY <1>1, <1>2, NotRoot DEF Begun

LEMMA SourceBegun ==
    ASSUME NEW s \in Schemas, NEW n \in Field, s.size[n].how = "field"
    PROVE  s.size[n].of \in Begun(n) /\ s.size[n].of \in Node
<1> PICK of \in Node : of = s.size[n].of
    BY ReadableFacts, NotRoot
<1>1. /\ IsSeq(of) /\ n \in Below[Parent[of]] \ {Parent[of]}
      /\ IsSeq(n) => \E a \in Field : n \in Below[a] /\ of \in Before(a)
    BY ReadableFacts DEF Readable
<1>2. of \in Field /\ n \in Node /\ n \in Below[n]
    BY <1>1, NotRoot, BelowSelf DEF IsSeq, Node
<1>3. CASE IsSeq(n)
    BY <1>1, <1>3, BeforeEnded
<1>4. CASE ~IsSeq(n)
  <2>1. Parent[of] \in Prior(n) /\ Parent[of] \in Node
      BY <1>1, <1>2, <1>4, NotRoot DEF Prior, Around
  <2>2. of \in SeqBelow[Parent[of]]
      BY <1>1, <2>1, SeqBelowSelf, SeqBelowKid DEF IsSeq
  <2>3. of \in Ended(n)
      BY <1>2, <2>1, <2>2, EndedBelow
  <2> QED
      BY <2>3 DEF Begun
<1> QED
    BY <1>3, <1>4

LEMMA PredEnded ==
    ASSUME NEW n \in Field, IsSeq(n)
    PROVE  IF SeqIndex(n) = 1 THEN Pred(n) = Parent[n]
           ELSE Pred(n) \in Ended(n) \ {Root} /\ Pred(n) \in Begun(n) /\ Pred(n) \in Node
<1>1. n \in Below[n]
    BY NotRoot, BelowSelf
<1> QED
    BY <1>1, PredFacts, BeforeEnded

LEMMA BeginLower ==
    ASSUME NEW s \in Schemas, NEW f, NEW g, NEW n \in Node, Lower(s, f, g, "begin", n)
    PROVE  Measure(s, f, "begin", n) = Measure(s, g, "begin", n)
<1>1. CASE n = Root
    BY <1>1 DEF Measure
<1>2. CASE n # Root
  <2>1. n \in Field /\ Parent[n] \in Begun(n) /\ Parent[n] \in Node
      BY <1>2, ParentBegun DEF Node
  <2>2. f[<<"ioBegin", Parent[n]>>] = g[<<"ioBegin", Parent[n]>>]
    <3>1. Less(Span(s, "ioBegin", Parent[n]), Span(s, "begin", n))
        BY <2>1, SpanBegun
    <3> QED
        BY <2>1, <3>1 DEF Lower, Quantity
  <2>3. f[<<"begin", Parent[n]>>] = g[<<"begin", Parent[n]>>]
    <3>1. Less(Span(s, "begin", Parent[n]), Span(s, "begin", n))
        BY <2>1, SpanBegun
    <3> QED
        BY <2>1, <3>1 DEF Lower, Quantity
  <2>4. ASSUME IsSeq(n), SeqIndex(n) # 1
        PROVE  /\ f[<<"begin", Pred(n)>>] = g[<<"begin", Pred(n)>>]
               /\ f[<<"extent", Pred(n)>>] = g[<<"extent", Pred(n)>>]
    <3> PICK p \in Node : p = Pred(n)
        BY <2>1, <2>4, PredEnded
    <3>1. p \in Ended(n) \ {Root}
        BY <2>1, <2>4, PredEnded
    <3>2. Less(Span(s, "begin", p), Span(s, "begin", n)) /\ Less(Span(s, "extent", p), Span(s, "begin", n))
        BY <3>1, SpanEnded
    <3> QED
        BY <3>2 DEF Lower, Quantity
  <2> QED
      BY <2>2, <2>3, <2>4 DEF Measure
<1> QED
    BY <1>1, <1>2

LEMMA KidLast ==
    ASSUME NEW n \in Node, Kids[n] # <<>>
    PROVE  Kids[n][Len(Kids[n])] \in Range(Kids[n]) /\ Kids[n][Len(Kids[n])] \in Node
<1>1. Kids[n] \in Seq(Field) /\ Len(Kids[n]) \in DOMAIN Kids[n]
    BY TreeAssumption
<1> QED
    BY <1>1 DEF Range, Node

LEMMA ExtentLower ==
    ASSUME NEW s \in Schemas, NEW f, NEW g, NEW n \in Node, Lower(s, f, g, "extent", n)
    PROVE  Measure(s, f, "extent", n) = Measure(s, g, "extent", n)
<1>0. /\ s.size[n].how \in {"none", "eos", "lit", "field"} /\ s.size[n].of \in Node
      /\ s.kind[n] \in {"u1", "bytes", "user"}
    BY ReadableFacts
<1>1. CASE n = Root
  <2>1. \A x \in Node : Less(Span(s, "begin", x), Span(s, "extent", Root))
      BY SpanNode
  <2>2. \A x \in Node \ {Root} : Less(Span(s, "extent", x), Span(s, "extent", Root))
      BY SpanNode
  <2>3. \A x \in Node : f[<<"begin", x>>] = g[<<"begin", x>>]
      BY <1>1, <2>1 DEF Lower, Quantity
  <2>4. \A x \in Node \ {Root} : f[<<"extent", x>>] = g[<<"extent", x>>]
      BY <1>1, <2>2 DEF Lower, Quantity
  <2>5. Kids[n] # <<>> => Kids[n][Len(Kids[n])] \in Node \ {Root}
      BY KidLast, KidField, NotRoot
  <2> QED
      BY <1>0, <1>1, <2>3, <2>4, <2>5 DEF Measure
<1>2. CASE n # Root
  <2>1. n \in Field /\ Parent[n] \in Begun(n) /\ Parent[n] \in Node
      BY <1>2, ParentBegun DEF Node
  <2>2. CASE s.size[n].how = "lit"
      BY <2>2 DEF Measure
  <2>3. CASE s.size[n].how = "field"
    <3>1. s.size[n].of \in Begun(n)
        BY <2>1, <2>3, SourceBegun
    <3>2. Less(Span(s, "begin", s.size[n].of), Span(s, "extent", n))
        BY <1>2, <3>1, SpanBegun
    <3>3. f[<<"begin", s.size[n].of>>] = g[<<"begin", s.size[n].of>>]
        BY <1>0, <3>2 DEF Lower, Quantity
    <3> QED
        BY <2>3, <3>3 DEF Measure
  <2>4. CASE s.size[n].how = "eos"
    <3>1. Less(Span(s, "ioEnd", Parent[n]), Span(s, "extent", n))
        BY <1>2, <2>1, SpanBegun
    <3>2. Less(Span(s, "begin", n), Span(s, "extent", n))
        BY <1>2, <2>4, SpanStage DEF Stage, Open
    <3>3. /\ f[<<"ioEnd", Parent[n]>>] = g[<<"ioEnd", Parent[n]>>]
          /\ f[<<"begin", n>>] = g[<<"begin", n>>]
        BY <2>1, <3>1, <3>2 DEF Lower, Quantity
    <3> QED
        BY <2>4, <3>3 DEF Measure
  <2>5. CASE s.size[n].how = "none" /\ s.kind[n] # "user"
      BY <1>2, <2>5 DEF Measure
  <2>6. CASE Open(s, n)
    <3>1. Less(Span(s, "begin", n), Span(s, "extent", n))
        BY <2>1, <2>6, SpanOpen
    <3>2. f[<<"begin", n>>] = g[<<"begin", n>>]
        BY <3>1 DEF Lower, Quantity
    <3>3. ASSUME Kids[n] # <<>>
          PROVE  /\ f[<<"begin", Kids[n][Len(Kids[n])]>>] = g[<<"begin", Kids[n][Len(Kids[n])]>>]
                 /\ f[<<"extent", Kids[n][Len(Kids[n])]>>] = g[<<"extent", Kids[n][Len(Kids[n])]>>]
      <4> PICK m \in Node : m = Kids[n][Len(Kids[n])]
          BY <3>3, KidLast
      <4>1. m \in Range(Kids[n])
          BY <3>3, KidLast
      <4>2. /\ Less(Span(s, "begin", m), Span(s, "extent", n))
            /\ Less(Span(s, "extent", m), Span(s, "extent", n))
          BY <2>1, <2>6, <4>1, SpanOpen
      <4> QED
          BY <4>2 DEF Lower, Quantity
    <3> QED
        BY <2>6, <3>2, <3>3 DEF Measure, Open
  <2> QED
      BY <1>0, <2>2, <2>3, <2>4, <2>5, <2>6 DEF Open
<1> QED
    BY <1>1, <1>2

LEMMA WindowLower ==
    ASSUME NEW s \in Schemas, NEW f, NEW g, NEW n \in Node, NEW what \in {"ioBegin", "ioEnd", "limit"},
           Lower(s, f, g, what, n)
    PROVE  Measure(s, f, what, n) = Measure(s, g, what, n)
<1>1. CASE n = Root
    BY <1>1 DEF Measure
<1>2. CASE n # Root
  <2>1. n \in Field /\ Parent[n] \in Begun(n) /\ Parent[n] \in Node
      BY <1>2, ParentBegun DEF Node
  <2>2. f[<<what, Parent[n]>>] = g[<<what, Parent[n]>>]
    <3>1. Less(Span(s, what, Parent[n]), Span(s, what, n))
        BY <2>1, SpanBegun
    <3> QED
        BY <2>1, <3>1 DEF Lower, Quantity
  <2>3. f[<<"begin", n>>] = g[<<"begin", n>>]
    <3>1. Stage("begin") < Stage(what) /\ "begin" # "extent" /\ what # "extent"
        BY DEF Stage
    <3>2. Less(Span(s, "begin", n), Span(s, what, n))
        BY <3>1, SpanStage
    <3> QED
        BY <3>2 DEF Lower, Quantity
  <2>4. ASSUME s.size[n].how # "none", what # "ioBegin"
        PROVE  f[<<"extent", n>>] = g[<<"extent", n>>]
    <3>1. Less(Span(s, "extent", n), Span(s, what, n))
        BY <1>2, <2>4, SpanStage DEF Stage, Open
    <3> QED
        BY <3>1 DEF Lower, Quantity
  <2>5. CASE what = "ioBegin"
      BY <1>2, <2>2, <2>3, <2>5 DEF Measure
  <2>6. CASE what = "ioEnd"
      BY <1>2, <2>2, <2>3, <2>4, <2>6 DEF Measure
  <2>7. CASE what = "limit"
      BY <1>2, <2>2, <2>3, <2>4, <2>7 DEF Measure, Smaller
  <2> QED
      BY <2>5, <2>6, <2>7
<1> QED
    BY <1>1, <1>2

LEMMA MeasureLower ==
    ASSUME NEW s \in Schemas, NEW f, NEW g, NEW n \in Node, NEW what \in Quantity, Lower(s, f, g, what, n)
    PROVE  Measure(s, f, what, n) = Measure(s, g, what, n)
<1>1. what \in {"begin", "extent"} \/ what \in {"ioBegin", "ioEnd", "limit"}
    BY DEF Quantity
<1> QED
    BY <1>1, BeginLower, ExtentLower, WindowLower

LEMMA IntClosed == \A x, y \in Int : x + y \in Int /\ x - y \in Int
OBVIOUS

LEMMA MeasureTyped ==
    ASSUME NEW s \in Schemas, NEW f, NEW n \in Node, NEW what \in Quantity,
           \A q \in Quantity : \A x \in Node : f[<<q, x>>] \in Int
    PROVE  Measure(s, f, what, n) \in Int
<1>1. /\ s.size[n].k \in Nat /\ s.size[n].of \in Node /\ s.data \in Seq(Nat)
      /\ s.size[n].how \in {"none", "eos", "lit", "field"}
      /\ n # Root => n \in Field /\ s.pos[n] \in Nat /\ Parent[n] \in Node
    BY ReadableFacts, NotRoot DEF Node
<1>2. \A q \in Quantity, x \in Node : f[<<q, x>>] \in Int
    OBVIOUS
<1>3. \A x \in Node : /\ f[<<"begin", x>>] \in Int /\ f[<<"extent", x>>] \in Int
                      /\ f[<<"ioBegin", x>>] \in Int /\ f[<<"ioEnd", x>>] \in Int
                      /\ f[<<"limit", x>>] \in Int
    BY <1>2 DEF Quantity
<1>4. n # Root /\ IsSeq(n) => Pred(n) \in Node
    BY <1>1, PredIsNode
<1>5. Kids[n] # <<>> => Kids[n][Len(Kids[n])] \in Node
    BY KidLast
<1>6. CASE what = "begin"
  <2>1. n # Root /\ ~IsSeq(n) => f[<<"ioBegin", Parent[n]>>] + s.pos[n] \in Int
      BY <1>1, <1>3, IntClosed, Nat \subseteq Int, ZenonT(30)
  <2>2. n # Root => f[<<"begin", Parent[n]>>] \in Int
      BY <1>1, <1>3
  <2>3. n # Root /\ IsSeq(n) => f[<<"begin", Pred(n)>>] + f[<<"extent", Pred(n)>>] \in Int
      BY <1>3, <1>4, IntClosed, ZenonT(30)
  <2>4. 0 \in Int
      OBVIOUS
  <2>5. Measure(s, f, "begin", n) \in Int
    <3>1. CASE n = Root
        BY <3>1 DEF Measure
    <3>2. CASE n # Root /\ ~IsSeq(n)
        BY <2>1, <3>2 DEF Measure
    <3>3. CASE n # Root /\ IsSeq(n)
        BY <2>2, <2>3, <3>3 DEF Measure
    <3> QED
        BY <3>1, <3>2, <3>3
  <2> QED
      BY <1>6, <2>5
<1>7. CASE what = "extent"
  <2>1. \A x \in Nat : x \in 0 .. Len(s.data) - 1 => s.data[x + 1] \in Nat
    <3> PICK d \in Seq(Nat) : d = s.data
        BY <1>1
    <3>1. \A x \in Nat : x \in 0 .. Len(d) - 1 => x + 1 \in 1 .. Len(d)
        OBVIOUS
    <3>2. \A k \in 1 .. Len(d) : d[k] \in Nat
        OBVIOUS
    <3> QED
        BY <3>1, <3>2
  <2>2. 0 .. Len(s.data) - 1 \subseteq Nat
      OBVIOUS
  <2>3. f[<<"begin", n>>] \in Int /\ f[<<"extent", n>>] \in Int /\ f[<<"begin", s.size[n].of>>] \in Int
      BY <1>1, <1>3
  <2>4. n # Root => f[<<"ioEnd", Parent[n]>>] - f[<<"begin", n>>] \in Int
      BY <1>1, <1>3, IntClosed, ZenonT(30)
  <2>5. Kids[n] # <<>> => f[<<"begin", Kids[n][Len(Kids[n])]>>] + f[<<"extent", Kids[n][Len(Kids[n])]>>]
                            - f[<<"begin", n>>] \in Int
      BY <1>3, <1>5, IntClosed, ZenonT(30)
  <2>6. 0 \in Int /\ 1 \in Int
      OBVIOUS
  <2>7. Measure(s, f, "extent", n) \in Int
    <3>1. CASE s.size[n].how = "lit"
        BY <1>1, <3>1 DEF Measure
    <3>2. CASE s.size[n].how = "field"
      <4>1. f[<<"begin", s.size[n].of>>] \in 0 .. Len(s.data) - 1
              => s.data[f[<<"begin", s.size[n].of>>] + 1] \in Int
          BY <2>1, <2>2
      <4> QED
          BY <2>6, <3>2, <4>1 DEF Measure
    <3>3. CASE s.size[n].how = "eos"
        BY <2>4, <2>6, <3>3 DEF Measure
    <3>4. CASE s.size[n].how = "none" /\ n # Root /\ s.kind[n] # "user"
        BY <2>6, <3>4 DEF Measure
    <3>5. CASE s.size[n].how = "none" /\ ~(n # Root /\ s.kind[n] # "user")
      <4>1. CASE Kids[n] = <<>>
          BY <2>6, <3>5, <4>1 DEF Measure
      <4>2. CASE Kids[n] # <<>>
        <5> DEFINE last == Kids[n][Len(Kids[n])]
                   total == f[<<"begin", last>>] + f[<<"extent", last>>] - f[<<"begin", n>>]
        <5>1. f[<<"begin", last>>] \in Int /\ f[<<"extent", last>>] \in Int /\ f[<<"begin", n>>] \in Int
            BY <1>3, <1>5, <4>2
        <5>3. Measure(s, f, "extent", n) = total
            BY <3>5, <4>2, <5>1 DEF Measure
        <5>2. total \in Int
            BY <2>5, <4>2
        <5> HIDE DEF total
        <5> QED
            BY <5>2, <5>3
      <4> QED
          BY <4>1, <4>2
    <3> QED
        BY <1>1, <3>1, <3>2, <3>3, <3>4, <3>5
  <2> QED
      BY <1>7, <2>7
<1>8. CASE what \in {"ioBegin", "ioEnd", "limit"}
  <2>1. /\ f[<<"begin", n>>] \in Int
        /\ f[<<"begin", n>>] + f[<<"extent", n>>] \in Int
        /\ n # Root => f[<<what, Parent[n]>>] \in Int
        /\ Len(s.data) \in Int /\ 0 \in Int
    <3>1. Len(s.data) \in Int /\ 0 \in Int
        BY <1>1
    <3>2. f[<<"begin", n>>] \in Int /\ f[<<"extent", n>>] \in Int
        BY <1>3
    <3>3. n # Root => f[<<what, Parent[n]>>] \in Int
        BY <1>1, <1>2
    <3> QED
        BY <3>1, <3>2, <3>3, IntClosed, ZenonT(30)
  <2>2. CASE what = "ioBegin"
      BY <2>1, <2>2 DEF Measure
  <2>3. CASE what = "ioEnd"
      BY <2>1, <2>3 DEF Measure
  <2>4. CASE what = "limit"
      BY <2>1, <2>4 DEF Measure, Smaller
  <2> QED
      BY <1>8, <2>2, <2>3, <2>4
<1> QED
    BY <1>6, <1>7, <1>8 DEF Quantity

LEMMA MeasureInt ==
    ASSUME NEW s \in Schemas, NEW f \in [Quantity \X Node -> Int], NEW n \in Node, NEW what \in Quantity
    PROVE  Measure(s, f, what, n) \in Int
<1>1. \A q \in Quantity : \A x \in Node : f[<<q, x>>] \in Int
    OBVIOUS
<1> QED
    BY <1>1, MeasureTyped

LEMMA PlacesRanked ==
    ASSUME NEW s \in Schemas
    PROVE  Ranked(Quantity \X Node, Int, Node \X (0 .. 4),
                  [q \in Quantity \X Node |-> Span(s, q[1], q[2])],
                  [at \in [Quantity \X Node -> Int] |->
                     [q \in Quantity \X Node |-> Measure(s, at, q[1], q[2])]])
<1> DEFINE D == Quantity \X Node
           span == [q \in D |-> Span(s, q[1], q[2])]
           step == [at \in [D -> Int] |-> [q \in D |-> Measure(s, at, q[1], q[2])]]
<1>1. IsFiniteSet(Node \X (0 .. 4)) /\ Int # {}
  <2>1. IsFiniteSet(Node)
      BY TreeIsFinite, FS_AddElement DEF Node
  <2>2. IsFiniteSet(0 .. 4)
      BY FS_Interval, 0 \in Int, 4 \in Int
  <2>3. 0 \in Int
      OBVIOUS
  <2> QED
      BY <2>1, <2>2, <2>3, FS_Product
<1>2. span \in [D -> SUBSET (Node \X (0 .. 4))]
  <2>1. \A q \in D : Span(s, q[1], q[2]) \in SUBSET (Node \X (0 .. 4))
      BY SpanNode
  <2> QED
      BY <2>1
<1>3. step \in [[D -> Int] -> [D -> Int]]
  <2>1. \A at \in [D -> Int], q \in D : Measure(s, at, q[1], q[2]) \in Int
      BY MeasureInt
  <2> QED
      BY <2>1
<1>4. ASSUME NEW f \in [D -> Int], NEW g \in [D -> Int], NEW at \in D,
             \A b \in D : span[b] \subseteq span[at] /\ span[b] # span[at] => f[b] = g[b]
      PROVE  step[f][at] = step[g][at]
  <2>1. PICK what \in Quantity, n \in Node : at = <<what, n>>
      OBVIOUS
  <2>2. Lower(s, f, g, what, n)
    <3> SUFFICES ASSUME NEW q \in Quantity, NEW x \in Node, Less(Span(s, q, x), Span(s, what, n))
                 PROVE  f[<<q, x>>] = g[<<q, x>>]
        BY DEF Lower
    <3>1. <<q, x>> \in D /\ span[<<q, x>>] = Span(s, q, x) /\ span[at] = Span(s, what, n)
        BY <2>1
    <3> HIDE DEF span
    <3> QED
        BY <1>4, <3>1 DEF Less
  <2>3. Measure(s, f, what, n) = Measure(s, g, what, n)
      BY <2>2, MeasureLower
  <2> QED
      BY <2>1, <2>3
<1> HIDE DEF D, span, step
<1>5. Ranked(D, Int, Node \X (0 .. 4), span, step)
    BY <1>1, <1>2, <1>3, <1>4 DEF Ranked
<1> QED
    BY <1>5 DEF D, span, step

\* Every quantity is defined: none rests on itself.
LEMMA PlacesAreDefined ==
    ASSUME NEW s \in Schemas
    PROVE  /\ Places(s) \in [Quantity \X Node -> Int]
           /\ \A what \in Quantity, n \in Node :
                Places(s)[<<what, n>>] = Measure(s, Places(s), what, n)
<1> DEFINE D == Quantity \X Node
           step == [at \in [D -> Int] |-> [q \in D |-> Measure(s, at, q[1], q[2])]]
           at == Places(s)
<1>1. PICK f \in [D -> Int] : f = step[f]
  <2> HIDE DEF step, D
  <2>1. Ranked(D, Int, Node \X (0 .. 4), [q \in D |-> Span(s, q[1], q[2])], step)
      BY PlacesRanked DEF step, D
  <2> QED
      BY <2>1, RankedRecursion
<1>2. f = [q \in D |-> Measure(s, f, q[1], q[2])]
    BY <1>1
<1>3. at = CHOOSE g : g = [q \in D |-> Measure(s, g, q[1], q[2])]
    BY DEF Places
<1>4. at = [q \in D |-> Measure(s, at, q[1], q[2])]
    BY <1>2, <1>3
<1> HIDE DEF at
<1>5. \A what \in Quantity, n \in Node : at[<<what, n>>] = Measure(s, at, what, n)
  <2> SUFFICES ASSUME NEW what \in Quantity, NEW n \in Node
               PROVE  at[<<what, n>>] = Measure(s, at, what, n)
      OBVIOUS
  <2>1. <<what, n>> \in D
      OBVIOUS
  <2> QED
      BY <1>4, <2>1
<1>6. \A q \in D : at[q] \in Int
  <2> DEFINE bad == {q \in D : at[q] \notin Int}
             B == {Span(s, q[1], q[2]) : q \in bad}
  <2> SUFFICES ASSUME bad # {}
               PROVE  FALSE
      OBVIOUS
  <2>1. IsFiniteSet(Node \X (0 .. 4)) /\ \A q \in D : Span(s, q[1], q[2]) \subseteq Node \X (0 .. 4)
      BY PlacesRanked, SpanNode DEF Ranked
  <2>2. B \subseteq SUBSET (Node \X (0 .. 4)) /\ B # {}
      BY <2>1
  <2>3. PICK x \in B : \A y \in B : y \subseteq x => y = x
    <3> DEFINE W == Node \X (0 .. 4)
    <3>1. IsFiniteSet(W) /\ B \subseteq SUBSET W /\ B # {}
        BY <2>1, <2>2
    <3> HIDE DEF W, B
    <3> QED
        BY ONLY <3>1, LeastSet
  <2>4. PICK q \in bad : x = Span(s, q[1], q[2])
      OBVIOUS
  <2>5. PICK what \in Quantity, n \in Node : q = <<what, n>>
      OBVIOUS
  <2> DEFINE g == [b \in D |-> IF at[b] \in Int THEN at[b] ELSE 0]
  <2>6. g \in [D -> Int]
      OBVIOUS
  <2>7. Lower(s, at, g, what, n)
    <3> SUFFICES ASSUME NEW p \in Quantity, NEW y \in Node, Less(Span(s, p, y), Span(s, what, n))
                 PROVE  at[<<p, y>>] = g[<<p, y>>]
        BY DEF Lower
    <3>1. <<p, y>> \in D /\ x = Span(s, what, n)
        BY <2>4, <2>5
    <3>2. <<p, y>> \in bad => Span(s, p, y) \in B
        BY <3>1
    <3>3. <<p, y>> \notin bad
        BY <2>3, <3>1, <3>2 DEF Less
    <3> QED
        BY <3>1, <3>3
  <2> HIDE DEF g, B
  <2>8. Measure(s, at, what, n) = Measure(s, g, what, n)
      BY <2>7, MeasureLower
  <2>9. Measure(s, g, what, n) \in Int
    <3>1. g \in [Quantity \X Node -> Int]
        BY <2>6
    <3> QED
        BY <3>1, MeasureInt
  <2>10. at[<<what, n>>] \in Int
      BY <1>5, <2>8, <2>9
  <2> QED
      BY <2>5, <2>10
<1>7. at \in [D -> Int]
  <2> HIDE DEF D
  <2> QED
      BY <1>4, <1>6
<1> QED
    BY <1>5, <1>7 DEF at

-----------------------------------------------------------------------------
(* Where a schema puts its nodes.                                          *)

LEMMA PlaceIs ==
    ASSUME schema \in Schemas, NEW n \in Node, NEW what \in Quantity
    PROVE  /\ Places(schema)[<<what, n>>] \in Int
           /\ Places(schema)[<<what, n>>] = Measure(schema, Places(schema), what, n)
<1>1. Places(schema) \in [Quantity \X Node -> Int]
    BY PlacesAreDefined
<1> QED
    BY <1>1, PlacesAreDefined

LEMMA PlaceTypes ==
    ASSUME schema \in Schemas, NEW n \in Node
    PROVE  /\ Begin(n) \in Int /\ Extent(n) \in Int
           /\ IoBegin(n) \in Int /\ IoEnd(n) \in Int /\ Limit(n) \in Int
BY PlaceIs DEF Quantity, Begin, Extent, IoBegin, IoEnd, Limit

LEMMA SchemaFacts ==
    ASSUME schema \in Schemas
    PROVE  /\ schema \in Schema /\ Readable(schema)
           /\ schema.data \in Seq(Nat) /\ Len(schema.data) \in Nat
           /\ \A n \in Node : /\ schema.kind[n] \in {"u1", "bytes", "user"}
                              /\ schema.size[n].how \in {"none", "eos", "lit", "field"}
                              /\ schema.size[n].k \in Nat /\ schema.size[n].of \in Node
           /\ \A n \in Field : schema.pos[n] \in Nat
<1>1. schema \in Schema /\ Readable(schema)
    BY SchemasAssumption, SchemasAreReadable
<1>2. schema.data \in Seq(Nat) /\ schema.size \in [Node -> Size] /\ schema.pos \in [Field -> Nat]
    BY <1>1 DEF Schema
<1>3. \A n \in Node : schema.kind[n] \in {"u1", "bytes", "user"}
    BY <1>1 DEF Schema
<1>4. \A n \in Node : schema.size[n] \in Size
    BY <1>2
<1>5. \A n \in Node : /\ schema.size[n].how \in {"none", "eos", "lit", "field"}
                      /\ schema.size[n].k \in Nat /\ schema.size[n].of \in Node
    BY <1>4 DEF Size
<1>6. Len(schema.data) \in Nat /\ \A n \in Field : schema.pos[n] \in Nat
    BY <1>2
<1> QED
    BY <1>1, <1>2, <1>3, <1>5, <1>6

LEMMA RootPlace ==
    ASSUME schema \in Schemas
    PROVE  /\ Begin(Root) = 0 /\ IoBegin(Root) = 0
           /\ IoEnd(Root) = Len(schema.data) /\ Limit(Root) = Len(schema.data)
<1>1. Root \in Node
    BY DEF Node
<1>2. \A what \in Quantity :
        Places(schema)[<<what, Root>>] = Measure(schema, Places(schema), what, Root)
    BY <1>1, PlaceIs
<1>3. Begin(Root) = 0
    BY <1>2 DEF Quantity, Begin, Measure
<1>4. IoBegin(Root) = 0
    BY <1>2 DEF Quantity, IoBegin, Measure
<1>5. IoEnd(Root) = Len(schema.data)
    BY <1>2 DEF Quantity, IoEnd, Measure
<1>6. Limit(Root) = Len(schema.data)
    BY <1>2 DEF Quantity, Limit, Measure
<1> QED
    BY <1>3, <1>4, <1>5, <1>6

LEMMA BeginIs ==
    ASSUME schema \in Schemas, NEW n \in Field
    PROVE  /\ ~IsSeq(n) => Begin(n) = IoBegin(Parent[n]) + schema.pos[n]
           /\ IsSeq(n) /\ SeqIndex(n) = 1 => Begin(n) = Begin(Parent[n])
           /\ IsSeq(n) /\ SeqIndex(n) # 1 => Begin(n) = Begin(Pred(n)) + Extent(Pred(n))
<1>1. n \in Node /\ n # Root
    BY NotRoot
<1>2. Places(schema)[<<"begin", n>>] = Measure(schema, Places(schema), "begin", n)
    BY <1>1, PlaceIs DEF Quantity
<1> QED
    BY <1>1, <1>2 DEF Measure, Begin, Extent, IoBegin

LEMMA WindowIs ==
    ASSUME schema \in Schemas, NEW n \in Field
    PROVE  /\ HasSize(n) => /\ IoBegin(n) = Begin(n) /\ IoEnd(n) = Begin(n) + Extent(n)
                            /\ Limit(n) = Smaller(Begin(n) + Extent(n), Limit(Parent[n]))
           /\ ~HasSize(n) => /\ IoBegin(n) = IoBegin(Parent[n]) /\ IoEnd(n) = IoEnd(Parent[n])
                             /\ Limit(n) = Limit(Parent[n])
<1>1. n \in Node /\ n # Root
    BY NotRoot
<1>2. Places(schema)[<<"ioBegin", n>>] = Measure(schema, Places(schema), "ioBegin", n)
    BY <1>1, PlaceIs DEF Quantity
<1>3. Places(schema)[<<"ioEnd", n>>] = Measure(schema, Places(schema), "ioEnd", n)
    BY <1>1, PlaceIs DEF Quantity
<1>4. Places(schema)[<<"limit", n>>] = Measure(schema, Places(schema), "limit", n)
    BY <1>1, PlaceIs DEF Quantity
<1>5. HasSize(n) => IoBegin(n) = Begin(n) /\ IoEnd(n) = Begin(n) + Extent(n)
    BY <1>1, <1>2, <1>3 DEF Measure, HasSize, Begin, Extent, IoBegin, IoEnd
<1>6. HasSize(n) => Limit(n) = Smaller(Begin(n) + Extent(n), Limit(Parent[n]))
    BY <1>1, <1>4 DEF Measure, HasSize, Begin, Extent, Limit
<1>7. ~HasSize(n) => /\ IoBegin(n) = IoBegin(Parent[n]) /\ IoEnd(n) = IoEnd(Parent[n])
                     /\ Limit(n) = Limit(Parent[n])
    BY <1>1, <1>2, <1>3, <1>4 DEF Measure, HasSize, IoBegin, IoEnd, Limit
<1> QED
    BY <1>5, <1>6, <1>7

\* The last field of a struct.
Last(n) == Kids[n][Len(Kids[n])]

LEMMA ExtentIs ==
    ASSUME schema \in Schemas, NEW n \in Field
    PROVE  LET size == schema.size[n] IN
           /\ size.how = "lit" => Extent(n) = size.k
           /\ size.how = "field" =>
                Extent(n) = IF Begin(size.of) \in 0 .. Len(schema.data) - 1
                            THEN schema.data[Begin(size.of) + 1] ELSE 0
           /\ size.how = "eos" => Extent(n) = IoEnd(Parent[n]) - Begin(n)
           /\ size.how = "none" /\ schema.kind[n] # "user" => Extent(n) = 1
           /\ size.how = "none" /\ schema.kind[n] = "user" =>
                Extent(n) = IF Kids[n] = <<>> THEN 0
                            ELSE Begin(Last(n)) + Extent(Last(n)) - Begin(n)
<1>1. n \in Node /\ n # Root
    BY NotRoot
<1>2. Extent(n) = Measure(schema, Places(schema), "extent", n)
    BY <1>1, PlaceIs DEF Quantity, Extent
<1> DEFINE size == schema.size[n]
<1>3. size.how = "lit" => Extent(n) = size.k
    BY <1>2 DEF Measure
<1>4. size.how = "field" =>
        Extent(n) = IF Begin(size.of) \in 0 .. Len(schema.data) - 1
                    THEN schema.data[Begin(size.of) + 1] ELSE 0
    BY <1>2 DEF Measure, Begin
<1>5. size.how = "eos" => Extent(n) = IoEnd(Parent[n]) - Begin(n)
    BY <1>1, <1>2 DEF Measure, Begin, IoEnd
<1>6. size.how = "none" /\ schema.kind[n] # "user" => Extent(n) = 1
  <2> SUFFICES ASSUME schema.size[n].how = "none", schema.kind[n] # "user"
               PROVE  Extent(n) = 1
      OBVIOUS
  <2> QED
      BY <1>1, <1>2 DEF Measure
<1>7. size.how = "none" /\ schema.kind[n] = "user" =>
        Extent(n) = IF Kids[n] = <<>> THEN 0 ELSE Begin(Last(n)) + Extent(Last(n)) - Begin(n)
  <2> SUFFICES ASSUME schema.size[n].how = "none", schema.kind[n] = "user"
               PROVE  Extent(n) = IF Kids[n] = <<>> THEN 0
                                  ELSE Begin(Last(n)) + Extent(Last(n)) - Begin(n)
      OBVIOUS
  <2>1. Extent(n) = IF Kids[n] = <<>> THEN 0
                    ELSE Places(schema)[<<"begin", Kids[n][Len(Kids[n])]>>]
                         + Places(schema)[<<"extent", Kids[n][Len(Kids[n])]>>]
                         - Places(schema)[<<"begin", n>>]
    <3> DEFINE at == Places(schema)
    <3>1. Extent(n) = Measure(schema, at, "extent", n)
        BY <1>2
    <3> HIDE DEF at
    <3>2. CASE Kids[n] = <<>>
        BY <1>1, <3>1, <3>2 DEF Measure
    <3>3. CASE Kids[n] # <<>>
      <4> DEFINE last == Kids[n][Len(Kids[n])]
                 result == at[<<"begin", last>>] + at[<<"extent", last>>] - at[<<"begin", n>>]
      <4>1. last \in Node
        <5>1. Kids[n] \in Seq(Field) /\ Len(Kids[n]) \in DOMAIN Kids[n]
            BY <1>1, <3>3, TreeAssumption
        <5> QED
            BY <1>1, <5>1, KidFacts
      <4>2. at[<<"begin", last>>] \in Int /\ at[<<"extent", last>>] \in Int /\ at[<<"begin", n>>] \in Int
          BY <1>1, <4>1, PlaceIs DEF at, Quantity
      <4>3. Measure(schema, at, "extent", n) = result
          BY <1>1, <3>3, <4>2 DEF Measure
      <4> QED
          BY <3>1, <3>3, <4>2, <4>3 DEF at
    <3> QED
        BY <3>2, <3>3 DEF at
  <2> QED
      BY <2>1 DEF Begin, Extent, Last
<1> QED
    BY <1>3, <1>4, <1>5, <1>6, <1>7

\* What counts upwards along the fields of a struct.
LEMMA AlongKids ==
    ASSUME NEW n \in Node, NEW T, \A k \in DOMAIN Kids[n] : (\A j \in 1 .. k - 1 : j \in T) => k \in T
    PROVE  DOMAIN Kids[n] \subseteq T
<1>0. DOMAIN Kids[n] = 1 .. Len(Kids[n]) /\ Len(Kids[n]) \in Nat
    BY TreeAssumption
<1> DEFINE U == {k \in Nat : k <= Len(Kids[n]) => 1 .. k \subseteq T}
<1>1. 0 \in U
    OBVIOUS
<1>2. ASSUME NEW k \in U
      PROVE  k + 1 \in U
  <2> SUFFICES ASSUME k + 1 <= Len(Kids[n])
               PROVE  1 .. k + 1 \subseteq T
      OBVIOUS
  <2>1. 1 .. k \subseteq T /\ k \in Nat
      BY <1>0
  <2>2. (k + 1) - 1 = k /\ k + 1 \in DOMAIN Kids[n]
      BY <1>0, <2>1
  <2>3. k + 1 \in T
      BY <2>1, <2>2
  <2> QED
      BY <2>1, <2>3
<1> HIDE DEF U
<1>3. U = Nat
  <2>1. U \subseteq Nat
      BY DEF U
  <2> QED
      BY <1>1, <1>2, <2>1, NatSets
<1>4. Len(Kids[n]) \in Nat /\ DOMAIN Kids[n] = 1 .. Len(Kids[n])
    BY <1>0
<1>5. Len(Kids[n]) \in U
    BY <1>3, <1>4
<1> QED
    BY <1>4, <1>5 DEF U

LEMMA LastKid ==
    ASSUME NEW n \in Node, Kids[n] # <<>>
    PROVE  Len(Kids[n]) \in DOMAIN Kids[n] /\ Last(n) \in Field
<1>1. Kids[n] \in Seq(Field) /\ Len(Kids[n]) \in DOMAIN Kids[n]
    BY TreeAssumption
<1> QED
    BY <1>1, KidFacts DEF Last

\* A field that takes the rest of its stream is the last in it.
LEMMA EosIsLast ==
    ASSUME schema \in Schemas, NEW n \in Field, IsSeq(n), schema.size[n].how = "eos"
    PROVE  SeqIndex(n) = Len(Kids[Parent[n]]) /\ (Parent[n] = Root \/ HasSize(Parent[n]))
BY SchemaFacts DEF Readable, HasSize

LEMMA ExtentNat ==
    ASSUME schema \in Schemas
    PROVE  \A n \in Field : schema.size[n].how # "eos" => Extent(n) \in Nat
<1> DEFINE T == {n \in Node : n \in Field /\ schema.size[n].how # "eos" => Extent(n) >= 0}
<1>1. ASSUME NEW n \in Node, Parts[n] \subseteq T
      PROVE  n \in T
  <2> SUFFICES ASSUME n \in Field, schema.size[n].how # "eos"
               PROVE  Extent(n) >= 0
      OBVIOUS
  <2>1. CASE schema.size[n].how = "lit"
    <3>1. Extent(n) = schema.size[n].k
        BY <2>1, ExtentIs
    <3>2. schema.size[n].k \in Nat
        BY SchemaFacts
    <3> QED
        BY <3>1, <3>2
  <2>2. CASE schema.size[n].how = "field"
    <3> DEFINE at == Begin(schema.size[n].of)
    <3>1. CASE at \in 0 .. Len(schema.data) - 1
      <4>1. at + 1 \in 1 .. Len(schema.data)
          BY <3>1, SchemaFacts
      <4>2. schema.data[at + 1] \in Nat
          BY <4>1, SchemaFacts
      <4> QED
          BY <2>2, <3>1, <4>2, ExtentIs
    <3>2. CASE at \notin 0 .. Len(schema.data) - 1
        BY <2>2, <3>2, ExtentIs
    <3> QED
        BY <3>1, <3>2
  <2>3. CASE schema.size[n].how = "none" /\ schema.kind[n] # "user"
      BY <2>3, ExtentIs
  <2>4. CASE schema.size[n].how = "none" /\ schema.kind[n] = "user" /\ Kids[n] = <<>>
      BY <2>4, ExtentIs
  <2>5. CASE schema.size[n].how = "none" /\ schema.kind[n] = "user" /\ Kids[n] # <<>>
    <3>1. ASSUME NEW k \in DOMAIN Kids[n], schema.size[Kids[n][k]].how # "eos"
          PROVE  Extent(Kids[n][k]) \in Nat
      <4>1. Extent(Kids[n][k]) \in Int /\ Kids[n][k] \in Parts[n] /\ Kids[n][k] \in Field
          BY KidFacts, PlaceTypes
      <4> QED
          BY <1>1, <3>1, <4>1
    <3> HIDE DEF T
    <3> DEFINE U == {k \in DOMAIN Kids[n] : Begin(Kids[n][k]) >= Begin(n)}
    <3>2. ASSUME NEW k \in DOMAIN Kids[n], \A j \in 1 .. k - 1 : j \in U
          PROVE  k \in U
      <4> DEFINE m == Kids[n][k]
      <4>0. m \in Field /\ IsSeq(m) /\ SeqIndex(m) = k /\ Parent[m] = n /\ k \in Nat /\ k >= 1
          BY KidFacts
      <4>1. CASE k = 1
        <5>1. Begin(m) = Begin(n) /\ Begin(n) \in Int
            BY <4>0, <4>1, BeginIs, PlaceTypes
        <5> HIDE DEF m
        <5>2. Begin(m) >= Begin(n)
            BY <5>1
        <5> QED
            BY <5>2 DEF m
      <4>2. CASE k # 1
        <5> DEFINE q == Kids[n][k - 1]
        <5>1. k - 1 \in 1 .. k - 1 /\ k - 1 \in U /\ k - 1 # Len(Kids[n])
          <6>1. k - 1 \in 1 .. k - 1
              BY <4>0, <4>2
          <6>2. k <= Len(Kids[n]) /\ Len(Kids[n]) \in Nat
              BY KidFacts, TreeAssumption
          <6> QED
              BY <3>2, <4>0, <6>1, <6>2
        <5>2. q \in Field /\ q \in Node /\ IsSeq(q) /\ SeqIndex(q) = k - 1 /\ Parent[q] = n
            BY <5>1, KidFacts
        <5>3. schema.size[q].how # "eos"
            BY <5>1, <5>2, EosIsLast
        <5>4. Extent(q) \in Nat /\ Begin(q) >= Begin(n)
            BY <3>1, <5>1, <5>3
        <5>5. Pred(m) = q
            BY <4>0, <4>2 DEF Pred
        <5>6. Begin(m) = Begin(q) + Extent(q)
            BY <4>0, <4>2, <5>5, BeginIs
        <5> HIDE DEF m, q
        <5>9. Begin(q) \in Int /\ Begin(n) \in Int
            BY <5>2, PlaceTypes
        <5>7. Begin(m) >= Begin(n)
            BY <5>4, <5>6, <5>9
        <5> QED
            BY <5>7 DEF m
      <4> QED
          BY <4>1, <4>2
    <3>3. DOMAIN Kids[n] \subseteq U
      <4> HIDE DEF U
      <4> QED
          BY <3>2, AlongKids
    <3>4. Len(Kids[n]) \in U /\ Last(n) \in Field /\ Last(n) \in Node
        BY <2>5, <3>3, LastKid, NotRoot
    <3>5. schema.size[Last(n)].how # "eos"
      <4>1. Parent[Last(n)] = n /\ IsSeq(Last(n)) /\ n # Root
          BY <2>5, LastKid, KidFacts, NotRoot DEF Last
      <4> QED
          BY <2>5, <3>4, <4>1, EosIsLast DEF HasSize
    <3>6. Extent(Last(n)) \in Nat /\ Begin(Last(n)) >= Begin(n)
        BY <2>5, <3>1, <3>4, <3>5, LastKid DEF Last
    <3>7. Extent(n) = Begin(Last(n)) + Extent(Last(n)) - Begin(n)
        BY <2>5, ExtentIs
    <3>8. Begin(Last(n)) \in Int /\ Begin(n) \in Int
        BY <3>4, PlaceTypes
    <3> QED
        BY <3>6, <3>7, <3>8
  <2> QED
      BY <2>1, <2>2, <2>3, <2>4, <2>5, SchemaFacts
<1> HIDE DEF T
<1>2. Node \subseteq T
    BY <1>1, BottomUp
<1> SUFFICES ASSUME NEW n \in Field, schema.size[n].how # "eos"
             PROVE  Extent(n) \in Nat
    OBVIOUS
<1>3. n \in Node /\ n # Root
    BY NotRoot
<1>4. Extent(n) >= 0
    BY <1>2, <1>3 DEF T
<1>5. Extent(n) \in Int
    BY <1>3, PlaceTypes
<1> QED
    BY <1>4, <1>5

LEMMA BeginNat ==
    ASSUME schema \in Schemas
    PROVE  \A n \in Node : Begin(n) \in Nat /\ IoBegin(n) \in Nat /\ Limit(n) <= Len(schema.data)
<1> DEFINE T == {n \in Node : Begin(n) >= 0 /\ IoBegin(n) >= 0 /\ Limit(n) <= Len(schema.data)}
<1>1. Root \in T
    BY RootPlace, SchemaFacts DEF Node
<1>2. ASSUME NEW n \in T \cap Node, NEW m \in Field, Parent[m] = n, Begin(m) >= 0
      PROVE  m \in T
  <2>1. CASE HasSize(m)
    <3>1. IoBegin(m) = Begin(m) /\ Limit(m) = Smaller(Begin(m) + Extent(m), Limit(n))
        BY <1>2, <2>1, WindowIs
    <3>2. /\ Begin(m) \in Int /\ Extent(m) \in Int /\ Limit(m) \in Int /\ Limit(n) \in Int
          /\ Len(schema.data) \in Int /\ m \in Node
        BY PlaceTypes, NotRoot, SchemaFacts
    <3>3. Limit(m) <= Limit(n)
        BY <3>1, <3>2 DEF Smaller
    <3>4. Limit(m) <= Len(schema.data)
        BY <1>2, <3>2, <3>3
    <3> QED
        BY <1>2, <3>1, <3>2, <3>4
  <2>2. CASE ~HasSize(m)
      BY <1>2, <2>2, WindowIs, NotRoot
  <2> QED
      BY <2>1, <2>2
<1>3. ASSUME NEW n \in T \cap Node, NEW m \in Parts[n]
      PROVE  m \in T
  <2>0. m \in Field /\ Parent[m] = n /\ Begin(n) >= 0 /\ IoBegin(n) >= 0
      BY ParentUnique
  <2>1. CASE ~IsSeq(m)
    <3>1. Begin(m) = IoBegin(n) + schema.pos[m] /\ schema.pos[m] \in Nat
        BY <2>0, <2>1, BeginIs, SchemaFacts
    <3>3. IoBegin(n) \in Int
        BY <1>3, PlaceTypes
    <3>2. Begin(m) >= 0
        BY <2>0, <3>1, <3>3
    <3> HIDE DEF T
    <3> QED
        BY <1>2, <2>0, <3>2
  <2>2. CASE IsSeq(m)
    <3> DEFINE U == {k \in DOMAIN Kids[n] : Begin(Kids[n][k]) >= 0}
    <3>1. ASSUME NEW k \in DOMAIN Kids[n], \A j \in 1 .. k - 1 : j \in U
          PROVE  k \in U
      <4> DEFINE x == Kids[n][k]
      <4>0. x \in Field /\ IsSeq(x) /\ SeqIndex(x) = k /\ Parent[x] = n /\ k \in Nat /\ k >= 1
          BY KidFacts
      <4>1. CASE k = 1
          BY <2>0, <4>0, <4>1, BeginIs
      <4>2. CASE k # 1
        <5> DEFINE q == Kids[n][k - 1]
        <5>1. k - 1 \in 1 .. k - 1 /\ k - 1 \in U /\ k - 1 # Len(Kids[n])
          <6>1. k - 1 \in 1 .. k - 1
              BY <4>0, <4>2
          <6>2. k <= Len(Kids[n]) /\ Len(Kids[n]) \in Nat
              BY KidFacts, TreeAssumption
          <6> QED
              BY <3>1, <4>0, <6>1, <6>2
        <5>2. q \in Field /\ q \in Node /\ IsSeq(q) /\ SeqIndex(q) = k - 1 /\ Parent[q] = n
            BY <5>1, KidFacts
        <5>3. Extent(q) \in Nat /\ Begin(q) >= 0
            BY <5>1, <5>2, EosIsLast, ExtentNat
        <5>4. Pred(x) = q
            BY <4>0, <4>2 DEF Pred
        <5>5. Begin(x) = Begin(q) + Extent(q)
            BY <4>0, <4>2, <5>4, BeginIs
        <5> HIDE DEF x, q
        <5>7. Begin(q) \in Int
            BY <5>2, PlaceTypes
        <5>6. Begin(x) >= 0
            BY <5>3, <5>5, <5>7
        <5> QED
            BY <5>6 DEF x
      <4> QED
          BY <4>1, <4>2
    <3>2. DOMAIN Kids[n] \subseteq U
      <4> HIDE DEF U
      <4> QED
          BY <3>1, AlongKids
    <3>3. Begin(m) >= 0
      <4>1. SeqIndex(m) \in U /\ Kids[n][SeqIndex(m)] = m
          BY <2>0, <2>2, <3>2, SeqFacts
      <4> QED
          BY <4>1
    <3> HIDE DEF T
    <3> QED
        BY <1>2, <2>0, <3>3
  <2> QED
      BY <2>1, <2>2
<1>4. Node \subseteq T
  <2> HIDE DEF T
  <2> QED
      BY <1>1, <1>3, TopDown
<1> QED
    BY <1>4, PlaceTypes

-----------------------------------------------------------------------------
(* Static sizes: StaticSum is the solution of its equations.               *)

\* What the field m of a struct adds to its static size, -1 if that is open.
Added(sum, m) ==
    IF schema.kind[m] = "u1" THEN 1
    ELSE IF schema.kind[m] = "bytes"
         THEN IF schema.size[m].how = "lit" THEN schema.size[m].k ELSE -1
    ELSE IF schema.nested THEN sum[<<m, Len(Kids[m])>>] ELSE -1

Summed(sum, n, k) ==
    IF k = 0 THEN 0
    ELSE IF sum[<<n, k - 1>>] < 0 \/ Added(sum, Kids[n][k]) < 0 THEN -1
    ELSE sum[<<n, k - 1>>] + Added(sum, Kids[n][k])

LEMMA AddedInt ==
    ASSUME schema \in Schema, NEW sum, NEW m \in Node, sum[<<m, Len(Kids[m])>>] \in Int
    PROVE  Added(sum, m) \in Int
<1>1. schema.size[m].k \in Nat
    BY DEF Schema, Size
<1>2. \A k \in Nat : k \in Int
    OBVIOUS
<1>3. 1 \in Int /\ -1 \in Int
    OBVIOUS
<1> QED
    BY <1>1, <1>2, <1>3 DEF Added

\* The nodes that the size of the first fields of a struct rests on.
Spanned(n, k) == {n} \cup UNION {Below[Kids[n][j]] : j \in 1 .. k}

LEMMA PrefixFacts ==
    ASSUME NEW at \in Prefixes
    PROVE  \E n \in Node : \E k \in 0 .. Len(Kids[n]) : at = <<n, k>>
BY DEF Prefixes

LEMMA PrefixIs ==
    ASSUME NEW n \in Node, NEW k \in 0 .. Len(Kids[n])
    PROVE  <<n, k>> \in Prefixes
BY DEF Prefixes

LEMMA SpannedSmaller ==
    ASSUME NEW n \in Node, NEW k \in DOMAIN Kids[n]
    PROVE  LET m == Kids[n][k] IN
           /\ Spanned(n, k) \subseteq Node
           /\ Spanned(n, k - 1) \subseteq Spanned(n, k) /\ Spanned(n, k - 1) # Spanned(n, k)
           /\ Spanned(m, Len(Kids[m])) \subseteq Spanned(n, k) /\ Spanned(m, Len(Kids[m])) # Spanned(n, k)
<1> DEFINE m == Kids[n][k]
<1>0. /\ k \in 1 .. k /\ 1 .. k - 1 \subseteq 1 .. k /\ 1 .. k \subseteq DOMAIN Kids[n]
      /\ m \in Field /\ m \in Node /\ Parent[m] = n /\ m # n
  <2>1. DOMAIN Kids[n] = 1 .. Len(Kids[n])
      BY TreeAssumption
  <2> QED
      BY <2>1, KidFacts, NotRoot
<1>1. Spanned(n, k) \subseteq Node
  <2>1. \A j \in 1 .. k : Below[Kids[n][j]] \subseteq Node
      BY <1>0, KidFacts, BelowSelf
  <2> QED
      BY <2>1 DEF Spanned
<1>2. m \in Spanned(n, k)
    BY <1>0, BelowSelf DEF Spanned
<1>3. ASSUME NEW j \in 1 .. k - 1
      PROVE  m \notin Below[Kids[n][j]]
  <2>1. j \in DOMAIN Kids[n] /\ j # k /\ Kids[n][j] \in Field /\ Parent[Kids[n][j]] = n
      BY <1>0, KidFacts
  <2>2. Kids[n][j] # m
      BY <2>1, TreeIsFinite
  <2>3. Below[m] \cap Below[Kids[n][j]] = {}
      BY <1>0, <2>1, <2>2, PartsApart
  <2> QED
      BY <1>0, <2>3, BelowSelf
<1>4. m \notin Spanned(n, k - 1)
    BY <1>0, <1>3 DEF Spanned
<1>5. Spanned(n, k - 1) \subseteq Spanned(n, k)
    BY <1>0 DEF Spanned
<1>6. Spanned(m, Len(Kids[m])) \subseteq Below[m]
  <2>1. m \in Below[m]
      BY <1>0, BelowSelf
  <2>2. \A j \in DOMAIN Kids[m] : Kids[m][j] \in Below[m]
      BY <1>0, <2>1, KidFacts, BelowParts
  <2>3. \A j \in DOMAIN Kids[m] : Below[Kids[m][j]] \subseteq Below[m]
      BY <1>0, <2>2, BelowTrans
  <2>4. DOMAIN Kids[m] = 1 .. Len(Kids[m])
      BY <1>0, TreeAssumption
  <2> HIDE DEF m
  <2> QED
      BY <2>1, <2>3, <2>4 DEF Spanned
<1>7. Below[m] \subseteq Spanned(n, k)
    BY <1>0 DEF Spanned
<1>8. n \in Spanned(n, k) /\ n \notin Below[m]
    BY <1>0, NoCycle DEF Spanned
<1> HIDE DEF m
<1>9. /\ Spanned(n, k - 1) # Spanned(n, k)
      /\ Spanned(m, Len(Kids[m])) \subseteq Spanned(n, k) /\ Spanned(m, Len(Kids[m])) # Spanned(n, k)
    BY <1>2, <1>4, <1>6, <1>7, <1>8
<1> QED
    BY <1>1, <1>5, <1>9 DEF m

LEMMA StaticRanked ==
    ASSUME schema \in Schema
    PROVE  Ranked(Prefixes, Int, Node, [at \in Prefixes |-> Spanned(at[1], at[2])],
                  [sum \in [Prefixes -> Int] |-> [at \in Prefixes |-> Summed(sum, at[1], at[2])]])
<1> DEFINE span == [at \in Prefixes |-> Spanned(at[1], at[2])]
           step == [sum \in [Prefixes -> Int] |-> [at \in Prefixes |-> Summed(sum, at[1], at[2])]]
<1>1. IsFiniteSet(Node) /\ Int # {}
  <2>1. IsFiniteSet(Node)
      BY TreeIsFinite, FS_AddElement DEF Node
  <2>2. 0 \in Int
      OBVIOUS
  <2> QED
      BY <2>1, <2>2
<1>2. span \in [Prefixes -> SUBSET Node]
  <2> SUFFICES ASSUME NEW n \in Node, NEW k \in 0 .. Len(Kids[n])
               PROVE  Spanned(n, k) \subseteq Node
      BY PrefixFacts
  <2>1. CASE k = 0
      BY <2>1 DEF Spanned
  <2>2. CASE k # 0
    <3>1. k \in DOMAIN Kids[n]
        BY <2>2, TreeAssumption
    <3> QED
        BY <3>1, SpannedSmaller
  <2> QED
      BY <2>1, <2>2
<1>3. ASSUME NEW n \in Node, NEW k \in 0 .. Len(Kids[n]), k # 0
      PROVE  /\ k \in DOMAIN Kids[n] /\ <<n, k - 1>> \in Prefixes
             /\ Kids[n][k] \in Node /\ <<Kids[n][k], Len(Kids[Kids[n][k]])>> \in Prefixes
  <2>1. k \in DOMAIN Kids[n] /\ k - 1 \in 0 .. Len(Kids[n])
      BY <1>3, TreeAssumption
  <2>2. Kids[n][k] \in Node
      BY <2>1, KidFacts
  <2>3. Len(Kids[Kids[n][k]]) \in 0 .. Len(Kids[Kids[n][k]])
      BY <2>2, TreeAssumption
  <2> QED
      BY <2>1, <2>2, <2>3, PrefixIs
<1>5. step \in [[Prefixes -> Int] -> [Prefixes -> Int]]
  <2> SUFFICES ASSUME NEW sum \in [Prefixes -> Int], NEW n \in Node, NEW k \in 0 .. Len(Kids[n])
               PROVE  Summed(sum, n, k) \in Int
      BY PrefixFacts
  <2>1. CASE k = 0
      BY <2>1 DEF Summed
  <2>2. CASE k # 0
    <3>1. Added(sum, Kids[n][k]) \in Int /\ sum[<<n, k - 1>>] \in Int
      <4>1. \A b \in Prefixes : sum[b] \in Int
          OBVIOUS
      <4> QED
          BY <1>3, <2>2, <4>1, AddedInt
    <3> QED
        BY <2>2, <3>1 DEF Summed
  <2> QED
      BY <2>1, <2>2
<1>6. ASSUME NEW f \in [Prefixes -> Int], NEW g \in [Prefixes -> Int], NEW at \in Prefixes,
             \A b \in Prefixes : span[b] \subseteq span[at] /\ span[b] # span[at] => f[b] = g[b]
      PROVE  step[f][at] = step[g][at]
  <2>0. PICK n \in Node : \E k \in 0 .. Len(Kids[n]) : at = <<n, k>>
      BY PrefixFacts
  <2>1. PICK k \in 0 .. Len(Kids[n]) : at = <<n, k>>
      BY <2>0
  <2>2. CASE k = 0
      BY <2>1, <2>2 DEF Summed
  <2>3. CASE k # 0
    <3> DEFINE m == Kids[n][k]
    <3>0. /\ span[at] = Spanned(n, k) /\ span[<<n, k - 1>>] = Spanned(n, k - 1)
          /\ span[<<m, Len(Kids[m])>>] = Spanned(m, Len(Kids[m]))
        BY <1>3, <2>1, <2>3
    <3>5. /\ Spanned(n, k - 1) \subseteq Spanned(n, k) /\ Spanned(n, k - 1) # Spanned(n, k)
          /\ Spanned(m, Len(Kids[m])) \subseteq Spanned(n, k) /\ Spanned(m, Len(Kids[m])) # Spanned(n, k)
        BY <1>3, <2>3, SpannedSmaller
    <3>6. <<n, k - 1>> \in Prefixes /\ <<m, Len(Kids[m])>> \in Prefixes
        BY <1>3, <2>3
    <3>1. f[<<n, k - 1>>] = g[<<n, k - 1>>]
      <4> HIDE DEF span, m
      <4> QED
        BY <1>6, <3>0, <3>5, <3>6
    <3>2. f[<<m, Len(Kids[m])>>] = g[<<m, Len(Kids[m])>>]
      <4> HIDE DEF span, m
      <4> QED
        BY <1>6, <3>0, <3>5, <3>6
    <3>3. Added(f, m) = Added(g, m)
        BY <3>2 DEF Added
    <3>4. Summed(f, n, k) = Summed(g, n, k)
        BY <3>1, <3>3 DEF Summed
    <3> QED
        BY <2>1, <3>4
  <2> QED
      BY <2>2, <2>3
<1> HIDE DEF span, step
<1>7. Ranked(Prefixes, Int, Node, span, step)
    BY <1>1, <1>2, <1>5, <1>6 DEF Ranked
<1> QED
    BY <1>7 DEF span, step

LEMMA StaticEquation ==
    ASSUME schema \in Schema
    PROVE  /\ StaticSum \in [Prefixes -> Int]
           /\ \A n \in Node : \A k \in 0 .. Len(Kids[n]) : StaticSum[<<n, k>>] = Summed(StaticSum, n, k)
<1> DEFINE step == [sum \in [Prefixes -> Int] |-> [at \in Prefixes |-> Summed(sum, at[1], at[2])]]
<1>1. PICK f \in [Prefixes -> Int] : f = step[f]
  <2> HIDE DEF step
  <2>1. Ranked(Prefixes, Int, Node, [at \in Prefixes |-> Spanned(at[1], at[2])], step)
      BY StaticRanked DEF step
  <2> QED
      BY <2>1, RankedRecursion
<1>2. f = [at \in Prefixes |-> Summed(f, at[1], at[2])]
    BY <1>1
<1>3. StaticSum = CHOOSE g : g = [at \in Prefixes |-> Summed(g, at[1], at[2])]
    BY DEF StaticSum, Summed, Added
<1>4. StaticSum = [at \in Prefixes |-> Summed(StaticSum, at[1], at[2])]
    BY <1>2, <1>3
<1>5. \A at \in Prefixes : StaticSum[at] \in Int
  <2> DEFINE bad == {at \in Prefixes : StaticSum[at] \notin Int}
             B == {Spanned(at[1], at[2]) : at \in bad}
  <2> SUFFICES ASSUME bad # {}
               PROVE  FALSE
      OBVIOUS
  <2>1. IsFiniteSet(Node) /\ \A at \in Prefixes : Spanned(at[1], at[2]) \subseteq Node
      BY StaticRanked DEF Ranked
  <2>2. B \subseteq SUBSET Node /\ B # {}
      BY <2>1
  <2>3. PICK x \in B : \A y \in B : y \subseteq x => y = x
    <3> DEFINE W == Node
    <3>1. IsFiniteSet(W) /\ B \subseteq SUBSET W /\ B # {}
        BY <2>1, <2>2
    <3> HIDE DEF W, B
    <3> QED
        BY ONLY <3>1, LeastSet
  <2>4. PICK at \in bad : x = Spanned(at[1], at[2])
      OBVIOUS
  <2>5. PICK n \in Node : \E k \in 0 .. Len(Kids[n]) : at = <<n, k>>
      BY PrefixFacts
  <2>6. PICK k \in 0 .. Len(Kids[n]) : at = <<n, k>>
      BY <2>5
  <2>7. StaticSum[at] = Summed(StaticSum, n, k) /\ StaticSum[at] \notin Int
      BY <1>4, <2>6
  <2>8. k # 0
      BY <2>7 DEF Summed
  <2>9. ASSUME NEW b \in Prefixes, Spanned(b[1], b[2]) \subseteq x, Spanned(b[1], b[2]) # x
        PROVE  StaticSum[b] \in Int
      BY <2>3, <2>9
  <2> DEFINE m == Kids[n][k]
  <2>10. k \in DOMAIN Kids[n] /\ m \in Node
      BY <2>8, KidFacts, TreeAssumption
  <2>11. /\ <<n, k - 1>> \in Prefixes /\ <<m, Len(Kids[m])>> \in Prefixes
    <3>1. k - 1 \in 0 .. Len(Kids[n]) /\ Len(Kids[m]) \in 0 .. Len(Kids[m])
        BY <2>8, <2>10, TreeAssumption
    <3> QED
        BY <2>10, <3>1, PrefixIs
  <2>12. x = Spanned(n, k)
      BY <2>4, <2>6
  <2>13. /\ Spanned(n, k - 1) \subseteq x /\ Spanned(n, k - 1) # x
         /\ Spanned(m, Len(Kids[m])) \subseteq x /\ Spanned(m, Len(Kids[m])) # x
      BY <2>10, <2>12, SpannedSmaller
  <2>14. StaticSum[<<n, k - 1>>] \in Int
    <3> HIDE DEF m
    <3> QED
        BY <2>9, <2>11, <2>13
  <2>15. StaticSum[<<m, Len(Kids[m])>>] \in Int
    <3> HIDE DEF m
    <3> QED
        BY <2>9, <2>11, <2>13
  <2>16. Added(StaticSum, m) \in Int
    <3> HIDE DEF m
    <3> QED
        BY <2>10, <2>15, AddedInt
  <2> HIDE DEF m
  <2>17. Summed(StaticSum, n, k) \in Int
      BY <2>8, <2>14, <2>16 DEF Summed, m
  <2> QED
      BY <2>7, <2>17
<1>6. StaticSum \in [Prefixes -> Int]
    BY <1>4, <1>5
<1>7. ASSUME NEW n \in Node, NEW k \in 0 .. Len(Kids[n])
      PROVE  StaticSum[<<n, k>>] = Summed(StaticSum, n, k)
  <2> DEFINE sum == StaticSum
  <2>1. sum = [at \in Prefixes |-> Summed(sum, at[1], at[2])] /\ <<n, k>> \in Prefixes
      BY <1>4, PrefixIs
  <2> HIDE DEF sum
  <2>2. sum[<<n, k>>] = Summed(sum, n, k)
      BY <2>1
  <2> QED
      BY <2>2 DEF sum
<1> QED
    BY <1>6, <1>7

\* If nothing in a struct has a size of its own that it ignores, its static
\* size, where there is one, is what it takes.
LEMMA StaticExtent ==
    ASSUME schema \in Schemas, Counted, NEW n \in Field, schema.kind[n] = "user", ~HasSize(n),
           StaticSize(n) >= 0
    PROVE  StaticSize(n) = Extent(n)
<1> DEFINE sum == StaticSum
           Ends(m, k) == sum[<<m, k>>] >= 0 =>
                           Begin(Kids[m][k]) + Extent(Kids[m][k]) = Begin(m) + sum[<<m, k>>]
           T == {m \in Node : m = Root \/ \A k \in DOMAIN Kids[m] : Ends(m, k)}
<1>1. \A m \in Node : /\ DOMAIN Kids[m] = 1 .. Len(Kids[m]) /\ Len(Kids[m]) \in Nat
                      /\ Kids[m] = <<>> \/ Len(Kids[m]) \in DOMAIN Kids[m]
    BY TreeAssumption
<1>2. /\ \A m \in Node : \A k \in 0 .. Len(Kids[m]) : /\ sum[<<m, k>>] = Summed(sum, m, k)
                                                    /\ sum[<<m, k>>] \in Int
  <2>1. \A m \in Node : \A k \in 0 .. Len(Kids[m]) : <<m, k>> \in Prefixes
      BY PrefixIs
  <2> QED
      BY <2>1, StaticEquation, SchemaFacts
<1> HIDE DEF sum
<1>3. ASSUME NEW m \in Field, m \in T, schema.kind[m] = "user", ~HasSize(m),
             sum[<<m, Len(Kids[m])>>] >= 0
      PROVE  Extent(m) = sum[<<m, Len(Kids[m])>>]
  <2>0. m \in Node /\ m # Root /\ schema.size[m].how = "none"
      BY <1>3, NotRoot DEF HasSize
  <2>1. CASE Kids[m] = <<>>
    <3>1. Len(Kids[m]) = 0
        BY <2>1
    <3>2. Extent(m) = 0
        BY <1>3, <2>0, <2>1, ExtentIs
    <3>3. sum[<<m, 0>>] = Summed(sum, m, 0)
        BY <1>1, <1>2, <2>0
    <3>4. sum[<<m, 0>>] = 0
        BY <3>3 DEF Summed
    <3> HIDE DEF sum
    <3> QED
        BY <3>1, <3>2, <3>4
  <2>2. CASE Kids[m] # <<>>
    <3>1. Len(Kids[m]) \in DOMAIN Kids[m] /\ Ends(m, Len(Kids[m]))
        BY <1>1, <1>3, <2>0, <2>2
    <3>2. Begin(Last(m)) + Extent(Last(m)) = Begin(m) + sum[<<m, Len(Kids[m])>>]
        BY <1>3, <3>1 DEF Last
    <3>3. Extent(m) = Begin(Last(m)) + Extent(Last(m)) - Begin(m)
        BY <1>3, <2>0, <2>2, ExtentIs
    <3>4. /\ sum[<<m, Len(Kids[m])>>] \in Int /\ Begin(m) \in Int
          /\ Begin(Last(m)) \in Int /\ Extent(Last(m)) \in Int
      <4>1. Len(Kids[m]) \in 0 .. Len(Kids[m])
          BY <1>1, <2>0
      <4> QED
          BY <1>2, <2>0, <2>2, <4>1, LastKid, NotRoot, PlaceTypes
    <3>5. \A a, b, c, d \in Int : a + b = c + d => a + b - c = d
        OBVIOUS
    <3> HIDE DEF sum, Ends
    <3> QED
        BY ONLY <3>2, <3>3, <3>4, <3>5
  <2> QED
      BY <2>1, <2>2
<1>4. ASSUME NEW m \in Node, Parts[m] \subseteq T
      PROVE  m \in T
  <2> SUFFICES ASSUME m # Root
               PROVE  \A k \in DOMAIN Kids[m] : Ends(m, k)
      OBVIOUS
  <2> DEFINE U == {k \in DOMAIN Kids[m] : Ends(m, k)}
  <2>1. ASSUME NEW k \in DOMAIN Kids[m], \A j \in 1 .. k - 1 : j \in U
        PROVE  k \in U
    <3> SUFFICES ASSUME sum[<<m, k>>] >= 0
                 PROVE  Begin(Kids[m][k]) + Extent(Kids[m][k]) = Begin(m) + sum[<<m, k>>]
        OBVIOUS
    <3> DEFINE x == Kids[m][k]
    <3>0. /\ k \in Nat /\ k >= 1 /\ k <= Len(Kids[m]) /\ x \in Field /\ x \in Node /\ x \in T /\ x # Root
          /\ Parent[x] = m /\ IsSeq(x) /\ SeqIndex(x) = k
          /\ k \in 0 .. Len(Kids[m]) /\ k - 1 \in 0 .. Len(Kids[m])
      <4>1. /\ k \in Nat /\ k >= 1 /\ k <= Len(Kids[m]) /\ x \in Field /\ x \in Node /\ x \in Parts[m]
            /\ x # Root /\ Parent[x] = m /\ IsSeq(x) /\ SeqIndex(x) = k
          BY KidFacts, NotRoot
      <4> HIDE DEF T, x
      <4> QED
          BY <1>1, <1>4, <4>1
    <3>1. sum[<<m, k>>] = Summed(sum, m, k) /\ sum[<<m, k>>] \in Int /\ sum[<<m, k - 1>>] \in Int
        BY <1>2, <3>0
    <3>2. /\ sum[<<m, k - 1>>] >= 0 /\ Added(sum, x) >= 0
          /\ sum[<<m, k>>] = sum[<<m, k - 1>>] + Added(sum, x)
      <4>1. Added(sum, x) \in Int
        <5>1. Len(Kids[x]) \in 0 .. Len(Kids[x])
            BY <1>1, <3>0
        <5> HIDE DEF x
        <5>2. sum[<<x, Len(Kids[x])>>] \in Int
            BY <1>2, <3>0, <5>1
        <5> QED
            BY <3>0, <5>2, SchemaFacts, AddedInt
      <4>2. k # 0
          BY <3>0
      <4> QED
          BY <3>1, <4>1, <4>2 DEF Summed
    <3>3. Extent(x) = Added(sum, x)
      <4>1. CASE schema.kind[x] = "u1"
        <5>1. schema.size[x].how = "none"
            BY <3>0, <4>1, SchemaFacts DEF Readable
        <5>2. Extent(x) = 1
            BY <3>0, <4>1, <5>1, ExtentIs
        <5> QED
            BY <4>1, <5>2 DEF Added
      <4>2. CASE schema.kind[x] = "bytes"
        <5>1. schema.size[x].how = "lit" /\ Added(sum, x) = schema.size[x].k
          <6> HIDE DEF x
          <6> QED
              BY <3>2, <4>2 DEF Added
        <5> HIDE DEF x
        <5> QED
            BY <3>0, <5>1, ExtentIs
      <4>3. CASE schema.kind[x] = "user"
        <5>1. schema.nested /\ Added(sum, x) = sum[<<x, Len(Kids[x])>>]
          <6> HIDE DEF x
          <6> QED
              BY <3>2, <4>3 DEF Added
        <5>2. ~HasSize(x)
            BY <3>0, <4>3, <5>1 DEF Counted
        <5> HIDE DEF T, x
        <5> QED
            BY <1>3, <3>0, <3>2, <4>3, <5>1, <5>2
      <4> QED
          BY <3>0, <4>1, <4>2, <4>3, SchemaFacts
    <3>4. Begin(x) = Begin(m) + sum[<<m, k - 1>>]
      <4>1. CASE k = 1
        <5>1. sum[<<m, 0>>] = Summed(sum, m, 0)
            BY <1>1, <1>2
        <5>2. Begin(x) = Begin(m) /\ k - 1 = 0 /\ Begin(m) \in Int
          <6>1. Begin(x) = Begin(m)
            <7> HIDE DEF x
            <7> QED
                BY <3>0, <4>1, BeginIs
          <6>2. k - 1 = 0
              BY <4>1
          <6> QED
              BY <6>1, <6>2, PlaceTypes
        <5>3. sum[<<m, k - 1>>] = 0
            BY <5>1, <5>2 DEF Summed
        <5> HIDE DEF x
        <5> QED
            BY <5>2, <5>3
      <4>2. CASE k # 1
        <5>1. k - 1 \in 1 .. k - 1
            BY <3>0, <4>2
        <5>2. k - 1 \in U
            BY <2>1, <5>1
        <5>3. Begin(Kids[m][k - 1]) + Extent(Kids[m][k - 1]) = Begin(m) + sum[<<m, k - 1>>]
            BY <3>2, <5>2
        <5>4. Pred(x) = Kids[m][k - 1]
            BY <3>0, <4>2 DEF Pred
        <5>5. Begin(x) = Begin(Pred(x)) + Extent(Pred(x))
            BY <3>0, <4>2, BeginIs
        <5> HIDE DEF x
        <5> QED
            BY <5>3, <5>4, <5>5
      <4> QED
          BY <4>1, <4>2
    <3>5. Begin(x) \in Int /\ Extent(x) \in Int /\ Begin(m) \in Int
        BY <3>0, PlaceTypes
    <3>6. Begin(x) + Extent(x) = Begin(m) + sum[<<m, k>>]
      <4> HIDE DEF x
      <4> QED
        BY <3>1, <3>2, <3>3, <3>4, <3>5
    <3> QED
        BY <3>6
  <2>2. DOMAIN Kids[m] \subseteq U
    <3> HIDE DEF U
    <3> QED
        BY <2>1, AlongKids
  <2> QED
      BY <2>2
<1>5. Node \subseteq T
  <2> HIDE DEF T
  <2> QED
      BY <1>4, BottomUp
<1>6. n \in T
    BY <1>5, NotRoot
<1> HIDE DEF T
<1> QED
    BY <1>3, <1>6 DEF StaticSize, sum

\* A struct that has to be walked through has a field.
LEMMA WalkedHasKids ==
    ASSUME schema \in Schemas, NEW n \in Node, StaticSize(n) < 0
    PROVE  Kids[n] # <<>>
<1> SUFFICES ASSUME Kids[n] = <<>>
             PROVE  FALSE
    OBVIOUS
<1>1. Len(Kids[n]) = 0 /\ 0 \in 0 .. Len(Kids[n])
    OBVIOUS
<1>2. StaticSum[<<n, 0>>] = Summed(StaticSum, n, 0)
    BY <1>1, StaticEquation, SchemaFacts
<1> QED
    BY <1>1, <1>2 DEF Summed, StaticSize

-----------------------------------------------------------------------------
(* What can be read: Ok is the largest set of fields that fit and whose    *)
(* reading rests on fields of the set alone.                               *)

\* A struct whose end is found by reading its fields.
Walked(n) == schema.kind[n] = "user" /\ ~HasSize(n) /\ StaticSize(n) < 0
Sources(n) == IF schema.size[n].how = "field"
              THEN {schema.size[n].of} \cup Before(schema.size[n].of) ELSE {}
Goes(n, S) == Fits(n) /\ Sources(n) \subseteq S /\ (Walked(n) => Range(Kids[n]) \subseteq S)
Ok == UNION {S \in SUBSET Field : \A n \in S : Goes(n, S)}

\* Nothing that a field needs fails, nor anything that the structs around it need.
Clean(n) == \A a \in Field : n \in Below[a] => Needs(a) \subseteq Ok
AllFit == \A m \in Node : Described(m) => Fits(m)

LEMMA OkIs ==
    ASSUME NEW n \in Field
    PROVE  n \in Ok <=> Goes(n, Ok)
<1>1. ASSUME n \in Ok
      PROVE  Goes(n, Ok)
  <2>1. PICK S \in SUBSET Field : n \in S /\ \A m \in S : Goes(m, S)
      BY <1>1 DEF Ok
  <2>2. S \subseteq Ok
      BY <2>1 DEF Ok
  <2> QED
      BY <2>1, <2>2 DEF Goes
<1>2. ASSUME Goes(n, Ok)
      PROVE  n \in Ok
  <2> DEFINE T == Ok \cup {n}
  <2>1. T \in SUBSET Field
      BY DEF Ok
  <2>2. ASSUME NEW m \in T
        PROVE  Goes(m, T)
    <3>1. CASE m = n
        BY <1>2, <3>1 DEF Goes
    <3>2. CASE m \in Ok
      <4>1. PICK S \in SUBSET Field : m \in S /\ \A j \in S : Goes(j, S)
          BY <3>2 DEF Ok
      <4>2. S \subseteq T
          BY <4>1 DEF Ok
      <4> HIDE DEF T
      <4> QED
          BY <4>1, <4>2 DEF Goes
    <3> QED
        BY <3>1, <3>2
  <2> HIDE DEF T
  <2>3. T \subseteq Ok
      BY <2>1, <2>2 DEF Ok
  <2> QED
      BY <2>3 DEF T
<1> QED
    BY <1>1, <1>2

LEMMA OkFields == Ok \subseteq Field
BY DEF Ok

\* The byte that holds a size.
LEMMA SourceFacts ==
    ASSUME schema \in Schemas, NEW n \in Field, schema.size[n].how = "field"
    PROVE  LET of == schema.size[n].of IN
           /\ of \in Field /\ of \in Node /\ IsSeq(of) /\ schema.kind[of] = "u1"
           /\ schema.size[of].how = "none" /\ Needs(of) = Before(of)
           /\ n \in Below[Parent[of]] /\ n # Parent[of]
           /\ IsSeq(n) => \E a \in Field : n \in Below[a] /\ of \in Before(a)
<1> DEFINE of == schema.size[n].of
<1>1. /\ IsSeq(of) /\ schema.kind[of] = "u1" /\ n \in Below[Parent[of]] /\ n # Parent[of]
      /\ IsSeq(n) => \E a \in Field : n \in Below[a] /\ of \in Before(a)
    BY SchemaFacts DEF Readable
<1>2. of \in Node /\ of # Root
    BY <1>1, SchemaFacts, NotRoot DEF IsSeq
<1>3. of \in Field
    BY <1>2 DEF Node
<1>4. schema.size[of].how = "none"
    BY <1>1, <1>3, SchemaFacts DEF Readable
<1> QED
    BY <1>1, <1>2, <1>3, <1>4 DEF Needs

LEMMA CleanUp ==
    ASSUME NEW p \in Node, NEW n \in Below[p], Clean(n)
    PROVE  Clean(p)
<1> SUFFICES ASSUME NEW a \in Field, p \in Below[a]
             PROVE  Needs(a) \subseteq Ok
    BY DEF Clean
<1>1. n \in Below[a]
    BY BelowTrans, NotRoot
<1> QED
    BY <1>1 DEF Clean

LEMMA CleanRoot == Clean(Root)
BY RootNotBelow DEF Clean

LEMMA SeqClean ==
    ASSUME schema \in Schemas, NEW m \in Field, IsSeq(m), Clean(Parent[m]), Before(m) \subseteq Ok
    PROVE  Clean(m)
<1> SUFFICES ASSUME NEW a \in Field, m \in Below[a]
             PROVE  Needs(a) \subseteq Ok
    BY DEF Clean
<1>0. a \in Node /\ Parent[m] \in Node /\ m \in Node
    BY NotRoot
<1>1. CASE m # a
    BY <1>0, <1>1, AroundParent DEF Clean
<1>2. CASE m = a
  <2> SUFFICES ASSUME schema.size[m].how = "field"
               PROVE  Before(schema.size[m].of) \subseteq Ok
      BY <1>2 DEF Needs
  <2>1. PICK b \in Field : m \in Below[b] /\ schema.size[m].of \in Before(b)
      BY SourceFacts
  <2>2. Before(schema.size[m].of) \subseteq Before(b)
      BY <2>1, BeforeFacts
  <2>3. CASE m = b
      BY <2>2, <2>3
  <2>4. CASE m # b
    <3>1. Needs(b) \subseteq Ok
        BY <2>1, <2>4, <1>0, AroundParent, NotRoot DEF Clean
    <3> QED
        BY <2>2, <3>1 DEF Needs
  <2> QED
      BY <2>3, <2>4
<1> QED
    BY <1>1, <1>2

\* If everything there can be fits, everything there can be is read.
LEMMA DescribedUp ==
    ASSUME NEW n \in Node, Described(n), NEW a \in Field, n \in Below[a], NEW m \in Field,
           a \in Below[Parent[m]], a # Parent[m]
    PROVE  Described(m)
<1> SUFFICES ASSUME NEW x \in Node, m \in Below[x], m # x
             PROVE  IsStruct(x)
    BY DEF Described
<1>1. Parent[m] \in Below[x] /\ Parent[m] \in Node /\ a \in Node
    BY AroundParent, NotRoot
<1>2. a \in Below[x] /\ n \in Below[x]
    BY <1>1, BelowTrans
<1>3. n # x
  <2> SUFFICES ASSUME n = x
               PROVE  FALSE
      OBVIOUS
  <2>1. Parent[m] \in Below[a]
      BY <1>1, BelowTrans
  <2>2. Parent[a] \in Below[Parent[m]]
      BY <1>1, AroundParent
  <2> QED
      BY <1>1, <2>1, <2>2, BelowTrans, NoCycle
<1> QED
    BY <1>2, <1>3 DEF Described

LEMMA DescribedPart ==
    ASSUME NEW n \in Node, Described(n), IsStruct(n), NEW m \in Parts[n]
    PROVE  Described(m)
<1> SUFFICES ASSUME NEW x \in Node, m \in Below[x], m # x
             PROVE  IsStruct(x)
    BY DEF Described
<1>0. m \in Field /\ Parent[m] = n
    BY ParentUnique
<1>1. n \in Below[x]
    BY <1>0, AroundParent
<1>2. CASE x = n
    BY <1>2
<1>3. CASE x # n
    BY <1>1, <1>3 DEF Described
<1> QED
    BY <1>2, <1>3

LEMMA AllFitOk ==
    ASSUME schema \in Schemas, AllFit
    PROVE  \A n \in Field : Described(n) => n \in Ok
<1> DEFINE D == {n \in Field : Described(n)}
<1>1. ASSUME NEW n \in D
      PROVE  Goes(n, D)
  <2>0. n \in Node /\ n \in Below[n] /\ Fits(n)
      BY NotRoot, BelowSelf DEF AllFit
  <2>1. ASSUME schema.size[n].how = "field"
        PROVE  Sources(n) \subseteq D
    <3> DEFINE of == schema.size[n].of
    <3>1. of \in Field /\ n \in Below[Parent[of]] /\ n # Parent[of]
        BY <2>1, SourceFacts
    <3>2. \A g \in Before(of) : g \in Field /\ Parent[g] = Parent[of]
        BY <3>1, BeforeFacts
    <3> HIDE DEF of
    <3>3. Described(of) /\ \A g \in Before(of) : Described(g)
        BY <2>0, <3>1, <3>2, DescribedUp
    <3> QED
        BY <3>1, <3>2, <3>3 DEF of, Sources
  <2>2. ASSUME Walked(n)
        PROVE  Range(Kids[n]) \subseteq D
    <3>1. Range(Kids[n]) \subseteq Parts[n]
        BY <2>0 DEF Parts
    <3>2. IsStruct(n)
        BY <2>2 DEF Walked, IsStruct
    <3> QED
        BY <2>0, <3>1, <3>2, DescribedPart, PartsAreFields
  <2> HIDE DEF D
  <2> QED
      BY <2>0, <2>1, <2>2 DEF Goes, Sources
<1>2. D \subseteq Ok
  <2>1. D \in SUBSET Field
      OBVIOUS
  <2> HIDE DEF D
  <2> QED
      BY <1>1, <2>1 DEF Ok
<1> QED
    BY <1>2

LEMMA AllFitClean ==
    ASSUME schema \in Schemas, AllFit, NEW n \in Node, Described(n)
    PROVE  Clean(n)
<1> SUFFICES ASSUME NEW a \in Field, n \in Below[a], NEW g \in Needs(a)
             PROVE  g \in Ok
    BY DEF Clean
<1>0. a \in Node /\ Parent[a] \in Node /\ a # Parent[a] /\ a \in Below[Parent[a]]
    BY NotRoot, ParentIsNode, BelowSelf, BelowParts
<1>1. CASE g \in Before(a)
  <2>1. g \in Field /\ Parent[g] = Parent[a]
      BY <1>1, BeforeFacts
  <2> QED
      BY <1>0, <2>1, DescribedUp, AllFitOk
<1>2. CASE schema.size[a].how = "field" /\ g \in Before(schema.size[a].of)
  <2> DEFINE of == schema.size[a].of
  <2>1. of \in Field /\ a \in Below[Parent[of]] /\ a # Parent[of]
      BY <1>2, SourceFacts
  <2>2. g \in Field /\ Parent[g] = Parent[of]
      BY <1>2, <2>1, BeforeFacts
  <2> QED
      BY <2>1, <2>2, DescribedUp, AllFitOk
<1> QED
    BY <1>1, <1>2 DEF Needs

-----------------------------------------------------------------------------
(* Here: where the schema still says what is read.                         *)

Here(n) == ~replaced /\ Undisturbed(Parent[n]) /\ Clean(n)

LEMMA UndisturbedUp ==
    ASSUME reread \subseteq Node, NEW p \in Node, NEW n \in Below[p], Undisturbed(n)
    PROVE  Undisturbed(p) /\ p \notin reread
<1>1. \A m \in reread : p \in Below[m] => n \in Below[m]
    BY BelowTrans
<1> QED
    BY <1>1, BelowSelf DEF Undisturbed

LEMMA HereUp ==
    ASSUME reread \subseteq Node, NEW n \in Field, Here(n)
    PROVE  /\ Parent[n] \notin reread /\ Undisturbed(Parent[n]) /\ Clean(Parent[n])
           /\ Parent[n] \in Field => Here(Parent[n])
<1>0. Parent[n] \in Node /\ Parent[n] \in Below[Parent[n]] /\ n \in Below[Parent[n]]
    BY NotRoot, ParentIsNode, BelowSelf, BelowParts
<1>1. Parent[n] \notin reread /\ Undisturbed(Parent[n]) /\ Clean(Parent[n])
    BY <1>0, UndisturbedUp, CleanUp DEF Here
<1>2. ASSUME Parent[n] \in Field
      PROVE  Undisturbed(Parent[Parent[n]])
  <2>1. Parent[Parent[n]] \in Node /\ Parent[n] \in Below[Parent[Parent[n]]]
      BY <1>2, NotRoot, ParentIsNode, BelowSelf, BelowParts
  <2> QED
      BY <1>1, <2>1, UndisturbedUp
<1> QED
    BY <1>1, <1>2 DEF Here

LEMMA HereBefore ==
    ASSUME schema \in Schemas, reread \subseteq Node, NEW n \in Field, Here(n), NEW g \in Before(n)
    PROVE  g \in Field /\ g \in Ok /\ Here(g)
<1>1. /\ g \in Field /\ IsSeq(g) /\ Parent[g] = Parent[n] /\ Before(g) \subseteq Before(n)
      /\ n \in Node /\ n \in Below[n]
    BY BeforeFacts, NotRoot, BelowSelf
<1>2. Before(n) \subseteq Ok
    BY <1>1 DEF Here, Clean, Needs
<1>3. Clean(g)
    BY <1>1, <1>2, HereUp, SeqClean
<1> QED
    BY <1>1, <1>2, <1>3 DEF Here

LEMMA HereSource ==
    ASSUME schema \in Schemas, reread \subseteq Node, NEW n \in Field, Here(n),
           schema.size[n].how = "field"
    PROVE  Before(schema.size[n].of) \subseteq Ok /\ Here(schema.size[n].of)
<1> DEFINE of == schema.size[n].of
<1>1. /\ of \in Field /\ IsSeq(of) /\ n \in Below[Parent[of]] /\ n # Parent[of]
      /\ n \in Node /\ n \in Below[n] /\ Parent[of] \in Node /\ Parent[n] \in Below[Parent[of]]
  <2>1. of \in Field /\ IsSeq(of) /\ n \in Below[Parent[of]] /\ n # Parent[of]
      BY SourceFacts
  <2> QED
      BY <2>1, NotRoot, BelowSelf, AroundParent
<1>2. Before(of) \subseteq Ok
    BY <1>1 DEF Here, Clean, Needs
<1>3. Clean(Parent[of]) /\ Undisturbed(Parent[of])
    BY <1>1, CleanUp, UndisturbedUp, HereUp DEF Here
<1>4. Clean(of)
    BY <1>1, <1>2, <1>3, SeqClean
<1> QED
    BY <1>2, <1>3, <1>4 DEF Here

LEMMA HereKid ==
    ASSUME schema \in Schemas, reread \subseteq Node, NEW n \in Field, Here(n), n \notin reread,
           NEW m \in Field, IsSeq(m), Parent[m] = n, Before(m) \subseteq Ok
    PROVE  Here(m)
<1>1. Undisturbed(n)
    BY AroundParent, NotRoot DEF Here, Undisturbed
<1>2. Clean(m)
    BY SeqClean DEF Here
<1> QED
    BY <1>1, <1>2 DEF Here

-----------------------------------------------------------------------------
(* Windows, as the schema puts them.                                       *)

Window(p) == [data |-> schema.data, base |-> IoBegin(p), size |-> IoEnd(p) - IoBegin(p),
              limit |-> Limit(p)]
Rel(n) == Begin(n) - IoBegin(Parent[n])
Content(n) == SubSeq(schema.data, Begin(n) + 1, Begin(n) + Extent(n))

LEMMA RootWindow ==
    ASSUME schema \in Schemas
    PROVE  Window(Root) = Whole(schema.data)
BY RootPlace, SchemaFacts DEF Window, Whole

LEMMA PlainWindow ==
    ASSUME schema \in Schemas, NEW n \in Field, ~HasSize(n)
    PROVE  Window(n) = Window(Parent[n]) /\ Rel(n) = Begin(n) - IoBegin(n)
BY WindowIs DEF Window, Rel

LEMMA SubStreamIs ==
    ASSUME NEW d, NEW b, NEW z, NEW l, NEW off, NEW len
    PROVE  SubStream([data |-> d, base |-> b, size |-> z, limit |-> l], off, len)
             = [data |-> d, base |-> b + off, size |-> len, limit |-> Smaller(l, b + off + len)]
<1> DEFINE s == [data |-> d, base |-> b, size |-> z, limit |-> l]
<1>1. DOMAIN s = StreamFields /\ s.data = d /\ s.base = b /\ s.limit = l
    BY DEF StreamFields
<1> HIDE DEF s
<1> DEFINE u == SubStream(s, off, len)
           v == [data |-> d, base |-> b + off, size |-> len, limit |-> Smaller(l, b + off + len)]
<1>2. /\ u = [x \in StreamFields |-> u[x]]
      /\ u.data = d /\ u.base = b + off /\ u.size = len /\ u.limit = Smaller(l, b + off + len)
    BY <1>1 DEF SubStream, StreamFields
<1>3. /\ v = [x \in StreamFields |-> v[x]]
      /\ v.data = d /\ v.base = b + off /\ v.size = len /\ v.limit = Smaller(l, b + off + len)
    BY DEF StreamFields
<1> HIDE DEF u, v
<1>4. \A x \in StreamFields : u[x] = v[x]
    BY <1>2, <1>3 DEF StreamFields
<1>5. u = v
    BY <1>2, <1>3, <1>4
<1> QED
    BY <1>5 DEF s, u, v

LEMMA SizedWindow ==
    ASSUME schema \in Schemas, NEW n \in Field, HasSize(n)
    PROVE  SubStream(Window(Parent[n]), Rel(n), Extent(n)) = Window(n)
<1> DEFINE p == Parent[n]
<1>1. /\ IoBegin(n) = Begin(n) /\ IoEnd(n) = Begin(n) + Extent(n)
      /\ Limit(n) = Smaller(Begin(n) + Extent(n), Limit(p))
    BY WindowIs
<1>2. /\ IoBegin(p) \in Int /\ Limit(p) \in Int /\ Begin(n) \in Int /\ Extent(n) \in Int
    BY NotRoot, PlaceTypes
<1>3. Smaller(Limit(p), IoBegin(p) + (Begin(n) - IoBegin(p)) + Extent(n)) = Limit(n)
  <2>1. IoBegin(p) + (Begin(n) - IoBegin(p)) + Extent(n) = Begin(n) + Extent(n)
      BY <1>2
  <2>2. Smaller(Limit(p), Begin(n) + Extent(n)) = Smaller(Begin(n) + Extent(n), Limit(p))
    <3>1. \A a, b \in Int : Smaller(a, b) = Smaller(b, a)
        BY DEF Smaller
    <3>2. Begin(n) + Extent(n) \in Int /\ Limit(p) \in Int
        BY <1>2
    <3> QED
        BY <3>1, <3>2
  <2> QED
      BY <1>1, <2>1, <2>2
<1>4. IoBegin(p) + (Begin(n) - IoBegin(p)) = Begin(n) /\ IoEnd(n) - IoBegin(n) = Extent(n)
    BY <1>1, <1>2
<1>5. SubStream(Window(p), Rel(n), Extent(n)) =
        [data |-> schema.data, base |-> IoBegin(p) + Rel(n), size |-> Extent(n),
         limit |-> Smaller(Limit(p), IoBegin(p) + Rel(n) + Extent(n))]
    BY SubStreamIs DEF Window
<1> QED
    BY <1>1, <1>3, <1>4, <1>5 DEF Window, Rel

LEMMA EosLength ==
    ASSUME schema \in Schemas, NEW n \in Field, schema.size[n].how = "eos"
    PROVE  Window(Parent[n]).size - Rel(n) = Extent(n)
<1>1. Extent(n) = IoEnd(Parent[n]) - Begin(n)
    BY ExtentIs
<1>2. /\ IoBegin(Parent[n]) \in Int /\ IoEnd(Parent[n]) \in Int /\ Begin(n) \in Int
    BY NotRoot, PlaceTypes
<1> QED
    BY <1>1, <1>2 DEF Window, Rel

\* What is read at the place of a field is what is there.
LEMMA ReadInWindow ==
    ASSUME schema \in Schemas, NEW n \in Field
    PROVE  /\ CanRead(Window(Parent[n]), Rel(n), Extent(n))
                <=> Extent(n) = 0 \/ Begin(n) + Extent(n) <= Limit(Parent[n])
           /\ Bytes(Window(Parent[n]), Rel(n), Extent(n)) = Content(n)
           /\ Rel(n) + Window(Parent[n]).base = Begin(n)
           /\ Rel(n) + Extent(n) + Window(Parent[n]).base = Begin(n) + Extent(n)
<1>1. /\ IoBegin(Parent[n]) \in Int /\ Begin(n) \in Int /\ Extent(n) \in Int /\ Limit(Parent[n]) \in Int
    BY NotRoot, PlaceTypes
<1>2. IoBegin(Parent[n]) + Rel(n) = Begin(n) /\ Rel(n) \in Int
    BY <1>1 DEF Rel
<1>3. /\ Rel(n) + Extent(n) + IoBegin(Parent[n]) = Begin(n) + Extent(n)
      /\ Rel(n) + IoBegin(Parent[n]) = Begin(n)
    BY <1>1, <1>2
<1>4. CanRead(Window(Parent[n]), Rel(n), Extent(n))
                <=> Extent(n) = 0 \/ Begin(n) + Extent(n) <= Limit(Parent[n])
    BY <1>2 DEF CanRead, Window
<1>5. Bytes(Window(Parent[n]), Rel(n), Extent(n)) = Content(n)
    BY <1>2 DEF Bytes, Window, Content
<1> QED
    BY <1>3, <1>4, <1>5 DEF Window

LEMMA ReadInOwn ==
    ASSUME schema \in Schemas, NEW n \in Field, HasSize(n)
    PROVE  /\ CanRead(Window(n), 0, Extent(n))
                <=> Extent(n) = 0 \/ Begin(n) + Extent(n) <= Limit(Parent[n])
           /\ Bytes(Window(n), 0, Extent(n)) = Content(n)
           /\ 0 + Window(n).base = Begin(n)
           /\ Extent(n) + Window(n).base = Begin(n) + Extent(n)
<1>1. /\ Begin(n) \in Int /\ Extent(n) \in Int /\ Limit(Parent[n]) \in Int
    BY NotRoot, PlaceTypes
<1>2. IoBegin(n) = Begin(n) /\ Limit(n) = Smaller(Begin(n) + Extent(n), Limit(Parent[n]))
    BY WindowIs
<1>3. Begin(n) + 0 = Begin(n) /\ Extent(n) + Begin(n) = Begin(n) + Extent(n) /\ 0 + Begin(n) = Begin(n)
    BY <1>1
<1>4. Begin(n) + 0 + Extent(n) <= Limit(n) <=> Begin(n) + Extent(n) <= Limit(Parent[n])
    BY <1>1, <1>2 DEF Smaller
<1> QED
    BY <1>1, <1>2, <1>3, <1>4 DEF CanRead, Bytes, Window, Content

\* A byte that holds a size and that was read as described gives the extent.
LEMMA SizeIs ==
    ASSUME schema \in Schemas, NEW n \in Field,
           \/ schema.size[n].how = "lit"
           \/ /\ schema.size[n].how = "field" /\ schema.size[n].of \in Ok
              /\ nodes[schema.size[n].of].value = Content(schema.size[n].of)
    PROVE  SizeOf(n) = Extent(n)
<1>1. CASE schema.size[n].how = "lit"
    BY <1>1, ExtentIs DEF SizeOf
<1>2. CASE schema.size[n].how = "field"
  <2> DEFINE of == schema.size[n].of
             b == Begin(of)
             data == schema.data
  <2>1. /\ of \in Field /\ of \in Node /\ schema.kind[of] = "u1" /\ schema.size[of].how = "none"
        /\ of # Root /\ of \in Ok
      BY <1>2, SourceFacts, NotRoot
  <2>2. Extent(of) = 1
      BY <2>1, ExtentIs
  <2>3. Fits(of)
      BY <2>1, OkIs DEF Goes
  <2>4. b + 1 <= Limit(Parent[of])
      BY <2>1, <2>2, <2>3 DEF Fits, IsStruct
  <2>5. b \in Nat /\ Limit(Parent[of]) <= Len(data) /\ Limit(Parent[of]) \in Int
      BY <2>1, BeginNat, NotRoot, PlaceTypes
  <2>6. data \in Seq(Nat) /\ Len(data) \in Nat
      BY SchemaFacts
  <2>7. b \in 0 .. Len(data) - 1 /\ b + 1 \in 1 .. Len(data)
      BY <2>4, <2>5, <2>6
  <2>8. nodes[of].value = SubSeq(data, b + 1, b + 1)
      BY <1>2, <2>2 DEF Content
  <2>9. SubSeq(data, b + 1, b + 1)[1] = data[b + 1]
    <3> DEFINE c == b + 1
    <3>1. c \in 1 .. Len(data) + 1 /\ c \in c - 1 .. Len(data) /\ 1 \in 1 .. c - c + 1 /\ c + 1 - 1 = c
        BY <2>6, <2>7
    <3> HIDE DEF c
    <3>2. SubSeq(data, c, c)[1] = data[c + 1 - 1]
        BY <2>6, <3>1, Slice
    <3> QED
        BY <3>1, <3>2 DEF c
  <2>10. Extent(n) = data[b + 1]
      BY <1>2, <2>7, ExtentIs
  <2> QED
      BY <1>2, <2>8, <2>9, <2>10 DEF SizeOf
<1> QED
    BY <1>1, <1>2

-----------------------------------------------------------------------------
(* The invariant.                                                          *)

Live == {"resolving", "resolved", "error"}
State(n) == nodes[n].state
OnStack(n) == \E k \in 1 .. Len(frames) : frames[k].node = n

\* The parts of n are there, read from where it is.
Built(n) ==
    \/ State(n) = "resolved"
    \/ State(n) = "error" /\ \E m \in Parts[n] : State(m) \in Live

\* What an activation of n may call at pc.
Calls(n, pc, m) ==
    \/ pc = "position" /\ m = Pred(n) /\ (m = Root \/ m \in Before(n))
    \/ pc = "siblings" /\ m \in Range(Kids[Parent[n]])
    \/ pc = "read" /\ schema.size[n].how = "field" /\ m = schema.size[n].of
    \/ pc = "walk" /\ m \in Range(Kids[n])

\* An activation is where resolve is with its node, and the one above it is of
\* the node it waits for.
FrameInv(k) ==
    LET f == frames[k]
        n == f.node IN
    /\ f.pc = "root" <=> n = Root
    /\ f.pc = "siblings" => ~IsSeq(n)
    /\ f.pc = "walk" => Walked(n)
    /\ State(n) = IF f.pc = "walk" THEN "resolved" ELSE "resolving"
    /\ k > 1 => n = Root \/ IsSeq(n)
    /\ f.awaited # n => Calls(n, f.pc, f.awaited)
    /\ k < Len(frames) => frames[k + 1].node = f.awaited

\* No node is resolved twice on one stack, nor under a struct around it that is
\* being resolved, and a walk only calls on what is before its end.
Above(f, g) ==
    /\ f.node # g.node
    /\ g.node # Root => f.node \notin Below[g.node]
    /\ f.pc = "walk" => g.node \notin After(f.node)

\* While a struct is walked through, none of its fields has failed, unless
\* everything is about to.
Failing == Awaited /\ State(Top.awaited) = "error"
Walking(f) == f.pc = "walk" => \A m \in Range(Kids[f.node]) : State(m) # "error"

StackInv ==
    /\ \A k \in 1 .. Len(frames) : FrameInv(k)
    /\ \A k \in 1 .. Len(frames) : \A j \in 1 .. k - 1 : Above(frames[j], frames[k])
    /\ Failing \/ \A k \in 1 .. Len(frames) : Walking(frames[k])

\* Only what is on the stack is being resolved; what has been read is in a tree
\* that reaches the root, and the nodes of a struct are there once it is read.
StateInv ==
    /\ \A n \in Node : State(n) = "resolving" => OnStack(n)
    /\ State(Root) \in {"unresolved", "resolving", "resolved"}
    /\ State(Root) = "resolved" => nodes[Root].startPos = 0
    /\ \A n \in Field : Parent[n] # Root /\ State(n) \in Live => State(Parent[n]) \in {"resolved", "error"}
    /\ \A n \in Field : State(n) = "absent" =>
         Parent[n] # Root /\ (IsStruct(Parent[n]) => State(Parent[n]) # "resolved")
    /\ \A n \in Node : State(n) # "absent" => Described(n)
    /\ \A n \in Node : State(n) \in Live \cup {"absent", "unresolved"}
    /\ reread \subseteq {n \in Node : OwnStream(n)}

\* What a node that is here has to be: v is the node, on says that it is on the
\* stack and built that its parts are there.  Its stream is the window it is
\* read through; a struct has moved on to its own window when its parts are
\* there; from and to are where the schema puts it, once reading is over; and a
\* node that could be read is one of Ok, a node that could not is none of them.
Leaf(n) == ~IsStruct(n)
Unmoved(n) == IsStruct(n) \/ ~OwnStream(n)
NodeOK(n, v, on, built) ==
    /\ ~OwnStream(n) \/ (n \notin reread /\ v.state \in {"unresolved", "resolving"}) =>
         v.stream = Window(Parent[n])
    /\ IsStruct(n) /\ n \notin reread /\ built =>
         v.stream = Window(n) /\ v.startPos = Begin(n) - IoBegin(n)
    /\ v.state = "resolved" /\ Unmoved(n) => v.from = Rel(n)
    /\ v.state = "resolved" /\ ~on /\ Unmoved(n) =>
         v.to = v.from + (IF schema.size[n].how = "eos" THEN 0 ELSE Extent(n))
    /\ v.state = "resolved" /\ ~on /\ (IsSeq(n) \/ n \notin reread) => n \in Ok
    /\ v.state = "resolved" /\ ~on /\ Leaf(n) /\ n \notin reread =>
         /\ v.value = Content(n)
         /\ v.from + v.stream.base = Begin(n) /\ v.to + v.stream.base = Begin(n) + Extent(n)
    /\ v.state = "error" /\ (IsSeq(n) \/ n \notin reread) =>
         n \notin Ok \/ (~IsSeq(n) /\ ~AllFit)

NodeInv ==
    \A n \in Field : Here(n) /\ State(n) # "absent" => NodeOK(n, nodes[n], OnStack(n), Built(n))

\* A field that is about to be read stands where it begins.
ReadFrame(k) ==
    \A n \in Node : frames[k].node = n /\ frames[k].pc = "read" /\ Here(n) => nodes[n].startPos = Rel(n)
ReadInv == \A k \in 1 .. Len(frames) : ReadFrame(k)

\* None of this can be said once a caller has given the root another stream,
\* nor of a schema with a size that counts no bytes of the field (Counted).
SteadyInv == ~replaced /\ Counted =>
    schema \in Schemas /\ StackInv /\ StateInv /\ NodeInv /\ ReadInv

-----------------------------------------------------------------------------
(* Nothing but reading happens in a step of resolve or an access.          *)

Same == schema' = schema /\ reread' = reread /\ replaced' = replaced

\* What depends on the schema alone.
LEMMA KeptFits ==
    ASSUME schema' = schema
    PROVE  /\ \A n : Begin(n)' = Begin(n)
           /\ \A n : Extent(n)' = Extent(n) /\ IoBegin(n)' = IoBegin(n) /\ IoEnd(n)' = IoEnd(n)
           /\ \A n : Limit(n)' = Limit(n)
           /\ \A n : Fits(n)' = Fits(n)
           /\ \A n : Sources(n)' = Sources(n)
           /\ \A n : Walked(n)' = Walked(n)
<1>1. StaticSum' = StaticSum
    BY DEF StaticSum
<1> QED
    BY <1>1 DEF Begin, Extent, IoBegin, IoEnd, Limit, Fits, IsStruct, Sources, Walked, HasSize, StaticSize

LEMMA KeptOk ==
    ASSUME schema' = schema
    PROVE  Ok' = Ok
<1>1. \A n, S : Goes(n, S)' <=> Goes(n, S)
    BY KeptFits DEF Goes
<1> QED
    BY <1>1 DEF Ok

LEMMA KeptPlaces ==
    ASSUME schema' = schema
    PROVE  /\ AllFit' <=> AllFit
           /\ Counted' <=> Counted
           /\ \A n : OwnStream(n)' <=> OwnStream(n)
           /\ \A n : Described(n)' <=> Described(n)
           /\ \A n : IsStruct(n)' <=> IsStruct(n)
           /\ \A n : Window(n)' = Window(n)
           /\ \A n : Rel(n)' = Rel(n)
           /\ \A n : Content(n)' = Content(n)
           /\ \A n : Clean(n)' <=> Clean(n)
<1>1. AllFit' <=> AllFit
    BY KeptFits DEF AllFit, Described, IsStruct
<1>2. Counted' <=> Counted
    BY DEF Counted, HasSize, IsSeq
<1>3. \A n : OwnStream(n)' <=> OwnStream(n)
    BY DEF OwnStream, IsSeq
<1>4. \A n : (Described(n)' <=> Described(n)) /\ (IsStruct(n)' <=> IsStruct(n))
    BY DEF Described, IsStruct
<1>5. \A n : Window(n)' = Window(n) /\ Rel(n)' = Rel(n) /\ Content(n)' = Content(n)
    BY KeptFits DEF Window, Rel, Content
<1>6. \A n : Clean(n)' <=> Clean(n)
    BY KeptOk DEF Clean, Needs, Before, IsSeq
<1> QED
    BY <1>1, <1>2, <1>3, <1>4, <1>5, <1>6

LEMMA SameFits ==
    ASSUME Same
    PROVE  /\ \A n : Begin(n)' = Begin(n)
           /\ \A n : Extent(n)' = Extent(n) /\ IoBegin(n)' = IoBegin(n) /\ IoEnd(n)' = IoEnd(n)
           /\ \A n : Limit(n)' = Limit(n)
           /\ \A n : Fits(n)' = Fits(n)
           /\ \A n : Sources(n)' = Sources(n)
           /\ \A n : Walked(n)' = Walked(n)
BY KeptFits DEF Same

LEMMA SameOk ==
    ASSUME Same
    PROVE  Ok' = Ok
BY KeptOk DEF Same

LEMMA SameHere ==
    ASSUME Same
    PROVE  /\ AllFit' <=> AllFit
           /\ Counted' <=> Counted
           /\ \A n : OwnStream(n)' <=> OwnStream(n)
           /\ \A n : Described(n)' <=> Described(n)
           /\ \A n : IsStruct(n)' <=> IsStruct(n)
           /\ \A n : Window(n)' = Window(n)
           /\ \A n : Rel(n)' = Rel(n)
           /\ \A n : Content(n)' = Content(n)
           /\ \A n : Here(n)' <=> Here(n)
<1>1. schema' = schema
    BY DEF Same
<1>2. \A n : Here(n)' <=> Here(n)
    BY <1>1, KeptPlaces DEF Here, Undisturbed, Same
<1> QED
    BY <1>1, <1>2, KeptPlaces

LEMMA NodeInvNext ==
    ASSUME Same,
           \A n \in Field : Here(n) /\ nodes'[n].state # "absent" =>
                            NodeOK(n, nodes'[n], OnStack(n)', Built(n)')
    PROVE  NodeInv'
<1> SUFFICES ASSUME NEW n \in Field, Here(n)', nodes'[n].state # "absent"
             PROVE  NodeOK(n, nodes[n], OnStack(n), Built(n))'
    BY DEF NodeInv, State
<1>1. NodeOK(n, nodes'[n], OnStack(n)', Built(n)')
    BY SameHere
<1>2. /\ Window(n)' = Window(n) /\ Window(Parent[n])' = Window(Parent[n]) /\ Rel(n)' = Rel(n)
      /\ Content(n)' = Content(n) /\ Begin(n)' = Begin(n) /\ Extent(n)' = Extent(n)
      /\ IoBegin(n)' = IoBegin(n) /\ Ok' = Ok
    BY SameHere, SameFits, SameOk
<1>3. /\ OwnStream(n)' <=> OwnStream(n)
      /\ IsStruct(n)' <=> IsStruct(n)
      /\ AllFit' <=> AllFit
      /\ reread' = reread /\ schema' = schema
      /\ IsSeq(n)' <=> IsSeq(n)
    BY SameHere DEF Same, IsSeq
<1> QED
    BY <1>1, <1>2, <1>3 DEF NodeOK, Leaf, Unmoved

-----------------------------------------------------------------------------
(* The context of a step.                                                  *)

Good == /\ OriginInv /\ schema \in Schemas /\ ~replaced /\ Counted
        /\ StackInv /\ StateInv /\ NodeInv /\ ReadInv

\* What is below a struct is read after the struct.
LEMMA UpDone ==
    ASSUME StateInv, NEW p \in Field, NEW d \in Below[p], d # p, State(d) \in Live
    PROVE  State(p) \in {"resolved", "error"} /\ \E m \in Parts[p] : State(m) \in Live
<1> DEFINE Started == State(p) \in {"resolved", "error"} /\ \E m \in Parts[p] : State(m) \in Live
           S == {x \in Below[p] : x # p /\ State(x) \in Live => Started}
<1>0. p \in Node /\ p \in Below[p]
    BY NotRoot, BelowSelf
<1>1. ASSUME NEW k \in S \cap Node, NEW x \in Parts[k]
      PROVE  x \in S
  <2>1. x \in Below[p] /\ x \in Field /\ Parent[x] = k /\ k # Root
      BY <1>0, BelowParts, ParentUnique, RootNotBelow
  <2>2. State(x) \in Live => State(k) \in {"resolved", "error"}
      BY <2>1 DEF StateInv
  <2>3. State(x) \in Live => Started
      BY <2>2 DEF Live
  <2> HIDE DEF Started
  <2> QED
      BY <2>1, <2>3
<1>2. Below[p] \subseteq S
  <2>1. p \in S
      BY <1>0
  <2> HIDE DEF S
  <2> QED
      BY <1>0, <1>1, <2>1, BelowLeast
<1> QED
    BY <1>2

LEMMA StackFacts ==
    ASSUME Good, ~Idle
    PROVE  /\ Len(frames) \in Nat /\ Len(frames) > 0 /\ Len(frames) \in 1 .. Len(frames)
           /\ This \in Node /\ Top = frames[Len(frames)] /\ This = Top.node
           /\ FrameInv(Len(frames)) /\ FrameOK(Top)
           /\ State(This) \in Live /\ OnStack(This)
           /\ \A k \in 1 .. Len(frames) : /\ frames[k].node \in Node /\ FrameInv(k)
                                          /\ State(frames[k].node) \in Live
           /\ \A k \in 1 .. Len(frames) - 1 :
                /\ k \in 1 .. Len(frames) /\ Above(frames[k], Top)
                /\ frames[k].node # This
                /\ This # Root => frames[k].node \notin Below[This]
<1>1. /\ Len(frames) \in Nat \ {0} /\ This \in Node /\ FrameOK(Top)
    BY TopOK DEF Good, OriginInv
<1>2. Len(frames) \in 1 .. Len(frames) /\ Top = frames[Len(frames)] /\ This = Top.node
    BY <1>1 DEF Top, This
<1>3. \A k \in 1 .. Len(frames) : /\ frames[k].node \in Node /\ FrameInv(k)
                                 /\ State(frames[k].node) \in Live
  <2> SUFFICES ASSUME NEW k \in 1 .. Len(frames)
               PROVE  frames[k].node \in Node /\ FrameInv(k) /\ State(frames[k].node) \in Live
      OBVIOUS
  <2>1. frames[k] \in FrameType
      BY DEF Good, OriginInv, FramesOK
  <2>2. FrameInv(k)
      BY DEF Good, StackInv
  <2>3. State(frames[k].node) \in Live
      BY <2>2 DEF FrameInv, Live
  <2> QED
      BY <2>1, <2>2, <2>3 DEF FrameType
<1>4. \A k \in 1 .. Len(frames) - 1 : k \in 1 .. Len(frames) /\ Above(frames[k], Top)
    BY <1>1, <1>2 DEF Good, StackInv
<1> QED
    BY <1>1, <1>2, <1>3, <1>4 DEF OnStack, Above

-----------------------------------------------------------------------------
(* Steps of the stack.                                                     *)

LEMMA FrameKept ==
    ASSUME Same, NEW k \in 1 .. Len(frames), FrameInv(k), frames'[k] = frames[k],
           nodes'[frames[k].node].state = State(frames[k].node),
           k < Len(frames') => k < Len(frames) /\ frames'[k + 1].node = frames[k + 1].node
    PROVE  FrameInv(k)'
<1>1. \A n, pc, m : Calls(n, pc, m)' <=> Calls(n, pc, m)
    BY DEF Same, Calls, Before, Pred, IsSeq
<1>2. \A n : Walked(n)' <=> Walked(n)
    BY SameFits
<1>3. \A n : IsSeq(n)' <=> IsSeq(n)
    BY DEF IsSeq
<1> QED
    BY <1>1, <1>2, <1>3 DEF FrameInv, State

LEMMA CallFrames ==
    ASSUME Good, ~Idle, NEW m \in Node, Call(m, Top.pc)
    PROVE  /\ Len(frames') = Len(frames) + 1
           /\ \A k \in 1 .. Len(frames) - 1 : frames'[k] = frames[k]
           /\ frames'[Len(frames)] = Frame(This, Top.pc, m)
           /\ frames'[Len(frames) + 1] = Activation(m)
<1> DEFINE f == Frame(This, Top.pc, m)
           moved == [frames EXCEPT ![Len(frames)] = f]
<1>1. /\ frames \in Seq(FrameType) /\ Len(frames) \in Nat \ {0} /\ This \in Node /\ Top \in FrameType
    BY TopOK DEF Good, OriginInv, FramesOK
<1>2. f \in FrameType
    BY <1>1 DEF Frame, FrameType
<1>3. moved \in Seq(FrameType) /\ Len(moved) = Len(frames)
    BY <1>1, <1>2
<1>4. \A k \in 1 .. Len(frames) : moved[k] = IF k = Len(frames) THEN f ELSE frames[k]
    BY <1>1
<1>5. frames' = Append(moved, Activation(m))
    BY DEF Call
<1> HIDE DEF moved, f
<1>6. /\ Len(frames') = Len(moved) + 1
      /\ \A k \in 1 .. Len(moved) : frames'[k] = moved[k]
      /\ frames'[Len(moved) + 1] = Activation(m)
    BY <1>3, <1>5, ActivationOK
<1>7. \A k \in 1 .. Len(frames) - 1 : k \in 1 .. Len(frames) /\ k # Len(frames)
    BY <1>1
<1>8. Len(frames) \in 1 .. Len(frames)
    BY <1>1
<1> QED
    BY <1>3, <1>4, <1>6, <1>7, <1>8 DEF f

LEMMA PopFrames ==
    ASSUME Good, ~Idle, frames' = SubSeq(frames, 1, Len(frames) - 1)
    PROVE  Len(frames') = Len(frames) - 1 /\ \A k \in 1 .. Len(frames) - 1 : frames'[k] = frames[k]
<1> DEFINE l == Len(frames) - 1
<1>1. l \in Nat /\ l < Len(frames) /\ frames \in Seq(FrameType) /\ Len(frames) \in Nat
    BY TopOK DEF Good, OriginInv, FramesOK
<1>2. 1 \in 1 .. Len(frames) + 1 /\ l \in 1 - 1 .. Len(frames) /\ l - 1 + 1 = l
    BY <1>1
<1> HIDE DEF l
<1>3. /\ Len(SubSeq(frames, 1, l)) = l - 1 + 1
      /\ \A k \in 1 .. l - 1 + 1 : SubSeq(frames, 1, l)[k] = frames[1 + k - 1]
    BY <1>1, <1>2, Slice
<1>4. \A k \in 1 .. l : SubSeq(frames, 1, l)[k] = frames[k]
  <2> SUFFICES ASSUME NEW k \in 1 .. l
               PROVE  SubSeq(frames, 1, l)[k] = frames[k]
      OBVIOUS
  <2>1. 1 + k - 1 = k
      BY <1>1
  <2> QED
      BY <1>2, <1>3, <2>1
<1> QED
    BY <1>2, <1>3, <1>4 DEF l

LEMMA GotoFrames ==
    ASSUME Good, ~Idle, NEW pc, Goto(pc)
    PROVE  /\ Len(frames') = Len(frames)
           /\ \A k \in 1 .. Len(frames) - 1 : frames'[k] = frames[k]
           /\ frames'[Len(frames)] = Frame(This, pc, This)
<1>1. /\ frames \in Seq(FrameType) /\ Len(frames) \in Nat \ {0}
    BY TopOK DEF Good, OriginInv, FramesOK
<1> QED
    BY <1>1 DEF Goto

\* Who is on the stack.
LEMMA PushOn ==
    ASSUME NEW l \in Nat, Len(frames) = l, Len(frames') = l + 1,
           \A k \in 1 .. l : frames'[k].node = frames[k].node
    PROVE  \A n : OnStack(n)' <=> OnStack(n) \/ n = frames'[l + 1].node
<1>1. 1 .. l + 1 = (1 .. l) \cup {l + 1}
    OBVIOUS
<1> QED
    BY <1>1 DEF OnStack

LEMMA PopOn ==
    ASSUME NEW l \in Nat, l > 0, Len(frames) = l, Len(frames') = l - 1,
           \A k \in 1 .. l - 1 : frames'[k].node = frames[k].node /\ frames[k].node # frames[l].node
    PROVE  \A n : OnStack(n)' <=> OnStack(n) /\ n # frames[l].node
<1>1. 1 .. l = (1 .. l - 1) \cup {l}
    OBVIOUS
<1> QED
    BY <1>1 DEF OnStack

\* The struct around what is read has been read.
LEMMA AroundBuilt ==
    ASSUME StateInv, NEW p \in Field, NEW d \in Below[p], d # p, State(d) \in Live
    PROVE  Built(p)
BY UpDone DEF Built

LEMMA ParentBuilt ==
    ASSUME StateInv, NEW d \in Field, State(d) \in Live, Parent[d] # Root
    PROVE  Built(Parent[d])
<1>1. Parent[d] \in Node /\ Parent[d] # d /\ d \in Below[Parent[d]]
    BY NotRoot, ParentIsNode, BelowSelf, BelowParts
<1>2. Parent[d] \in Field
    BY <1>1 DEF Node
<1> QED
    BY <1>1, <1>2, AroundBuilt


LEMMA CallFacts ==
    ASSUME Good, ~Idle, This # Root, NEW m \in Node, Calls(This, Top.pc, m)
    PROVE  /\ m = Root \/ IsSeq(m)
           /\ m \in Field /\ Parent[m] # Root => Built(Parent[m])
           /\ \A k \in 1 .. Len(frames) : frames[k].pc = "walk" => m \notin After(frames[k].node)
<1> DEFINE l == Len(frames)
<1>0. /\ This \in Field /\ This \in Node /\ This \in Below[This] /\ State(This) \in Live
      /\ l \in Nat /\ l \in 1 .. l /\ Top = frames[l] /\ FrameInv(l) /\ This = Top.node
      /\ Parent[This] \in Node
    BY StackFacts, NotRoot, BelowSelf DEF Node
<1>1. \A k \in 1 .. l - 1 : /\ frames[k].node \in Node /\ frames[k].node \notin Below[This]
                            /\ frames[k].pc = "walk" => This \notin After(frames[k].node)
  <2> SUFFICES ASSUME NEW k \in 1 .. l - 1
               PROVE  /\ frames[k].node \in Node /\ frames[k].node \notin Below[This]
                      /\ frames[k].pc = "walk" => This \notin After(frames[k].node)
      OBVIOUS
  <2>1. Above(frames[k], Top) /\ frames[k].node \in Node
      BY StackFacts
  <2> QED
      BY <1>0, <2>1 DEF Above
<1>2. StateInv /\ schema \in Schemas
    BY DEF Good
<1>below. l > 1 => Top.node = Root \/ IsSeq(Top.node)
    BY <1>0 DEF FrameInv
<1>4. \A n : Root \notin After(n)
    BY TreeAssumption DEF After
<1> HIDE DEF l
<1>3. ~IsSeq(This) => l = 1
    BY <1>0, <1>below
<1>5. \A k \in 1 .. l : k = l \/ k \in 1 .. l - 1
    BY <1>0
<1>6. CASE Top.pc = "position" /\ m = Pred(This) /\ (m = Root \/ m \in Before(This))
  <2>1. CASE m = Root
      BY <1>4, <2>1, TreeAssumption DEF l
  <2>2. CASE m \in Before(This)
    <3>1. m \in Field /\ IsSeq(m) /\ Parent[m] = Parent[This]
        BY <1>0, <2>2, BeforeFacts
    <3>2. Parent[m] # Root => Built(Parent[m])
        BY <1>0, <1>2, <3>1, ParentBuilt
    <3>3. ASSUME NEW k \in 1 .. l, frames[k].pc = "walk"
          PROVE  m \notin After(frames[k].node)
      <4>1. k \in 1 .. l - 1
          BY <1>0, <1>5, <1>6, <3>3
      <4> QED
          BY <1>0, <1>1, <2>2, <3>3, <4>1, AfterSource
    <3> QED
        BY <3>1, <3>2, <3>3 DEF l
  <2> QED
      BY <1>6, <2>1, <2>2
<1>7. CASE Top.pc = "siblings" /\ m \in Range(Kids[Parent[This]])
  <2>1. m \in Field /\ IsSeq(m) /\ Parent[m] = Parent[This]
      BY <1>0, <1>7, KidField
  <2>2. Parent[m] # Root => Built(Parent[m])
      BY <1>0, <1>2, <2>1, ParentBuilt
  <2>3. l = 1
      BY <1>0, <1>3, <1>7 DEF FrameInv
  <2>4. ASSUME NEW k \in 1 .. l
        PROVE  frames[k].pc # "walk"
    <3>1. k = l
        BY <2>3
    <3> QED
        BY <1>0, <1>7, <3>1
  <2> QED
      BY <2>1, <2>2, <2>4 DEF l
<1>8. CASE Top.pc = "read" /\ schema.size[This].how = "field" /\ m = schema.size[This].of
  <2>1. /\ m \in Field /\ IsSeq(m) /\ This \in Below[Parent[m]] /\ This # Parent[m]
        /\ IsSeq(This) => \E a \in Field : This \in Below[a] /\ m \in Before(a)
      BY <1>0, <1>2, <1>8, SourceFacts
  <2>2. Parent[m] # Root => Built(Parent[m])
    <3>1. Parent[m] \in Node
        BY <2>1, NotRoot
    <3> QED
        BY <1>0, <1>2, <2>1, <3>1, AroundBuilt DEF Node
  <2>3. ASSUME NEW k \in 1 .. l, frames[k].pc = "walk"
        PROVE  m \notin After(frames[k].node)
    <3>1. k \in 1 .. l - 1
        BY <1>0, <1>5, <1>8, <2>3
    <3>2. IsSeq(This)
        BY <1>0, <1>3, <3>1
    <3>3. PICK a \in Field : This \in Below[a] /\ m \in Before(a)
        BY <2>1, <3>2
    <3> QED
        BY <1>0, <1>1, <2>3, <3>1, <3>3, AfterSource
  <2> QED
      BY <2>1, <2>2, <2>3 DEF l
<1>9. CASE Top.pc = "walk" /\ m \in Range(Kids[This])
  <2>1. m \in Field /\ IsSeq(m) /\ Parent[m] = This /\ m \in Parts[This]
      BY <1>0, <1>9, KidField
  <2>2. Built(This)
      BY <1>0, <1>9 DEF FrameInv, Built
  <2>3. ASSUME NEW k \in 1 .. l, frames[k].pc = "walk"
        PROVE  m \notin After(frames[k].node)
    <3>1. CASE k = l
        BY <1>0, <2>1, <3>1, AfterKid
    <3>2. CASE k \in 1 .. l - 1
        BY <1>0, <1>1, <2>1, <2>3, <3>2, AfterKid
    <3> QED
        BY <1>5, <3>1, <3>2
  <2> QED
      BY <2>1, <2>2, <2>3 DEF l
<1> QED
    BY <1>6, <1>7, <1>8, <1>9 DEF Calls

\* What is asked for and what is read on the stack are apart.
LEMMA PushStack ==
    ASSUME Good, Same, ~Idle, This # Root, ~Failing, NEW m \in Node, State(m) = "unresolved",
           Calls(This, Top.pc, m), Call(m, Top.pc)
    PROVE  StackInv'
<1> DEFINE l == Len(frames)
<1>0. /\ l \in Nat /\ l > 0 /\ l \in 1 .. l /\ Top = frames[l] /\ This = Top.node
      /\ nodes' = Resolving(m) /\ DOMAIN nodes = Node
    BY StackFacts DEF Call, Good, OriginInv, AllRooted
<1>1. /\ Len(frames') = l + 1 /\ \A k \in 1 .. l - 1 : frames'[k] = frames[k]
      /\ frames'[l] = Frame(This, Top.pc, m) /\ frames'[l + 1] = Activation(m)
    BY CallFrames
<1>2. \A k \in 1 .. l : /\ frames[k].node \in Node /\ FrameInv(k) /\ State(frames[k].node) \in Live
    BY StackFacts
<1>3. /\ m = Root \/ IsSeq(m)
      /\ \A k \in 1 .. l : frames[k].pc = "walk" => m \notin After(frames[k].node)
    BY CallFacts
<1>4. StackInv /\ StateInv
    BY DEF Good
<1>5. \A n \in Node : nodes'[n].state = IF n = m THEN "resolving" ELSE State(n)
    BY <1>0 DEF Resolving, State, Good, OriginInv, AllRooted, Rooted, NodeFields
<1>6. Activation(m) = Frame(m, IF m = Root THEN "root" ELSE IF IsSeq(m) THEN "position" ELSE "siblings", m)
    BY DEF Activation
<1> HIDE DEF l
<1>7. \A k \in 1 .. l : frames'[k].node = frames[k].node /\ frames'[k].pc = frames[k].pc
  <2> SUFFICES ASSUME NEW k \in 1 .. l
               PROVE  frames'[k].node = frames[k].node /\ frames'[k].pc = frames[k].pc
      OBVIOUS
  <2>1. CASE k = l
      BY <1>0, <1>1, <2>1 DEF Frame
  <2>2. CASE k # l
      BY <1>0, <1>1, <2>2
  <2> QED
      BY <2>1, <2>2
<1>8. frames'[l + 1].node = m /\ frames'[l + 1].pc # "walk" /\ frames'[l + 1].awaited = m
    BY <1>1, <1>6 DEF Frame
<1>9. \A k \in 1 .. l + 1 : k = l + 1 \/ k = l \/ k \in 1 .. l - 1
    BY <1>0
<1>10. \A k \in 1 .. l : frames[k].node # m
    BY <1>2 DEF Live
<1>11. ASSUME NEW k \in 1 .. l + 1
       PROVE  FrameInv(k)'
  <2>1. CASE k = l + 1
    <3>1. nodes'[m].state = "resolving"
        BY <1>5
    <3>2. IsSeq(m)' <=> IsSeq(m)
        BY DEF IsSeq
    <3> QED
        BY <1>0, <1>1, <1>3, <1>6, <2>1, <3>1, <3>2 DEF FrameInv, Frame, State
  <2>2. CASE k = l
    <3>1. FrameInv(l)
        BY <1>0, <1>2
    <3>2. nodes'[This].state = State(This)
        BY <1>0, <1>2, <1>5, <1>10
    <3>3. \A n, pc, x : Calls(n, pc, x)' <=> Calls(n, pc, x)
        BY DEF Same, Calls, Before, Pred, IsSeq
    <3>5. \A n : (Walked(n)' <=> Walked(n)) /\ (IsSeq(n)' <=> IsSeq(n))
        BY SameFits DEF IsSeq
    <3>4. frames'[l].node = This /\ frames'[l].pc = Top.pc /\ frames'[l].awaited = m
        BY <1>1 DEF Frame
    <3> QED
        BY <1>0, <1>1, <1>8, <2>2, <3>1, <3>2, <3>3, <3>4, <3>5 DEF FrameInv, State
  <2>3. CASE k \in 1 .. l - 1
    <3>1. k \in 1 .. l /\ k < l /\ k + 1 \in 1 .. l
        BY <1>0, <2>3
    <3>2. FrameInv(k) /\ nodes'[frames[k].node].state = State(frames[k].node)
        BY <1>2, <1>5, <1>10, <3>1
    <3> QED
        BY <1>1, <1>7, <2>3, <3>1, <3>2, FrameKept DEF l
  <2> QED
      BY <1>9, <2>1, <2>2, <2>3
<1>12. ASSUME NEW k \in 1 .. l + 1, NEW j \in 1 .. k - 1
       PROVE  Above(frames[j], frames[k])'
  <2>1. j \in 1 .. l
      BY <1>0
  <2>2. CASE k \in 1 .. l
    <3>1. Above(frames[j], frames[k])
        BY <1>4, <2>2 DEF StackInv, l
    <3> QED
        BY <1>7, <2>1, <2>2, <3>1 DEF Above, After, Before, IsSeq
  <2>3. CASE k = l + 1
    <3>1. frames[j].node # m /\ frames[j].node \in Node /\ State(frames[j].node) \in Live
        BY <1>2, <1>10, <2>1
    <3>2. m # Root => frames[j].node \notin Below[m]
      <4> SUFFICES ASSUME m # Root, frames[j].node \in Below[m]
                   PROVE  FALSE
          OBVIOUS
      <4>1. m \in Field
          BY DEF Node
      <4>2. StateInv
          BY <1>4
      <4>3. State(m) \in {"resolved", "error"}
          BY <3>1, <4>1, <4>2, UpDone
      <4> QED
          BY <4>3
    <3>3. /\ frames'[j].node = frames[j].node /\ frames'[j].pc = frames[j].pc
          /\ frames'[k].node = m
        BY <1>7, <1>8, <2>1, <2>3
    <3>4. frames[j].pc = "walk" => m \notin After(frames[j].node)
        BY <1>3, <2>1
    <3> QED
        BY <3>1, <3>2, <3>3, <3>4 DEF Above, After, Before, IsSeq
  <2> QED
      BY <1>0, <2>2, <2>3
<1>13. ASSUME NEW k \in 1 .. l + 1
       PROVE  Walking(frames[k])'
  <2>1. CASE k = l + 1
      BY <1>8, <2>1 DEF Walking
  <2>2. CASE k \in 1 .. l
    <3>1. Walking(frames[k])
        BY <1>4, <2>2 DEF StackInv, l
    <3>3. \A x \in Range(Kids[frames[k].node]) : x \in Node
        BY <1>2, <2>2, KidField
    <3> QED
        BY <1>5, <1>7, <2>2, <3>1, <3>3 DEF Walking, State
  <2> QED
      BY <1>0, <2>1, <2>2
<1> QED
    BY <1>1, <1>11, <1>12, <1>13 DEF StackInv

\* What a step does with the running activation leaves the others alone.
Aside(x) == x # This /\ (This # Root => x \notin Below[This])
LeavesAside == \A x \in Node : Aside(x) => nodes'[x] = nodes[x]

LEMMA AsideStack ==
    ASSUME Good, ~Idle
    PROVE  \A k \in 1 .. Len(frames) - 1 : frames[k].node \in Node /\ Aside(frames[k].node)
BY StackFacts DEF Aside

LEMMA LowerStack ==
    ASSUME Good, Same, ~Idle, LeavesAside,
           \A k \in 1 .. Len(frames) - 1 : frames'[k] = frames[k],
           \/ Len(frames') = Len(frames) - 1
           \/ Len(frames') = Len(frames) /\ frames'[Len(frames)].node = This
    PROVE  /\ \A k \in 1 .. Len(frames) - 1 : FrameInv(k)'
           /\ \A k \in 1 .. Len(frames) - 1 : \A j \in 1 .. k - 1 : Above(frames[j], frames[k])'
<1> DEFINE l == Len(frames)
<1>0. l \in Nat /\ l > 0 /\ This = frames[l].node /\ StackInv
    BY StackFacts DEF Good
<1>1. ASSUME NEW k \in 1 .. l - 1
      PROVE  FrameInv(k)'
  <2>1. k \in 1 .. l /\ k < l /\ FrameInv(k) /\ nodes'[frames[k].node].state = State(frames[k].node)
    <3>1. frames[k].node \in Node /\ Aside(frames[k].node)
        BY AsideStack
    <3>2. k \in 1 .. l /\ k < l
        BY <1>0
    <3> QED
        BY <3>1, <3>2, StackFacts DEF LeavesAside, State
  <2>2. k < Len(frames') => frames'[k + 1].node = frames[k + 1].node
    <3>1. k + 1 = l \/ k + 1 \in 1 .. l - 1
        BY <1>0
    <3> QED
        BY <1>0, <3>1
  <2> HIDE DEF l
  <2> QED
      BY <2>1, <2>2, FrameKept DEF l
<1>2. ASSUME NEW k \in 1 .. l - 1, NEW j \in 1 .. k - 1
      PROVE  Above(frames[j], frames[k])'
  <2>1. k \in 1 .. l /\ j \in 1 .. l - 1
      BY <1>0
  <2>2. Above(frames[j], frames[k])
      BY <1>0, <2>1 DEF StackInv
  <2> QED
      BY <2>1, <2>2 DEF Above, After, Before, IsSeq
<1> QED
    BY <1>1, <1>2

LEMMA LowerWalking ==
    ASSUME Good, Same, ~Idle, \A k \in 1 .. Len(frames) - 1 : frames'[k] = frames[k],
           ~Failing, \A x \in Node : nodes'[x].state = "error" => State(x) = "error"
    PROVE  \A k \in 1 .. Len(frames) - 1 : Walking(frames[k])'
<1> SUFFICES ASSUME NEW k \in 1 .. Len(frames) - 1
             PROVE  Walking(frames[k])'
    OBVIOUS
<1>1. k \in 1 .. Len(frames) /\ frames[k].node \in Node /\ frames'[k] = frames[k]
    BY StackFacts
<1>2. Walking(frames[k])
    BY <1>1 DEF Good, StackInv
<1>3. \A x \in Range(Kids[frames[k].node]) : x \in Node
    BY <1>1, KidField
<1> QED
    BY <1>1, <1>2, <1>3 DEF Walking, State

LEMMA PopStack ==
    ASSUME Good, Same, ~Idle, LeavesAside, frames' = SubSeq(frames, 1, Len(frames) - 1),
           \/ nodes'[This].state = "error"
           \/ ~Failing /\ \A x \in Node : nodes'[x].state = "error" => State(x) = "error"
    PROVE  StackInv'
<1> PICK l \in Nat : l = Len(frames)
    BY StackFacts
<1>0. l \in Nat /\ l > 0 /\ This = frames[l].node
    BY StackFacts
<1>1. Len(frames') = l - 1 /\ \A k \in 1 .. l - 1 : frames'[k] = frames[k]
    BY PopFrames
<1>2. /\ \A k \in 1 .. l - 1 : FrameInv(k)'
      /\ \A k \in 1 .. l - 1 : \A j \in 1 .. k - 1 : Above(frames[j], frames[k])'
    BY <1>1, LowerStack
<1>3. Failing' \/ \A k \in 1 .. l - 1 : Walking(frames[k])'
  <2>1. CASE nodes'[This].state = "error" /\ l > 1
    <3>1. l - 1 \in 1 .. l - 1 /\ l - 1 \in 1 .. l /\ l - 1 < l /\ l - 1 + 1 = l
        BY <1>0, <2>1
    <3>2. frames[l - 1].awaited = This /\ frames[l - 1].node # This
      <4>1. FrameInv(l - 1)
          BY <3>1, StackFacts
      <4>2. l - 1 < Len(frames) => frames[l - 1 + 1].node = frames[l - 1].awaited
          BY <4>1 DEF FrameInv
      <4>3. frames[l - 1].node # This
          BY <3>1, StackFacts
      <4> QED
          BY <1>0, <3>1, <4>2, <4>3
    <3>3. frames' # <<>> /\ frames'[Len(frames')] = frames[l - 1]
      <4>1. Len(frames') # 0 /\ Len(<<>>) = 0
          BY <1>0, <1>1, <2>1
      <4>2. frames' # <<>>
          BY <4>1
      <4>3. frames'[l - 1] = frames[l - 1]
          BY <1>1, <3>1
      <4> QED
          BY <1>1, <4>2, <4>3
    <3> QED
        BY <2>1, <3>2, <3>3 DEF Failing, Awaited, Idle, Top, This, State
  <2>2. CASE l = 1
      BY <2>2
  <2>3. CASE ~Failing /\ \A x \in Node : nodes'[x].state = "error" => State(x) = "error"
      BY <1>1, <2>3, LowerWalking
  <2> QED
      BY <1>0, <2>1, <2>2, <2>3
<1> QED
    BY <1>1, <1>2, <1>3 DEF StackInv

LEMMA GotoStack ==
    ASSUME Good, Same, ~Idle, This # Root, LeavesAside, NEW pc \in {"read", "walk"}, Goto(pc), ~Failing,
           \A x \in Node : nodes'[x].state = "error" => State(x) = "error",
           pc = "read" => nodes'[This].state = "resolving",
           pc = "walk" => /\ Walked(This) /\ nodes'[This].state = "resolved"
                          /\ \A m \in Range(Kids[This]) : nodes'[m].state # "error"
    PROVE  StackInv'
<1> PICK l \in Nat : l = Len(frames)
    BY StackFacts
<1>0. /\ l \in Nat /\ l > 0 /\ This = frames[l].node /\ l \in 1 .. l /\ Top = frames[l]
      /\ FrameInv(l) /\ This \in Node
    BY StackFacts
<1>1. /\ Len(frames') = l /\ \A k \in 1 .. l - 1 : frames'[k] = frames[k]
      /\ frames'[l] = Frame(This, pc, This)
    BY GotoFrames
<1>2. frames'[l].node = This /\ frames'[l].pc = pc /\ frames'[l].awaited = This
    BY <1>1 DEF Frame
<1>3. /\ \A k \in 1 .. l - 1 : FrameInv(k)'
      /\ \A k \in 1 .. l - 1 : \A j \in 1 .. k - 1 : Above(frames[j], frames[k])'
    BY <1>1, <1>2, LowerStack
<1>4. \A k \in 1 .. l - 1 : Walking(frames[k])'
    BY <1>1, LowerWalking
<1>5. l > 1 => IsSeq(This)
    BY <1>0 DEF FrameInv
<1>6. \A k \in 1 .. l - 1 : Above(frames[k], Top)
    BY StackFacts
<1>7. FrameInv(l)'
  <2>1. \A n : (Walked(n)' <=> Walked(n)) /\ (IsSeq(n)' <=> IsSeq(n))
      BY SameFits DEF IsSeq
  <2> QED
      BY <1>1, <1>2, <1>5, <2>1 DEF FrameInv, State
<1>8. Walking(frames[l])'
    BY <1>2 DEF Walking, State
<1>9. \A k \in 1 .. l - 1 : Above(frames[k], frames[l])'
  <2> SUFFICES ASSUME NEW k \in 1 .. l - 1
               PROVE  Above(frames[k], frames[l])'
      OBVIOUS
  <2>1. Above(frames[k], Top) /\ Top.node = This
      BY <1>0, <1>6
  <2> QED
      BY <1>1, <1>2, <2>1 DEF Above, After, Before, IsSeq
<1>10. \A k \in 1 .. l : k = l \/ k \in 1 .. l - 1
    BY <1>0
<1> QED
    BY <1>1, <1>3, <1>4, <1>7, <1>8, <1>9, <1>10 DEF StackInv

\* Where the fields stand that are about to be read.
LEMMA LowerRead ==
    ASSUME Good, Same, ~Idle, LeavesAside,
           \A k \in 1 .. Len(frames) - 1 : frames'[k] = frames[k]
    PROVE  \A k \in 1 .. Len(frames) - 1 :
             ReadFrame(k)'
<1> SUFFICES ASSUME NEW k \in 1 .. Len(frames) - 1, NEW n \in Node, frames'[k].node = n,
                    frames'[k].pc = "read", Here(n)'
             PROVE  nodes'[n].startPos = Rel(n)'
    BY DEF ReadFrame
<1>1. k \in 1 .. Len(frames) /\ frames[k].node = n /\ Aside(n) /\ frames'[k] = frames[k]
    BY StackFacts, AsideStack
<1>2. (Here(n)' <=> Here(n)) /\ Rel(n)' = Rel(n)
    BY SameHere
<1>3. nodes'[n] = nodes[n] /\ ReadFrame(k)
    BY <1>1 DEF LeavesAside, Good, ReadInv
<1> QED
    BY <1>1, <1>2, <1>3 DEF ReadFrame

-----------------------------------------------------------------------------
(* The states of the nodes.                                                *)

LEMMA StateInvNext ==
    ASSUME Good, Same,
           \A n \in Node : nodes'[n].state = "resolving" => OnStack(n)',
           nodes'[Root].state \in {"unresolved", "resolving", "resolved"},
           nodes'[Root].state = "resolved" => nodes'[Root].startPos = 0,
           \A n \in Field : Parent[n] # Root /\ nodes'[n].state \in Live =>
             nodes'[Parent[n]].state \in {"resolved", "error"},
           \A n \in Field : nodes'[n].state = "absent" =>
             Parent[n] # Root /\ (IsStruct(Parent[n]) => nodes'[Parent[n]].state # "resolved"),
           \A n \in Node : nodes'[n].state # "absent" => Described(n),
           \A n \in Node : nodes'[n].state \in Live \cup {"absent", "unresolved"}
    PROVE  StateInv'
<1>1. \A n \in Node : (Described(n)' <=> Described(n)) /\ (OwnStream(n)' <=> OwnStream(n))
                      /\ (IsStruct(n)' <=> IsStruct(n))
    BY SameHere
<1>2. Live' = Live
    BY DEF Live
<1>3. reread' \subseteq {n \in Node : OwnStream(n)'}
    BY <1>1 DEF Same, Good, StateInv
<1>4. \A n \in Field : Parent[n] \in Node
    BY NotRoot
<1>5. \A n \in Field : nodes'[n].state = "absent" =>
        Parent[n] # Root /\ (IsStruct(Parent[n])' => nodes'[Parent[n]].state # "resolved")
    BY <1>1, <1>4
<1> QED
    BY <1>1, <1>2, <1>3, <1>5 DEF StateInv, State

\* A node is asked for.
LEMMA PushState ==
    ASSUME Good, Same, NEW m \in Node, State(m) = "unresolved", nodes' = Resolving(m),
           \A n \in Node : OnStack(n)' <=> OnStack(n) \/ n = m,
           m \in Field /\ Parent[m] # Root => Built(Parent[m])
    PROVE  StateInv'
<1>1. \A n \in Node : nodes'[n].state = IF n = m THEN "resolving" ELSE State(n)
    BY DEF Resolving, State, Good, OriginInv, AllRooted, Rooted, NodeFields
<1>2. nodes'[Root] = IF Root = m THEN nodes'[Root] ELSE nodes[Root]
    BY NotRoot DEF Resolving, Node, Good, OriginInv, AllRooted
<1>3. \A n \in Field : n \in Node /\ Parent[n] \in Node
    BY NotRoot
<1>4. StateInv
    BY DEF Good
<1>5. Root \in Node
    BY DEF Node
<1>6. ASSUME NEW n \in Field, Parent[n] # Root, nodes'[n].state \in Live
      PROVE  nodes'[Parent[n]].state \in {"resolved", "error"}
  <2>1. State(Parent[n]) \in {"resolved", "error"}
    <3>1. CASE n = m
        BY <1>6, <3>1 DEF Built
    <3>2. CASE n # m
        BY <1>1, <1>3, <1>4, <1>6, <3>2 DEF StateInv
    <3> QED
        BY <3>1, <3>2
  <2> QED
      BY <1>1, <1>3, <2>1
<1>7. ASSUME NEW n \in Field, nodes'[n].state = "absent"
      PROVE  Parent[n] # Root /\ (IsStruct(Parent[n]) => nodes'[Parent[n]].state # "resolved")
    BY <1>1, <1>3, <1>4, <1>7 DEF StateInv
<1>8. \A n \in Node : nodes'[n].state = "resolving" => OnStack(n)'
    BY <1>1, <1>4 DEF StateInv
<1>9. \A n \in Node : nodes'[n].state # "absent" => Described(n)
    BY <1>1, <1>4 DEF StateInv
<1>10. \A n \in Node : nodes'[n].state \in Live \cup {"absent", "unresolved"}
    BY <1>1, <1>4 DEF StateInv, Live
<1>11. /\ nodes'[Root].state \in {"unresolved", "resolving", "resolved"}
       /\ nodes'[Root].state = "resolved" => nodes'[Root].startPos = 0
    BY <1>1, <1>2, <1>4, <1>5 DEF StateInv
<1> QED
    BY <1>6, <1>7, <1>8, <1>9, <1>10, <1>11, StateInvNext

\* The node of the running activation gets a result, and the parts it has stay.
LEMMA EditState ==
    ASSUME Good, Same, ~Idle, NEW v, nodes' = [nodes EXCEPT ![This] = v],
           \/ /\ v.state \in {"resolved", "error"}
              /\ \A n \in Node : OnStack(n)' <=> OnStack(n) /\ n # This
              /\ This = Root => v.state = "resolved" /\ v.startPos = 0
              /\ This # Root /\ IsStruct(This) /\ v.state = "resolved" => State(This) = "resolved"
           \/ /\ v.state = State(This) /\ This # Root
              /\ \A n \in Node : OnStack(n)' <=> OnStack(n)
    PROVE  StateInv'
<1>0. This \in Node /\ DOMAIN nodes = Node /\ State(This) \in Live /\ Root \in Node
    BY StackFacts DEF Good, OriginInv, AllRooted, Node
<1>1. \A n \in Node : nodes'[n] = IF n = This THEN v ELSE nodes[n]
    BY <1>0
<1>2. \A n \in Field : n \in Node /\ Parent[n] \in Node
    BY NotRoot
<1>3. StateInv
    BY DEF Good
<1>4. ASSUME NEW n \in Field, Parent[n] # Root, nodes'[n].state \in Live
      PROVE  nodes'[Parent[n]].state \in {"resolved", "error"}
  <2>1. State(n) \in Live
      BY <1>0, <1>1, <1>2, <1>4 DEF State
  <2>2. State(Parent[n]) \in {"resolved", "error"}
      BY <1>3, <1>4, <2>1 DEF StateInv
  <2> QED
      BY <1>1, <1>2, <2>2 DEF State
<1>5. ASSUME NEW n \in Field, nodes'[n].state = "absent"
      PROVE  Parent[n] # Root /\ (IsStruct(Parent[n]) => nodes'[Parent[n]].state # "resolved")
  <2>1. State(n) = "absent"
      BY <1>0, <1>1, <1>2, <1>5 DEF State, Live
  <2>2. Parent[n] # Root /\ (IsStruct(Parent[n]) => State(Parent[n]) # "resolved")
      BY <1>3, <2>1 DEF StateInv
  <2> QED
      BY <1>1, <1>2, <2>2 DEF State
<1>6. \A n \in Node : nodes'[n].state = "resolving" => OnStack(n)'
    BY <1>0, <1>1, <1>3 DEF StateInv, State
<1>7. \A n \in Node : nodes'[n].state # "absent" => Described(n)
    BY <1>0, <1>1, <1>3 DEF StateInv, State, Live
<1>8. \A n \in Node : nodes'[n].state \in Live \cup {"absent", "unresolved"}
    BY <1>0, <1>1, <1>3 DEF StateInv, Live, State
<1>9. /\ nodes'[Root].state \in {"unresolved", "resolving", "resolved"}
      /\ nodes'[Root].state = "resolved" => nodes'[Root].startPos = 0
    BY <1>0, <1>1, <1>3 DEF StateInv, State
<1> QED
    BY <1>4, <1>5, <1>6, <1>7, <1>8, <1>9, StateInvNext

\* The node of the running activation becomes a struct.
LEMMA BuildFacts ==
    ASSUME Good, This \in Field, NEW v, nodes' = Build(v)
    PROVE  /\ LeavesAside
           /\ \A x \in Node : nodes'[x] = IF x = This THEN v
                                          ELSE IF x \in Parts[This] THEN Fresh(v.stream, v.streamOffset)
                                          ELSE IF x \in Below[This] THEN Absent
                                          ELSE nodes[x]
           /\ \A x \in Parts[This] : x # This /\ x \in Below[This] /\ x \in Field
           /\ This \in Below[This] /\ Root \notin Below[This] /\ This \in Node /\ This # Root
<1>1. This \in Below[This] /\ Root \notin Below[This] /\ This \in Node /\ This # Root
    BY NotRoot, BelowSelf, RootNotBelow
<1>2. \A x \in Parts[This] : x # This /\ x \in Below[This] /\ x \in Field
  <2> SUFFICES ASSUME NEW x \in Parts[This]
               PROVE  x # This /\ x \in Below[This] /\ x \in Field
      OBVIOUS
  <2>1. x \in Below[This] /\ x \in Field /\ Parent[x] = This
      BY <1>1, BelowParts, ParentUnique
  <2> QED
      BY <2>1, NotRoot
<1>3. \A x \in Node : nodes'[x] = IF x = This THEN v
                                  ELSE IF x \in Parts[This] THEN Fresh(v.stream, v.streamOffset)
                                  ELSE IF x \in Below[This] THEN Absent
                                  ELSE nodes[x]
    BY DEF Build, BuildFrom
<1>4. LeavesAside
    BY <1>1, <1>2, <1>3 DEF LeavesAside, Aside
<1> QED
    BY <1>1, <1>2, <1>3, <1>4

LEMMA BuildState ==
    ASSUME Good, Same, ~Idle, This \in Field, IsStruct(This), NEW v, v.state = "resolved",
           nodes' = Build(v), \A n \in Node : OnStack(n) /\ n # This => OnStack(n)'
    PROVE  StateInv'
<1> DEFINE below == Below[This] \ {This}
<1>1. /\ \A x \in Node \ Below[This] : nodes'[x] = nodes[x]
      /\ nodes'[This].state = "resolved"
      /\ \A x \in Parts[This] : nodes'[x].state = "unresolved"
      /\ \A x \in below \ Parts[This] : nodes'[x].state = "absent"
  <2>1. Fresh(v.stream, v.streamOffset).state = "unresolved" /\ Absent.state = "absent"
      BY DEF Fresh, Absent
  <2>2. Below[This] \subseteq Node
      BY BelowSelf, NotRoot
  <2> QED
      BY <2>1, <2>2, BuildFacts
<1>2. /\ \A x \in Parts[This] : x \in below /\ x \in Field
      /\ This \in Below[This] /\ Root \notin Below[This] /\ This \in Node /\ This # Root /\ Root \in Node
    BY BuildFacts, NotRoot
<1>3. StateInv /\ Described(This)
  <2>1. StateInv /\ State(This) # "absent"
      BY StackFacts DEF Good, Live
  <2> QED
      BY <1>2, <2>1 DEF StateInv
<1>4. ASSUME NEW n \in Field
      PROVE  /\ n \in Node /\ Parent[n] \in Node
             /\ n \notin Below[This] => Parent[n] \notin Below[This]
             /\ n \in below => Parent[n] \in Below[This]
             /\ n \in below \ Parts[This] => Parent[n] \in below
  <2>1. n \in Node /\ Parent[n] \in Node /\ n \in Parts[Parent[n]]
      BY NotRoot, ParentIsNode
  <2>2. n \notin Below[This] => Parent[n] \notin Below[This]
      BY <1>2, <2>1, BelowParts
  <2>3. n \in below => Parent[n] \in Below[This]
      BY <1>2, <2>1, BelowUp
  <2>4. n \notin Parts[This] => Parent[n] # This
      BY <2>1
  <2> QED
      BY <2>1, <2>2, <2>3, <2>4
<1>5. \A x \in below : nodes'[x].state \in {"unresolved", "absent"}
    BY <1>1
<1> HIDE DEF below
<1>6. \A x \in Node : x = This \/ x \in below \/ x \notin Below[This]
    BY DEF below
<1>7. ASSUME NEW n \in Field, Parent[n] # Root, nodes'[n].state \in Live
      PROVE  nodes'[Parent[n]].state \in {"resolved", "error"}
  <2>1. n \notin below
      BY <1>5, <1>7 DEF Live
  <2>2. State(n) \in Live
      BY <1>1, <1>4, <1>6, <1>7, <2>1, StackFacts DEF State
  <2>3. State(Parent[n]) \in {"resolved", "error"}
      BY <1>3, <1>7, <2>2 DEF StateInv
  <2>4. Parent[n] \notin Below[This]
    <3>1. CASE n = This
        BY <3>1, NoCycle
    <3>2. CASE n # This
        BY <1>4, <1>6, <2>1, <3>2
    <3> QED
        BY <3>1, <3>2
  <2> QED
      BY <1>1, <1>4, <2>3, <2>4 DEF State
<1>8. ASSUME NEW n \in Field, nodes'[n].state = "absent"
      PROVE  Parent[n] # Root /\ (IsStruct(Parent[n]) => nodes'[Parent[n]].state # "resolved")
  <2>1. CASE n \in Below[This]
    <3>1. n \in below \ Parts[This]
        BY <1>1, <1>4, <1>6, <1>8, <2>1
    <3>2. Parent[n] \in below /\ nodes'[Parent[n]].state \in {"unresolved", "absent"}
        BY <1>4, <1>5, <3>1
    <3> QED
        BY <1>2, <3>2 DEF below
  <2>2. CASE n \notin Below[This]
    <3>1. State(n) = "absent" /\ Parent[n] \notin Below[This]
        BY <1>1, <1>4, <1>8, <2>2 DEF State
    <3>2. nodes'[Parent[n]] = nodes[Parent[n]]
        BY <1>1, <1>4, <3>1
    <3> QED
        BY <1>3, <3>1, <3>2 DEF StateInv, State
  <2> QED
      BY <2>1, <2>2
<1>9. \A n \in Node : nodes'[n].state = "resolving" => OnStack(n)'
  <2> SUFFICES ASSUME NEW n \in Node, nodes'[n].state = "resolving"
               PROVE  OnStack(n)'
      OBVIOUS
  <2>1. n \notin Below[This] /\ n # This
      BY <1>1, <1>2, <1>5, <1>6
  <2> QED
      BY <1>1, <1>3, <2>1 DEF StateInv, State
<1>10. ASSUME NEW n \in Node, nodes'[n].state # "absent"
       PROVE  Described(n)
  <2>1. CASE n \in Parts[This]
      BY <1>2, <1>3, <2>1, DescribedPart
  <2>2. CASE n = This
      BY <1>3, <2>2
  <2>3. CASE n \notin Below[This]
      BY <1>1, <1>3, <1>10, <2>3 DEF StateInv, State
  <2> QED
      BY <1>1, <1>6, <1>10, <2>1, <2>2, <2>3
<1>11. \A n \in Node : nodes'[n].state \in Live \cup {"absent", "unresolved"}
  <2> SUFFICES ASSUME NEW n \in Node
               PROVE  nodes'[n].state \in Live \cup {"absent", "unresolved"}
      OBVIOUS
  <2>1. CASE n \notin Below[This]
      BY <1>1, <1>3, <2>1 DEF StateInv, State
  <2> QED
      BY <1>1, <1>5, <1>6, <2>1 DEF Live
<1>12. /\ nodes'[Root].state \in {"unresolved", "resolving", "resolved"}
       /\ nodes'[Root].state = "resolved" => nodes'[Root].startPos = 0
    BY <1>1, <1>2, <1>3 DEF StateInv, State
<1> QED
    BY <1>7, <1>8, <1>9, <1>10, <1>11, <1>12, StateInvNext

-----------------------------------------------------------------------------
(* What the nodes hold.                                                    *)

LEMMA NodeKept ==
    ASSUME Good, NEW n \in Field, Here(n), State(n) # "absent", nodes'[n] = nodes[n],
           OnStack(n) => OnStack(n)', Built(n)' => Built(n)
    PROVE  NodeOK(n, nodes'[n], OnStack(n)', Built(n)')
<1>1. NodeOK(n, nodes[n], OnStack(n), Built(n))
    BY DEF Good, NodeInv
<1> HIDE DEF OnStack, Built
<1> QED
    BY <1>1 DEF NodeOK

LEMMA PushNode ==
    ASSUME Good, Same, NEW m \in Node, State(m) = "unresolved", nodes' = Resolving(m),
           \A n \in Node : OnStack(n)' <=> OnStack(n) \/ n = m,
           m \in Field /\ Parent[m] # Root => Built(Parent[m])
    PROVE  NodeInv'
<1>1. \A n \in Node : nodes'[n].state = IF n = m THEN "resolving" ELSE State(n)
    BY DEF Resolving, State, Good, OriginInv, AllRooted, Rooted, NodeFields
<1>2. \A n \in Node : n # m => nodes'[n] = nodes[n]
    BY DEF Resolving, Good, OriginInv, AllRooted
<1>3. nodes'[m].stream = nodes[m].stream
    BY DEF Resolving, Good, OriginInv, AllRooted, Rooted, NodeFields
<1>4. \A n \in Field : n \in Node
    BY NotRoot
<1>5. ASSUME NEW n \in Field, n # m, Built(n)'
      PROVE  Built(n)
  <2>1. \A x \in Parts[n] : x \in Node /\ x \in Field /\ Parent[x] = n
      BY <1>4, PartsAreFields, ParentUnique
  <2>2. nodes'[n].state = State(n)
      BY <1>1, <1>4, <1>5
  <2>3. \A x \in Parts[n] : nodes'[x].state \in Live => State(x) \in Live \/ x = m
      BY <1>1, <2>1
  <2>4. m \in Parts[n] => Built(n)
      BY <1>4, <2>1, NotRoot
  <2>5. State(n) = "resolved" \/ (State(n) = "error" /\ \E x \in Parts[n] : nodes'[x].state \in Live)
      BY <1>5, <2>2 DEF Built, State, Live
  <2> QED
      BY <2>3, <2>4, <2>5 DEF Built
<1> SUFFICES ASSUME NEW n \in Field, Here(n), nodes'[n].state # "absent"
             PROVE  NodeOK(n, nodes'[n], OnStack(n)', Built(n)')
    BY NodeInvNext
<1>6. CASE n # m
  <2>1. State(n) # "absent" /\ nodes'[n] = nodes[n] /\ (OnStack(n) => OnStack(n)')
      BY <1>2, <1>4, <1>6 DEF State
  <2> QED
      BY <1>5, <1>6, <2>1, NodeKept
<1>7. CASE n = m
  <2>1. NodeOK(n, nodes[n], OnStack(n), Built(n))
      BY <1>7 DEF Good, NodeInv
  <2>2. ~OwnStream(n) \/ n \notin reread => nodes[n].stream = Window(Parent[n])
      BY <1>7, <2>1 DEF NodeOK, State
  <2>3. nodes'[n].state = "resolving"
      BY <1>1, <1>7
  <2>4. ~Built(n)'
      BY <2>3 DEF Built, State
  <2>5. nodes'[n].stream = nodes[n].stream
      BY <1>3, <1>7
  <2> HIDE DEF OnStack, Built
  <2> QED
      BY <2>2, <2>3, <2>4, <2>5 DEF NodeOK
<1> QED
    BY <1>6, <1>7

LEMMA EditNode ==
    ASSUME Good, Same, ~Idle, NEW t \in Node, t = This, NEW v, nodes' = [nodes EXCEPT ![t] = v],
           v.state \in Live, \A n \in Node : OnStack(n) /\ n # t => OnStack(n)',
           t \in Field /\ Here(t) => NodeOK(t, v, OnStack(t)', Built(t)')
    PROVE  NodeInv'
<1>0. DOMAIN nodes = Node /\ State(t) \in Live
    BY StackFacts DEF Good, OriginInv, AllRooted
<1>1. \A n \in Node : nodes'[n] = IF n = t THEN v ELSE nodes[n]
    BY <1>0
<1>2. \A n \in Field : n \in Node
    BY NotRoot
<1> SUFFICES ASSUME NEW n \in Field, Here(n), nodes'[n].state # "absent"
             PROVE  NodeOK(n, nodes'[n], OnStack(n)', Built(n)')
    BY NodeInvNext
<1>3. CASE n = t
    BY <1>1, <1>2, <1>3
<1>4. CASE n # t
  <2>1. State(n) # "absent" /\ nodes'[n] = nodes[n] /\ (OnStack(n) => OnStack(n)')
      BY <1>1, <1>2, <1>4 DEF State
  <2>2. Built(n)' => Built(n)
    <3>1. \A x \in Parts[n] : x \in Node
        BY <1>2, PartsAreFields
    <3>2. \A x \in Parts[n] : nodes'[x].state \in Live => State(x) \in Live
        BY <1>0, <1>1, <3>1 DEF State
    <3> QED
        BY <2>1, <3>2 DEF Built, State, Live
  <2> QED
      BY <2>1, <2>2, NodeKept
<1> QED
    BY <1>3, <1>4

LEMMA BuildNode ==
    ASSUME Good, Same, ~Idle, NEW t \in Field, t = This, IsStruct(t), NEW v, v.state = "resolved",
           nodes' = Build(v), \A n \in Node : OnStack(n) /\ n # t => OnStack(n)',
           Here(t) => NodeOK(t, v, OnStack(t)', TRUE)
    PROVE  NodeInv'
<1>1. /\ \A x \in Node \ Below[t] : nodes'[x] = nodes[x]
      /\ nodes'[t] = v
      /\ \A x \in Parts[t] : nodes'[x] = Fresh(v.stream, v.streamOffset)
      /\ \A x \in Below[t] : x \notin Parts[t] /\ x # t => nodes'[x] = Absent
      /\ \A x \in Parts[t] : x # t /\ x \in Below[t]
      /\ t \in Below[t] /\ t \in Node
  <2>1. Below[t] \subseteq Node
      BY NotRoot, BelowSelf
  <2> QED
      BY <2>1, BuildFacts
<1>2. /\ Fresh(v.stream, v.streamOffset).state = "unresolved"
      /\ Fresh(v.stream, v.streamOffset).stream = v.stream
      /\ Absent.state = "absent"
    BY DEF Fresh, Absent
<1>3. \A n \in Field : n \in Node
    BY NotRoot
<1>4. State(t) \in Live /\ reread \subseteq Node
    BY StackFacts DEF Good, StateInv
<1> SUFFICES ASSUME NEW n \in Field, Here(n), nodes'[n].state # "absent"
             PROVE  NodeOK(n, nodes'[n], OnStack(n)', Built(n)')
    BY NodeInvNext
<1>5. CASE n = t
  <2>1. NodeOK(t, v, OnStack(t)', TRUE) /\ nodes'[n] = v
      BY <1>1, <1>5
  <2> HIDE DEF OnStack, Built
  <2> QED
      BY <1>5, <2>1 DEF NodeOK
<1>6. CASE n \in Parts[t]
  <2>1. Parent[n] = t /\ t \notin reread /\ Here(t)
      BY <1>1, <1>4, <1>6, ParentUnique, HereUp
  <2>2. v.stream = Window(t)
      BY <2>1 DEF NodeOK
  <2>3. nodes'[n].stream = Window(Parent[n]) /\ nodes'[n].state = "unresolved"
      BY <1>1, <1>2, <1>6, <2>1, <2>2
  <2>4. ~Built(n)'
      BY <2>3 DEF Built, State
  <2> HIDE DEF OnStack, Built
  <2> QED
      BY <2>3, <2>4 DEF NodeOK
<1>7. CASE n \notin Below[t]
  <2>1. State(n) # "absent" /\ nodes'[n] = nodes[n] /\ (OnStack(n) => OnStack(n)')
      BY <1>1, <1>3, <1>7 DEF State
  <2>2. Built(n)' => Built(n)
    <3>1. ASSUME NEW x \in Parts[n], nodes'[x].state \in Live
          PROVE  State(x) \in Live
      <4>1. x \in Node /\ x \in Field /\ Parent[x] = n
          BY <1>3, PartsAreFields, ParentUnique
      <4>2. x = t \/ x \notin Below[t]
          BY <1>1, <1>7, <4>1, BelowUp
      <4> QED
          BY <1>1, <1>4, <3>1, <4>1, <4>2 DEF State
    <3> QED
        BY <2>1, <3>1 DEF Built, State, Live
  <2> QED
      BY <2>1, <2>2, NodeKept
<1> QED
    BY <1>1, <1>2, <1>3, <1>5, <1>6, <1>7

-----------------------------------------------------------------------------
(* The steps of the stack, put together.                                   *)

LEMMA PushRead ==
    ASSUME Good, Same, NEW m \in Node, State(m) = "unresolved", nodes' = Resolving(m),
           NEW l \in Nat, l = Len(frames), Len(frames') = l + 1, frames'[l + 1].pc # "read",
           \A k \in 1 .. l : frames'[k].node = frames[k].node /\ frames'[k].pc = frames[k].pc
    PROVE  ReadInv'
<1>1. \A n \in Node : nodes'[n].startPos = nodes[n].startPos
    BY DEF Resolving, Good, OriginInv, AllRooted, Rooted, NodeFields
<1>2. \A n : (Here(n)' <=> Here(n)) /\ Rel(n)' = Rel(n)
    BY SameHere
<1>3. \A k \in 1 .. l : ReadFrame(k)
    BY DEF Good, ReadInv
<1> SUFFICES ASSUME NEW k \in 1 .. l + 1, NEW n \in Node, frames'[k].node = n,
                    frames'[k].pc = "read", Here(n)'
             PROVE  nodes'[n].startPos = Rel(n)'
    BY DEF ReadInv, ReadFrame
<1>4. k \in 1 .. l
  <2>1. k # l + 1
      OBVIOUS
  <2> QED
      BY <2>1
<1>5. frames[k].node = n /\ frames[k].pc = "read" /\ Here(n)
    BY <1>2, <1>4
<1> QED
    BY <1>1, <1>2, <1>3, <1>4, <1>5 DEF ReadFrame

LEMMA PushStep ==
    ASSUME Good, Same, ~Idle, This # Root, ~Failing, NEW m \in Node, State(m) = "unresolved",
           Calls(This, Top.pc, m), Call(m, Top.pc)
    PROVE  StackInv' /\ StateInv' /\ NodeInv' /\ ReadInv'
<1>1. StackInv'
    BY PushStack
<1> PICK l \in Nat : l = Len(frames)
    BY StackFacts
<1>2. /\ nodes' = Resolving(m) /\ Len(frames') = l + 1
      /\ \A k \in 1 .. l - 1 : frames'[k] = frames[k]
      /\ frames'[l] = Frame(This, Top.pc, m) /\ frames'[l + 1] = Activation(m)
    BY CallFrames DEF Call
<1>3. l > 0 /\ Top = frames[l] /\ This = Top.node
    BY StackFacts
<1>4. frames'[l].node = frames[l].node /\ frames'[l].pc = frames[l].pc
    BY <1>2, <1>3 DEF Frame
<1>5. \A k \in 1 .. l : frames'[k].node = frames[k].node /\ frames'[k].pc = frames[k].pc
  <2> SUFFICES ASSUME NEW k \in 1 .. l
               PROVE  frames'[k].node = frames[k].node /\ frames'[k].pc = frames[k].pc
      OBVIOUS
  <2>1. k = l \/ k \in 1 .. l - 1
      BY <1>3
  <2> QED
      BY <1>2, <1>4, <2>1
<1>6. frames'[l + 1].node = m /\ frames'[l + 1].pc # "read"
  <2>1. Activation(m).node = m /\ Activation(m).pc # "read"
      BY DEF Activation, Frame
  <2> QED
      BY <1>2, <2>1
<1>7. \A n \in Node : OnStack(n)' <=> OnStack(n) \/ n = m
    BY <1>2, <1>5, <1>6, PushOn
<1>8. m \in Field /\ Parent[m] # Root => Built(Parent[m])
    BY CallFacts
<1>9. StateInv' /\ NodeInv'
    BY <1>2, <1>7, <1>8, PushState, PushNode
<1>10. ReadInv'
    BY <1>2, <1>5, <1>6, PushRead
<1> QED
    BY <1>1, <1>9, <1>10

LEMMA PopRead ==
    ASSUME Good, Same, ~Idle, LeavesAside, frames' = SubSeq(frames, 1, Len(frames) - 1)
    PROVE  ReadInv'
<1>1. Len(frames') = Len(frames) - 1 /\ \A k \in 1 .. Len(frames) - 1 : frames'[k] = frames[k]
    BY PopFrames
<1>2. \A k \in 1 .. Len(frames) - 1 : ReadFrame(k)'
    BY <1>1, LowerRead
<1> QED
    BY <1>1, <1>2 DEF ReadInv

LEMMA PopStackOn ==
    ASSUME Good, ~Idle, frames' = SubSeq(frames, 1, Len(frames) - 1)
    PROVE  \A n : OnStack(n)' <=> OnStack(n) /\ n # This
<1> PICK l \in Nat : l = Len(frames)
    BY StackFacts
<1>1. l > 0 /\ This = frames[l].node /\ \A k \in 1 .. l - 1 : frames[k].node # This
    BY StackFacts
<1>2. Len(frames') = l - 1 /\ \A k \in 1 .. l - 1 : frames'[k] = frames[k]
    BY PopFrames
<1> QED
    BY <1>1, <1>2, PopOn

LEMMA GotoOn ==
    ASSUME Good, ~Idle, NEW pc, Goto(pc)
    PROVE  \A n : OnStack(n)' <=> OnStack(n)
<1> PICK l \in Nat : l = Len(frames)
    BY StackFacts
<1>1. l > 0 /\ This = frames[l].node
    BY StackFacts
<1>2. Len(frames') = l /\ (\A k \in 1 .. l - 1 : frames'[k] = frames[k]) /\ frames'[l].node = This
  <2>1. /\ Len(frames') = l /\ \A k \in 1 .. l - 1 : frames'[k] = frames[k]
        /\ frames'[l] = Frame(This, pc, This)
      BY GotoFrames
  <2> QED
      BY <2>1 DEF Frame
<1>3. \A k \in 1 .. l : k = l \/ k \in 1 .. l - 1
    BY <1>1
<1>4. \A k \in 1 .. l : frames'[k].node = frames[k].node
    BY <1>1, <1>2, <1>3
<1> QED
    BY <1>2, <1>4 DEF OnStack

LEMMA GotoRead ==
    ASSUME Good, Same, ~Idle, LeavesAside, NEW t \in Node, t = This, NEW pc, Goto(pc),
           pc = "read" /\ Here(t) => nodes'[t].startPos = Rel(t)
    PROVE  ReadInv'
<1> PICK l \in Nat : l = Len(frames)
    BY StackFacts
<1>1. /\ Len(frames') = l /\ \A k \in 1 .. l - 1 : frames'[k] = frames[k]
      /\ frames'[l].node = t /\ frames'[l].pc = pc
  <2>1. /\ Len(frames') = l /\ \A k \in 1 .. l - 1 : frames'[k] = frames[k]
        /\ frames'[l] = Frame(This, pc, This)
      BY GotoFrames
  <2> QED
      BY <2>1 DEF Frame
<1>2. \A k \in 1 .. l - 1 : ReadFrame(k)'
    BY <1>1, LowerRead
<1>3. \A n : (Here(n)' <=> Here(n)) /\ Rel(n)' = Rel(n)
    BY SameHere
<1>4. ReadFrame(l)'
    BY <1>1, <1>3 DEF ReadFrame
<1>5. \A k \in 1 .. l : k = l \/ k \in 1 .. l - 1
    BY StackFacts
<1> QED
    BY <1>1, <1>2, <1>4, <1>5 DEF ReadInv

\* The running activation gives up.
LEMMA ErrorStep ==
    ASSUME Good, Same, ~Idle, NEW t \in Field, t = This, NEW v, nodes' = [nodes EXCEPT ![t] = v],
           frames' = SubSeq(frames, 1, Len(frames) - 1), v.state = "error",
           Here(t) => /\ ~OwnStream(t) \/ IsStruct(t) => v.stream = nodes[t].stream
                      /\ IsStruct(t) => v.startPos = nodes[t].startPos
                      /\ IsSeq(t) \/ t \notin reread => t \notin Ok \/ (~IsSeq(t) /\ ~AllFit)
    PROVE  StackInv' /\ StateInv' /\ NodeInv' /\ ReadInv'
<1>0. /\ t \in Node /\ DOMAIN nodes = Node /\ State(t) \in Live /\ t # Root
      /\ \A n : OnStack(n)' <=> OnStack(n) /\ n # t
    BY NotRoot, StackFacts, PopStackOn DEF Good, OriginInv, AllRooted
<1>1. \A n \in Node : nodes'[n] = IF n = t THEN v ELSE nodes[n]
    BY <1>0
<1>2. LeavesAside
    BY <1>0, <1>1 DEF LeavesAside, Aside
<1>3. StackInv' /\ ReadInv'
    BY <1>0, <1>1, <1>2, PopStack, PopRead
<1>4. StateInv'
    BY <1>0, EditState
<1>5. ASSUME Here(t)
      PROVE  NodeOK(t, v, OnStack(t)', Built(t)')
  <2>1. NodeOK(t, nodes[t], OnStack(t), Built(t))
      BY <1>0, <1>5 DEF Good, NodeInv, Live
  <2>2. Built(t)' => Built(t)
    <3> SUFFICES ASSUME NEW x \in Parts[t], nodes'[x].state \in Live
                 PROVE  Built(t)
        BY <1>0, <1>1 DEF Built, State, Live
    <3>0. x \in Field /\ Parent[x] = t
        BY <1>0, ParentUnique
    <3>1. x \in Node /\ x # t /\ x \in Below[t]
      <4>1. t \in Below[t]
          BY <1>0, BelowSelf
      <4>2. x \in Below[t]
          BY <1>0, <4>1, BelowParts
      <4> QED
          BY <3>0, <4>2, NotRoot
    <3>2. State(x) \in Live
        BY <1>1, <3>1 DEF State
    <3> QED
        BY <3>1, <3>2, AroundBuilt DEF Good
  <2>3. ~OwnStream(t) => v.stream = Window(Parent[t])
      BY <1>5, <2>1 DEF NodeOK
  <2> HIDE DEF OnStack, Built
  <2> QED
      BY <1>5, <2>1, <2>2, <2>3 DEF NodeOK
<1>6. NodeInv'
    BY <1>0, <1>5, EditNode DEF Live
<1> QED
    BY <1>3, <1>4, <1>6

-----------------------------------------------------------------------------
(* The steps of resolve.                                                   *)

LEMMA RunningFacts ==
    ASSUME Good, NEW pc, Running(pc)
    PROVE  ~Idle /\ ~Failing /\ Top.pc = pc /\ (pc # "root" => This # Root /\ This \in Field)
<1>1. ~Idle /\ ~Failing /\ Top.pc = pc
    BY DEF Running, At, Failing, State
<1>2. FrameOK(Top) /\ This \in Node /\ This = Top.node
    BY <1>1, StackFacts
<1> QED
    BY <1>1, <1>2 DEF FrameOK, Node

LEMMA RootStep ==
    ASSUME Good, Same, ResolveRoot
    PROVE  StackInv' /\ StateInv' /\ NodeInv' /\ ReadInv'
<1> DEFINE v == [nodes[Root] EXCEPT !.state = "resolved", !.startPos = 0, !.from = 0, !.to = 0]
<1>1. ~Idle /\ ~Failing /\ Top.pc = "root"
    BY RunningFacts DEF ResolveRoot
<1>2. This = Root /\ Root \in Node
  <2>1. FrameInv(Len(frames)) /\ Top = frames[Len(frames)] /\ This = Top.node
      BY <1>1, StackFacts
  <2> QED
      BY <1>1, <2>1 DEF FrameInv, Node
<1>3. v.state = "resolved" /\ v.startPos = 0
    BY <1>2 DEF Good, OriginInv, AllRooted, Rooted, NodeFields
<1>4. nodes' = [nodes EXCEPT ![This] = v] /\ frames' = SubSeq(frames, 1, Len(frames) - 1)
    BY <1>2 DEF ResolveRoot, Return
<1> HIDE DEF v
<1>5. DOMAIN nodes = Node /\ \A n : OnStack(n)' <=> OnStack(n) /\ n # This
    BY <1>1, <1>4, PopStackOn DEF Good, OriginInv, AllRooted
<1>6. \A n \in Node : nodes'[n] = IF n = This THEN v ELSE nodes[n]
    BY <1>4, <1>5
<1>7. LeavesAside
    BY <1>6 DEF LeavesAside, Aside
<1>8. \A x \in Node : nodes'[x].state = "error" => State(x) = "error"
    BY <1>3, <1>6 DEF State
<1>9. StackInv' /\ ReadInv'
    BY <1>1, <1>4, <1>7, <1>8, PopStack, PopRead
<1>10. StateInv'
    BY <1>1, <1>2, <1>3, <1>4, <1>5, EditState
<1>11. NodeInv'
    BY <1>1, <1>2, <1>3, <1>4, <1>5, NotRoot, EditNode DEF Live
<1> QED
    BY <1>9, <1>10, <1>11

\* The position of a field is found.
LEMMA MoveStep ==
    ASSUME Good, Same, NEW pc \in {"position", "siblings"}, Running(pc), NEW t \in Field, t = This,
           NEW s, nodes' = [nodes EXCEPT ![t].startPos = s], Goto("read"), Here(t) => s = Rel(t)
    PROVE  StackInv' /\ StateInv' /\ NodeInv' /\ ReadInv'
<1> DEFINE v == [nodes[t] EXCEPT !.startPos = s]
<1>1. ~Idle /\ ~Failing /\ Top.pc = pc /\ This # Root /\ t \in Node
    BY RunningFacts, NotRoot
<1>2. State(t) = "resolving"
  <2>1. FrameInv(Len(frames)) /\ Top = frames[Len(frames)] /\ This = Top.node
      BY <1>1, StackFacts
  <2> QED
      BY <1>1, <2>1 DEF FrameInv
<1>3. DOMAIN nodes = Node /\ v.state = "resolving" /\ v.startPos = s /\ v.stream = nodes[t].stream
    BY <1>1, <1>2 DEF Good, OriginInv, AllRooted, Rooted, NodeFields, State
<1>4. nodes' = [nodes EXCEPT ![t] = v] /\ nodes' = [nodes EXCEPT ![This] = v]
    OBVIOUS
<1> HIDE DEF v
<1>5. \A n : OnStack(n)' <=> OnStack(n)
    BY <1>1, GotoOn
<1>6. \A n \in Node : nodes'[n] = IF n = t THEN v ELSE nodes[n]
    BY <1>3, <1>4
<1>7. LeavesAside
    BY <1>6 DEF LeavesAside, Aside
<1>8. \A x \in Node : nodes'[x].state = "error" => State(x) = "error"
    BY <1>3, <1>6 DEF State
<1>9. nodes'[This].state = "resolving" /\ nodes'[t].startPos = s
    BY <1>1, <1>3, <1>6
<1>10. StackInv'
    BY <1>1, <1>7, <1>8, <1>9, GotoStack
<1>11. ReadInv'
    BY <1>1, <1>7, <1>9, GotoRead
<1>12. StateInv'
    BY <1>1, <1>2, <1>3, <1>4, <1>5, EditState
<1>13. ASSUME Here(t)
       PROVE  NodeOK(t, v, OnStack(t)', Built(t)')
  <2>1. NodeOK(t, nodes[t], OnStack(t), Built(t))
      BY <1>2, <1>13 DEF Good, NodeInv
  <2>2. ~OwnStream(t) \/ t \notin reread => v.stream = Window(Parent[t])
      BY <1>2, <1>3, <2>1 DEF NodeOK, State
  <2>3. ~Built(t)'
      BY <1>1, <1>9 DEF Built, State
  <2> HIDE DEF OnStack, Built
  <2> QED
      BY <1>3, <2>2, <2>3 DEF NodeOK
<1>14. v.state \in Live
    BY <1>3 DEF Live
<1>15. NodeInv'
    BY <1>1, <1>4, <1>5, <1>13, <1>14, EditNode
<1> QED
    BY <1>10, <1>11, <1>12, <1>15

\* A field of a struct is not moved.
LEMMA SeqUnmoved ==
    ASSUME NEW n \in Field, IsSeq(n)
    PROVE  Unmoved(n)
BY DEF Unmoved, IsStruct, OwnStream

\* The field before one that is read from its place has been read from its own.
LEMMA PredRead ==
    ASSUME Good, ~Idle, NEW t \in Field, t = This, Here(t), NEW p \in Before(t), State(p) # "absent",
           State(p) \in {"resolved", "error"}
    PROVE  State(p) = "resolved" /\ ~OnStack(p) /\ nodes[p].from = Rel(p)
           /\ nodes[p].to = Rel(p) + (IF schema.size[p].how = "eos" THEN 0 ELSE Extent(p))
<1>1. p \in Field /\ p \in Ok /\ Here(p) /\ IsSeq(p) /\ p # t
    BY HereBefore, BeforeFacts DEF Good, StateInv
<1>2. NodeOK(p, nodes[p], OnStack(p), Built(p))
    BY <1>1 DEF Good, NodeInv
<1>3. State(p) = "resolved"
    BY <1>1, <1>2 DEF NodeOK, State
<1>4. ~OnStack(p)
  <2> SUFFICES ASSUME NEW k \in 1 .. Len(frames), frames[k].node = p
               PROVE  FALSE
      BY DEF OnStack
  <2>1. k \in 1 .. Len(frames) - 1 /\ FrameInv(k) /\ Top.node = t
      BY <1>1, StackFacts
  <2>2. frames[k].pc = "walk"
      BY <1>3, <2>1 DEF FrameInv
  <2>3. Above(frames[k], Top)
      BY <2>1, StackFacts
  <2>4. t \notin After(p)
      BY <2>1, <2>2, <2>3 DEF Above
  <2> QED
      BY <2>4, AfterNext
<1>5. Unmoved(p)
    BY <1>1, SeqUnmoved
<1> QED
    BY <1>2, <1>3, <1>4, <1>5 DEF NodeOK, State

LEMMA PositionIsRel ==
    ASSUME Good, ~Idle, NEW t \in Field, t = This, IsSeq(t), Here(t),
           State(Pred(t)) \in {"resolved", "error"}
    PROVE  (IF Pred(t) = Parent[t] THEN nodes[Pred(t)].startPos ELSE nodes[Pred(t)].to) = Rel(t)
<1>0. /\ State(t) \in Live /\ t \in Node /\ Parent[t] \in Node /\ Parent[t] # t
      /\ schema \in Schemas /\ StateInv
    BY StackFacts, NotRoot DEF Good
<1>1. CASE SeqIndex(t) = 1 /\ Pred(t) = Parent[t]
  <2>1. Begin(t) = Begin(Parent[t])
      BY <1>0, <1>1, BeginIs
  <2>2. CASE Parent[t] = Root
    <3>1. nodes[Root].startPos = 0
        BY <1>0, <1>1, <2>2 DEF StateInv
    <3>2. Rel(t) = 0
        BY <1>0, <2>1, <2>2, RootPlace DEF Rel
    <3> QED
        BY <1>1, <2>2, <3>1, <3>2
  <2>3. CASE Parent[t] # Root
    <3>1. Parent[t] \in Field /\ Here(Parent[t]) /\ Parent[t] \notin reread
        BY <1>0, <2>3, HereUp DEF StateInv, Node
    <3>2. IsStruct(Parent[t])
      <4>1. t \in Below[Parent[t]]
          BY <1>0, ParentIsNode, BelowSelf, BelowParts
      <4>2. Described(t)
          BY <1>0 DEF StateInv, Live
      <4> QED
          BY <1>0, <4>1, <4>2 DEF Described
    <3>3. Built(Parent[t])
        BY <1>0, <2>3, ParentBuilt
    <3>4. State(Parent[t]) # "absent"
        BY <3>3 DEF Built
    <3>5. NodeOK(Parent[t], nodes[Parent[t]], OnStack(Parent[t]), Built(Parent[t]))
        BY <3>1, <3>4 DEF Good, NodeInv
    <3>6. nodes[Parent[t]].startPos = Begin(Parent[t]) - IoBegin(Parent[t])
        BY <3>1, <3>2, <3>3, <3>5 DEF NodeOK
    <3> QED
        BY <1>1, <2>1, <3>6 DEF Rel
  <2> QED
      BY <2>2, <2>3
<1>2. CASE SeqIndex(t) # 1 /\ Pred(t) \in Before(t) /\ SeqIndex(Pred(t)) = SeqIndex(t) - 1
  <2> DEFINE p == Pred(t)
  <2>1. p \in Field /\ Parent[p] = Parent[t] /\ IsSeq(p) /\ p \in Node /\ p # Parent[t]
    <3>1. p \in Field /\ Parent[p] = Parent[t] /\ IsSeq(p)
        BY <1>2, BeforeFacts
    <3> QED
        BY <3>1, NotRoot
  <2>2. nodes[p].to = Rel(p) + (IF schema.size[p].how = "eos" THEN 0 ELSE Extent(p))
      BY <1>2, PredRead
  <2>3. schema.size[p].how # "eos"
    <3> SUFFICES ASSUME schema.size[p].how = "eos"
                 PROVE  FALSE
        OBVIOUS
    <3>1. SeqIndex(p) = Len(Kids[Parent[t]])
        BY <1>0, <2>1, EosIsLast
    <3>2. SeqIndex(t) <= Len(Kids[Parent[t]]) /\ SeqIndex(t) \in Nat
        BY SeqFacts
    <3> QED
        BY <1>2, <3>1, <3>2
  <2>4. Begin(t) = Begin(p) + Extent(p)
      BY <1>0, <1>2, BeginIs
  <2>5. Begin(p) \in Int /\ Extent(p) \in Int /\ IoBegin(Parent[t]) \in Int
      BY <1>0, <2>1, PlaceTypes
  <2> HIDE DEF p
  <2>6. Rel(p) + Extent(p) = Rel(t)
      BY <2>1, <2>4, <2>5 DEF Rel
  <2> QED
      BY <2>1, <2>2, <2>3, <2>6 DEF p
<1> QED
    BY <1>1, <1>2, PredFacts

LEMMA UnreadFacts ==
    ASSUME NEW n \in Node, NEW m \in NextUnread(n)
    PROVE  m \in Range(Kids[n]) /\ State(m) = "unresolved" /\ m \in Node
<1>1. PICK k \in DOMAIN Kids[n] : m = Kids[n][k] /\ nodes[Kids[n][k]].state = "unresolved"
    BY DEF NextUnread, Unread
<1> QED
    BY <1>1, KidFacts DEF Range, State

LEMMA PositionStep ==
    ASSUME Good, Same, FindPosition
    PROVE  StackInv' /\ StateInv' /\ NodeInv' /\ ReadInv'
<1>0. Running("position") /\ StateInv
    BY DEF FindPosition, Good
<1>1. ~Idle /\ ~Failing /\ Top.pc = "position" /\ This # Root /\ This \in Field
    BY <1>0, RunningFacts
<1> PICK t \in Field : t = This
    BY <1>1
<1>2. IsSeq(t) /\ t \in Node /\ Parent[t] \in Node /\ State(t) \in Live /\ Pred(t) \in Node
    BY <1>1, StackFacts, NotRoot, PredIsNode DEF FrameOK
<1>3. CASE nodes[Pred(This)].state = "unresolved" /\ Call(Pred(This), "position")
  <2>1. Pred(t) = Root \/ Pred(t) \in Before(t)
    <3>1. Pred(t) = Parent[t] => Parent[t] = Root
        BY <1>0, <1>2, <1>3 DEF StateInv, State
    <3> QED
        BY <1>2, <3>1, PredFacts
  <2>2. Calls(This, Top.pc, Pred(t))
      BY <1>1, <2>1 DEF Calls
  <2> QED
      BY <1>1, <1>2, <1>3, <2>2, PushStep DEF State
<1>4. ASSUME nodes[Pred(This)].state \in {"resolved", "error"}, Goto("read"),
             nodes' = [nodes EXCEPT ![This].startPos =
                         IF Pred(This) = Parent[This] THEN nodes[Pred(This)].startPos
                         ELSE nodes[Pred(This)].to]
      PROVE  StackInv' /\ StateInv' /\ NodeInv' /\ ReadInv'
  <2> DEFINE s == IF Pred(t) = Parent[t] THEN nodes[Pred(t)].startPos ELSE nodes[Pred(t)].to
  <2>1. Here(t) => s = Rel(t)
      BY <1>1, <1>2, <1>4, PositionIsRel DEF State
  <2>2. nodes' = [nodes EXCEPT ![t].startPos = s]
      BY <1>4
  <2> HIDE DEF s
  <2> QED
      BY <1>0, <1>4, <2>1, <2>2, MoveStep
<1> QED
    BY <1>3, <1>4 DEF FindPosition

LEMMA SiblingsStep ==
    ASSUME Good, Same, EnsureSiblings
    PROVE  StackInv' /\ StateInv' /\ NodeInv' /\ ReadInv'
<1>0. Running("siblings") /\ schema \in Schemas
    BY DEF EnsureSiblings, Good
<1>1. ~Idle /\ ~Failing /\ Top.pc = "siblings" /\ This # Root /\ This \in Field
    BY <1>0, RunningFacts
<1> PICK t \in Field : t = This
    BY <1>1
<1>2. t \in Node /\ Parent[t] \in Node
    BY NotRoot
<1>3. ASSUME NEW m \in NextUnread(Parent[This]), Call(m, "siblings")
      PROVE  StackInv' /\ StateInv' /\ NodeInv' /\ ReadInv'
  <2>1. m \in Range(Kids[Parent[This]]) /\ State(m) = "unresolved" /\ m \in Node
      BY <1>2, <1>3, UnreadFacts
  <2>2. Calls(This, Top.pc, m)
      BY <1>1, <2>1 DEF Calls
  <2> QED
      BY <1>1, <1>3, <2>1, <2>2, PushStep
<1>4. ASSUME nodes' = [nodes EXCEPT ![This].startPos = schema.pos[This]], Goto("read")
      PROVE  StackInv' /\ StateInv' /\ NodeInv' /\ ReadInv'
  <2>1. ~IsSeq(t)
    <3>1. FrameInv(Len(frames)) /\ Top = frames[Len(frames)] /\ This = Top.node
        BY <1>1, StackFacts
    <3> QED
        BY <1>1, <3>1 DEF FrameInv
  <2>2. schema.pos[t] = Rel(t)
    <3>1. Begin(t) = IoBegin(Parent[t]) + schema.pos[t]
        BY <1>0, <2>1, BeginIs
    <3>2. IoBegin(Parent[t]) \in Int
        BY <1>0, <1>2, PlaceTypes
    <3>3. schema.pos[t] \in Nat
        BY <1>0, SchemaFacts
    <3> QED
        BY <3>1, <3>2, <3>3 DEF Rel
  <2> QED
      BY <1>0, <1>4, <2>2, MoveStep
<1> QED
    BY <1>3, <1>4 DEF EnsureSiblings

\* The byte that holds the size of a field has failed.
LEMMA SourceFailed ==
    ASSUME Good, NEW t \in Field, Here(t), schema.size[t].how = "field",
           State(schema.size[t].of) = "error"
    PROVE  t \notin Ok
<1> PICK of : of = schema.size[t].of
    OBVIOUS
<1>1. of \in Field /\ IsSeq(of) /\ Here(of)
    BY SourceFacts, HereSource DEF Good, StateInv
<1>2. NodeOK(of, nodes[of], OnStack(of), Built(of))
    BY <1>1 DEF Good, NodeInv
<1>3. of \notin Ok
    BY <1>1, <1>2 DEF NodeOK, State
<1> QED
    BY <1>3, OkIs DEF Goes, Sources

LEMMA FailStep ==
    ASSUME Good, Same, ~Idle, NEW t \in Field, t = This, Fail,
           Here(t) /\ (IsSeq(t) \/ t \notin reread) => t \notin Ok \/ (~IsSeq(t) /\ ~AllFit)
    PROVE  StackInv' /\ StateInv' /\ NodeInv' /\ ReadInv'
<1> DEFINE v == [nodes[t] EXCEPT !.state = "error"]
<1>1. v.state = "error" /\ v.stream = nodes[t].stream /\ v.startPos = nodes[t].startPos
    BY NotRoot DEF Good, OriginInv, AllRooted, Rooted, NodeFields
<1>2. nodes' = [nodes EXCEPT ![t] = v] /\ frames' = SubSeq(frames, 1, Len(frames) - 1)
    BY DEF Fail, Return
<1> HIDE DEF v
<1> QED
    BY <1>1, <1>2, ErrorStep

LEMMA SizeStep ==
    ASSUME Good, Same, EvaluateSize
    PROVE  StackInv' /\ StateInv' /\ NodeInv' /\ ReadInv'
<1>0. Running("read") /\ schema \in Schemas /\ schema.size[This].how = "field"
    BY DEF EvaluateSize, Good
<1>1. ~Idle /\ ~Failing /\ Top.pc = "read" /\ This # Root /\ This \in Field
    BY <1>0, RunningFacts
<1> PICK t \in Field : t = This
    BY <1>1
<1> PICK of : of = schema.size[t].of
    OBVIOUS
<1>2. of \in Node
    BY <1>0, SourceFacts
<1>3. CASE nodes[of].state = "unresolved" /\ Call(of, "read")
  <2>1. Calls(This, Top.pc, of)
      BY <1>0, <1>1 DEF Calls
  <2> QED
      BY <1>1, <1>2, <1>3, <2>1, PushStep DEF State
<1>4. CASE nodes[of].state = "error" /\ Fail
    BY <1>0, <1>1, <1>4, SourceFailed, FailStep DEF State
<1> QED
    BY <1>3, <1>4 DEF EvaluateSize

LEMMA AwaitedStep ==
    ASSUME Good, Same, AwaitedFails
    PROVE  StackInv' /\ StateInv' /\ NodeInv' /\ ReadInv'
<1> PICK m : m = Top.awaited
    OBVIOUS
<1>1. ~Idle /\ m # This /\ State(m) = "error" /\ Fail
    BY DEF AwaitedFails, Awaited, State
<1>2. /\ FrameInv(Len(frames)) /\ Top = frames[Len(frames)] /\ This = Top.node /\ This \in Node
      /\ FrameOK(Top)
    BY <1>1, StackFacts
<1>3. Calls(This, Top.pc, m)
    BY <1>1, <1>2 DEF FrameInv
<1>4. This # Root /\ This \in Field
    BY <1>2, <1>3 DEF Calls, FrameOK, Node
<1> PICK t \in Field : t = This
    BY <1>4
<1>5. /\ schema \in Schemas /\ StateInv /\ NodeInv /\ ~replaced /\ reread \subseteq Node
      /\ \A n \in reread : OwnStream(n)
    BY DEF Good, StateInv
<1>6. ASSUME Here(t), IsSeq(t) \/ t \notin reread
      PROVE  t \notin Ok \/ (~IsSeq(t) /\ ~AllFit)
  <2>1. CASE m = Root \/ m \in Before(t)
    <3>1. m # Root
        BY <1>1, <1>5 DEF StateInv
    <3> QED
        BY <1>1, <1>6, <2>1, <3>1, PredRead
  <2>2. CASE Top.pc = "siblings" /\ m \in Range(Kids[Parent[t]])
    <3>1. /\ m \in Field /\ Parent[m] = Parent[t] /\ IsSeq(m) /\ m \in Node
        BY <2>2, NotRoot, KidField
    <3>2. ~IsSeq(t)
        BY <1>2, <2>2 DEF FrameInv
    <3>3. ~AllFit
      <4> SUFFICES ASSUME AllFit
                   PROVE  FALSE
          OBVIOUS
      <4>1. Described(m)
          BY <1>1, <1>5, <3>1 DEF StateInv
      <4>2. Clean(m) /\ m \in Ok
          BY <1>5, <3>1, <4>1, AllFitClean, AllFitOk
      <4>3. Here(m)
          BY <1>6, <3>1, <4>2 DEF Here
      <4>4. NodeOK(m, nodes[m], OnStack(m), Built(m))
          BY <1>1, <1>5, <3>1, <4>3 DEF NodeInv
      <4> QED
          BY <1>1, <3>1, <4>2, <4>4 DEF NodeOK, State
    <3> QED
        BY <3>2, <3>3
  <2>3. CASE schema.size[t].how = "field" /\ m = schema.size[t].of
      BY <1>1, <1>6, <2>3, SourceFailed
  <2>4. CASE Top.pc = "walk" /\ m \in Range(Kids[t])
    <3> SUFFICES ASSUME t \in Ok
                 PROVE  FALSE
        OBVIOUS
    <3>1. Walked(t)
        BY <1>2, <2>4 DEF FrameInv
    <3>2. Range(Kids[t]) \subseteq Ok
        BY <3>1, OkIs DEF Goes
    <3>3. /\ m \in Field /\ Parent[m] = t /\ IsSeq(m) /\ m \in Node
        BY <2>4, NotRoot, KidField
    <3>4. Before(m) \subseteq Range(Kids[t])
      <4> SUFFICES ASSUME NEW g \in Before(m)
                   PROVE  g \in Range(Kids[t])
          OBVIOUS
      <4>1. g \in Field /\ IsSeq(g) /\ Parent[g] = t
          BY <3>3, BeforeFacts
      <4> QED
          BY <4>1 DEF IsSeq
    <3>5. t \notin reread
        BY <1>5, <3>1 DEF Walked, OwnStream, HasSize
    <3>6. Here(m)
        BY <1>5, <1>6, <3>2, <3>3, <3>4, <3>5, HereKid
    <3>7. NodeOK(m, nodes[m], OnStack(m), Built(m))
        BY <1>1, <1>5, <3>3, <3>6 DEF NodeInv
    <3> QED
        BY <1>1, <2>4, <3>2, <3>3, <3>7 DEF NodeOK, State
  <2> QED
      BY <1>3, <2>1, <2>2, <2>3, <2>4 DEF Calls
<1> QED
    BY <1>1, <1>6, FailStep

\* A field that is about to be read, and where it stands.
LEMMA TopRead ==
    ASSUME Good, Running("read"), NEW t \in Field, t = This
    PROVE  /\ State(t) = "resolving"
           /\ Here(t) => /\ nodes[t].startPos = Rel(t)
                         /\ ~OwnStream(t) \/ t \notin reread => nodes[t].stream = Window(Parent[t])
<1> PICK l \in Nat : l = Len(frames)
    BY RunningFacts, StackFacts
<1>1. ~Idle /\ Top.pc = "read" /\ t \in Node
    BY RunningFacts, NotRoot
<1>2. l \in 1 .. Len(frames) /\ FrameInv(l) /\ Top = frames[l] /\ t = Top.node
    BY <1>1, StackFacts
<1>3. State(t) = "resolving"
    BY <1>1, <1>2 DEF FrameInv
<1>4. ReadFrame(l)
    BY <1>2 DEF Good, ReadInv
<1>5. Here(t) => nodes[t].startPos = Rel(t)
    BY <1>1, <1>2, <1>4 DEF ReadFrame
<1>6. Here(t) => NodeOK(t, nodes[t], OnStack(t), Built(t))
    BY <1>3 DEF Good, NodeInv
<1> QED
    BY <1>3, <1>5, <1>6 DEF NodeOK, State

\* The byte that holds the size of a field has been read.
LEMMA SourceRead ==
    ASSUME Good, NEW t \in Field, Here(t), schema.size[t].how = "field",
           State(schema.size[t].of) = "resolved"
    PROVE  /\ schema.size[t].of \in Ok /\ Sources(t) \subseteq Ok
           /\ nodes[schema.size[t].of].value = Content(schema.size[t].of)
<1> PICK of : of = schema.size[t].of
    OBVIOUS
<1>1. /\ of \in Field /\ IsSeq(of) /\ Here(of) /\ schema.kind[of] = "u1" /\ of # Root
      /\ Before(of) \subseteq Ok
    BY SourceFacts, HereSource, NotRoot DEF Good, StateInv
<1>2. of \notin reread /\ Leaf(of)
    BY <1>1 DEF Good, StateInv, OwnStream, Leaf, IsStruct
<1>3. NodeOK(of, nodes[of], OnStack(of), Built(of))
    BY <1>1 DEF Good, NodeInv
<1>4. ~OnStack(of)
  <2> SUFFICES ASSUME NEW k \in 1 .. Len(frames), frames[k].node = of
               PROVE  FALSE
      BY DEF OnStack
  <2>1. FrameInv(k)
      BY DEF Good, StackInv
  <2>2. Walked(of)
      BY <2>1 DEF FrameInv
  <2> QED
      BY <1>1, <2>2 DEF Walked
<1>5. of \in Ok /\ nodes[of].value = Content(of)
    BY <1>1, <1>2, <1>3, <1>4 DEF NodeOK, State
<1> QED
    BY <1>1, <1>5 DEF Sources

LEMMA SizeRead ==
    ASSUME Good, NEW t \in Field, t = This, Here(t), SizeKnown
    PROVE  /\ Sources(t) \subseteq Ok
           /\ schema.size[t].how \in {"lit", "field"} => SizeOf(t) = Extent(t)
<1>1. schema.size[t].how = "field" => State(schema.size[t].of) = "resolved"
    BY DEF SizeKnown, State
<1>2. schema.size[t].how # "field" => Sources(t) = {}
    BY DEF Sources
<1> QED
    BY <1>1, <1>2, SourceRead, SizeIs DEF Good

LEMMA LeafOK ==
    ASSUME Good, Same, Running("read"), SizeKnown, NEW t \in Field, t = This, schema.kind[t] # "user",
           Here(t), NEW moved, NEW len,
           len = IF schema.kind[t] = "u1" THEN 1 ELSE SizeOf(t),
           OwnStream(t) => /\ moved.stream = SubStream(nodes[t].stream, nodes[t].startPos, len)
                           /\ moved.startPos = 0,
           ~OwnStream(t) => moved.stream = nodes[t].stream /\ moved.startPos = nodes[t].startPos
    PROVE  /\ len = Extent(t)
           /\ ~OwnStream(t) => moved.stream = Window(Parent[t]) /\ moved.startPos = Rel(t)
           /\ IsSeq(t) \/ t \notin reread =>
                (CanRead(moved.stream, moved.startPos, len) <=> t \in Ok)
           /\ t \notin reread /\ t \in Ok =>
                /\ Bytes(moved.stream, moved.startPos, len) = Content(t)
                /\ moved.startPos + moved.stream.base = Begin(t)
                /\ moved.startPos + len + moved.stream.base = Begin(t) + Extent(t)
<1>0. schema \in Schemas /\ t # Root /\ t \in Node /\ Readable(schema)
    BY NotRoot, SchemaFacts DEF Good
<1>1. /\ schema.kind[t] = "u1" => schema.size[t].how = "none"
      /\ schema.kind[t] = "bytes" => schema.size[t].how \in {"lit", "field"}
      /\ schema.kind[t] \in {"u1", "bytes"}
    BY <1>0, SchemaFacts DEF Readable
<1>2. len = Extent(t)
  <2>1. CASE schema.kind[t] = "u1"
      BY <1>0, <1>1, <2>1, ExtentIs
  <2>2. CASE schema.kind[t] = "bytes"
      BY <1>1, <2>2, SizeRead
  <2> QED
      BY <1>1, <2>1, <2>2
<1>3. /\ nodes[t].startPos = Rel(t)
      /\ ~OwnStream(t) \/ t \notin reread => nodes[t].stream = Window(Parent[t])
    BY TopRead
<1>4. Fits(t) <=> t \in Ok
  <2>1. ~Walked(t) /\ Sources(t) \subseteq Ok
      BY SizeRead DEF Walked
  <2> QED
      BY <2>1, OkIs DEF Goes
<1>5. Fits(t) <=> Extent(t) = 0 \/ Begin(t) + Extent(t) <= Limit(Parent[t])
    BY <1>0 DEF Fits, IsStruct
<1>6. CASE ~OwnStream(t)
    BY <1>0, <1>2, <1>3, <1>4, <1>5, <1>6, ReadInWindow
<1>7. CASE OwnStream(t)
  <2>1. ~IsSeq(t) /\ HasSize(t)
      BY <1>1, <1>7 DEF OwnStream, HasSize
  <2>2. t \notin reread => moved.stream = Window(t) /\ moved.startPos = 0
      BY <1>0, <1>2, <1>3, <1>7, <2>1, SizedWindow
  <2>3. Extent(t) \in Int /\ 0 + Extent(t) = Extent(t)
      BY <1>0, PlaceTypes
  <2> QED
      BY <1>0, <1>2, <1>4, <1>5, <1>7, <2>1, <2>2, <2>3, ReadInOwn
<1> QED
    BY <1>6, <1>7

LEMMA LeafStep ==
    ASSUME Good, Same, ReadLeaf
    PROVE  StackInv' /\ StateInv' /\ NodeInv' /\ ReadInv'
<1>0. Running("read") /\ SizeKnown /\ schema.kind[This] # "user"
    BY DEF ReadLeaf
<1>1. ~Idle /\ ~Failing /\ Top.pc = "read" /\ This # Root /\ This \in Field
    BY <1>0, RunningFacts
<1> PICK t \in Field : t = This
    BY <1>1
<1> DEFINE n == nodes[t]
           len == IF schema.kind[t] = "u1" THEN 1 ELSE SizeOf(t)
           own == schema.kind[t] = "bytes" /\ ~IsSeq(t)
           moved == IF own THEN [n EXCEPT !.stream = SubStream(@, n.startPos, len),
                                          !.streamOffset = @ + n.startPos, !.startPos = 0]
                    ELSE n
           v == IF CanRead(moved.stream, moved.startPos, len)
                THEN [moved EXCEPT !.state = "resolved", !.from = moved.startPos,
                                   !.to = moved.startPos + len,
                                   !.value = Bytes(moved.stream, moved.startPos, len)]
                ELSE [moved EXCEPT !.state = "error"]
<1>2. nodes' = [nodes EXCEPT ![t] = v] /\ nodes' = [nodes EXCEPT ![This] = v]
      /\ frames' = SubSeq(frames, 1, Len(frames) - 1)
    BY DEF ReadLeaf, Return
<1>3. t \in Node /\ t # Root /\ DOMAIN n = NodeFields /\ DOMAIN nodes = Node /\ ~IsStruct(t)
      /\ State(t) = "resolving"
    BY <1>0, NotRoot, TopRead DEF Good, OriginInv, AllRooted, Rooted, IsStruct
<1>4. own <=> OwnStream(t)
    BY <1>0, <1>3 DEF OwnStream
<1>5. /\ DOMAIN moved = NodeFields
      /\ OwnStream(t) => /\ moved.stream = SubStream(nodes[t].stream, nodes[t].startPos, len)
                         /\ moved.startPos = 0
      /\ ~OwnStream(t) => moved.stream = nodes[t].stream /\ moved.startPos = nodes[t].startPos
    BY <1>3, <1>4 DEF NodeFields
<1> HIDE DEF moved, own
<1> PICK m : m = moved
    OBVIOUS
<1> PICK k : k = len
    OBVIOUS
<1> DEFINE reads == CanRead(m.stream, m.startPos, k)
<1>6. /\ reads => /\ v.state = "resolved" /\ v.from = m.startPos /\ v.to = m.startPos + k
                  /\ v.value = Bytes(m.stream, m.startPos, k) /\ v.stream = m.stream
      /\ ~reads => v.state = "error" /\ v.stream = m.stream
    BY <1>5 DEF NodeFields
<1>7. Here(t) => /\ k = Extent(t)
                 /\ ~OwnStream(t) => m.stream = Window(Parent[t]) /\ m.startPos = Rel(t)
                 /\ IsSeq(t) \/ t \notin reread => (reads <=> t \in Ok)
                 /\ t \notin reread /\ t \in Ok =>
                      /\ Bytes(m.stream, m.startPos, k) = Content(t)
                      /\ m.startPos + m.stream.base = Begin(t)
                      /\ m.startPos + k + m.stream.base = Begin(t) + Extent(t)
    BY <1>0, <1>5, LeafOK
<1>8. \A x : OnStack(x)' <=> OnStack(x) /\ x # t
    BY <1>1, <1>2, PopStackOn
<1>9. ~OwnStream(t) => m.stream = nodes[t].stream
    BY <1>5
<1> HIDE DEF reads, v, len
<1>10. CASE ~reads
  <2>1. v.state = "error" /\ v.stream = m.stream
      BY <1>6, <1>10
  <2>2. Here(t) => /\ ~OwnStream(t) \/ IsStruct(t) => v.stream = nodes[t].stream
                   /\ IsStruct(t) => v.startPos = nodes[t].startPos
                   /\ IsSeq(t) \/ t \notin reread => t \notin Ok \/ (~IsSeq(t) /\ ~AllFit)
      BY <1>3, <1>7, <1>9, <1>10, <2>1
  <2> QED
      BY <1>1, <1>2, <2>1, <2>2, ErrorStep
<1>11. CASE reads
  <2>1. \A x \in Node : nodes'[x] = IF x = t THEN v ELSE nodes[x]
      BY <1>2, <1>3
  <2>2. LeavesAside
      BY <2>1 DEF LeavesAside, Aside
  <2>3. \A x \in Node : nodes'[x].state = "error" => State(x) = "error"
      BY <1>6, <1>11, <2>1 DEF State
  <2>4. StackInv' /\ ReadInv'
      BY <1>1, <1>2, <2>2, <2>3, PopStack, PopRead
  <2>5. StateInv'
      BY <1>1, <1>2, <1>3, <1>6, <1>8, <1>11, EditState
  <2>6. ASSUME Here(t)
        PROVE  NodeOK(t, v, OnStack(t)', Built(t)')
    <3>1. schema.size[t].how # "eos"
        BY <1>0, <1>3, SchemaFacts DEF Good, Readable
    <3>2. OwnStream(t) => ~Unmoved(t)
        BY <1>3 DEF Unmoved
    <3>3. v.to = v.from + Extent(t) /\ (~OwnStream(t) => v.stream = Window(Parent[t]) /\ v.from = Rel(t))
        BY <1>6, <1>7, <1>11, <2>6
    <3>4. IsSeq(t) \/ t \notin reread => t \in Ok
        BY <1>7, <1>11, <2>6
    <3>5. t \notin reread => /\ v.value = Content(t)
                             /\ v.from + v.stream.base = Begin(t)
                             /\ v.to + v.stream.base = Begin(t) + Extent(t)
        BY <1>6, <1>7, <1>11, <2>6, <3>4
    <3> HIDE DEF OnStack, Built
    <3> QED
        BY <1>3, <1>6, <1>11, <3>1, <3>2, <3>3, <3>4, <3>5 DEF NodeOK
  <2>7. NodeInv'
      BY <1>1, <1>2, <1>3, <1>6, <1>8, <1>11, <2>6, EditNode DEF Live
  <2> QED
      BY <2>4, <2>5, <2>7
<1> QED
    BY <1>10, <1>11

LEMMA BuildSafe ==
    ASSUME Good, NEW t \in Field, t = This, NEW v, v.state = "resolved", nodes' = Build(v)
    PROVE  /\ \A x \in Node : nodes'[x].state = "error" => State(x) = "error"
           /\ LeavesAside /\ nodes'[t].state = "resolved"
           /\ \A m \in Parts[t] : nodes'[m].state = "unresolved"
<1>1. /\ LeavesAside /\ t \in Node
      /\ \A x \in Node : nodes'[x] = IF x = t THEN v
                                     ELSE IF x \in Parts[t] THEN Fresh(v.stream, v.streamOffset)
                                     ELSE IF x \in Below[t] THEN Absent
                                     ELSE nodes[x]
      /\ \A x \in Parts[t] : x # t /\ x \in Node
    BY BuildFacts, NotRoot
<1>2. Fresh(v.stream, v.streamOffset).state = "unresolved" /\ Absent.state = "absent"
    BY DEF Fresh, Absent
<1> QED
    BY <1>1, <1>2 DEF State

LEMMA BuildPop ==
    ASSUME Good, Same, Running("read"), NEW t \in Field, t = This, schema.kind[t] = "user",
           NEW v, v.state = "resolved", nodes' = Build(v),
           frames' = SubSeq(frames, 1, Len(frames) - 1),
           Here(t) => NodeOK(t, v, FALSE, TRUE)
    PROVE  StackInv' /\ StateInv' /\ NodeInv' /\ ReadInv'
<1>1. ~Idle /\ ~Failing /\ This # Root /\ IsStruct(t) /\ IsStruct(This)
    BY RunningFacts DEF IsStruct
<1>2. \A x : OnStack(x)' <=> OnStack(x) /\ x # t
    BY <1>1, PopStackOn
<1>3. /\ \A x \in Node : nodes'[x].state = "error" => State(x) = "error"
      /\ LeavesAside
    BY BuildSafe
<1>4. StackInv' /\ ReadInv'
    BY <1>1, <1>3, PopStack, PopRead
<1>5. StateInv'
    BY <1>1, <1>2, BuildState
<1>6. Here(t) => NodeOK(t, v, OnStack(t)', TRUE)
  <2>1. ~OnStack(t)'
      BY <1>2
  <2> HIDE DEF OnStack
  <2> QED
      BY <2>1 DEF NodeOK
<1>7. NodeInv'
    BY <1>1, <1>2, <1>6, BuildNode
<1> QED
    BY <1>4, <1>5, <1>7

LEMMA BuildWalk ==
    ASSUME Good, Same, Running("read"), NEW t \in Field, t = This, Walked(t),
           NEW v, v.state = "resolved", nodes' = Build(v), Goto("walk"),
           Here(t) => NodeOK(t, v, TRUE, TRUE)
    PROVE  StackInv' /\ StateInv' /\ NodeInv' /\ ReadInv'
<1>1. ~Idle /\ ~Failing /\ This # Root /\ IsStruct(t) /\ IsStruct(This) /\ t \in Node
    BY RunningFacts, NotRoot DEF IsStruct, Walked
<1>2. (\A x : OnStack(x)' <=> OnStack(x)) /\ OnStack(t)
    BY <1>1, GotoOn, StackFacts
<1>3. /\ \A x \in Node : nodes'[x].state = "error" => State(x) = "error"
      /\ LeavesAside /\ nodes'[t].state = "resolved"
      /\ \A m \in Parts[t] : nodes'[m].state = "unresolved"
    BY BuildSafe
<1>4. \A m \in Range(Kids[t]) : nodes'[m].state # "error"
    BY <1>1, <1>3, KidField
<1>5. StackInv'
    BY <1>1, <1>3, <1>4, GotoStack
<1>6. ReadInv'
    BY <1>1, <1>3, GotoRead
<1>7. StateInv'
    BY <1>1, <1>2, BuildState
<1>8. Here(t) => NodeOK(t, v, OnStack(t)', TRUE)
  <2>1. OnStack(t)'
      BY <1>2
  <2> HIDE DEF OnStack
  <2> QED
      BY <2>1 DEF NodeOK
<1>9. NodeInv'
    BY <1>1, <1>2, <1>8, BuildNode
<1> QED
    BY <1>5, <1>6, <1>7, <1>9

\* A struct with a window of its own.
LEMMA SizedOK ==
    ASSUME Good, Running("read"), SizeKnown, NEW t \in Field, t = This, Here(t),
           schema.kind[t] = "user", HasSize(t), NEW v, v.state = "resolved", NEW len,
           v.stream = SubStream(nodes[t].stream, nodes[t].startPos, len), v.startPos = 0,
           v.from = nodes[t].startPos,
           \/ /\ schema.size[t].how \in {"lit", "field"} /\ len = SizeOf(t)
              /\ v.to = nodes[t].startPos + len
              /\ IsSeq(t) \/ CanRead(nodes[t].stream, nodes[t].startPos, len)
           \/ /\ schema.size[t].how = "eos" /\ len = nodes[t].stream.size - nodes[t].startPos
              /\ v.to = nodes[t].startPos
    PROVE  NodeOK(t, v, FALSE, TRUE)
<1>0. schema \in Schemas /\ t # Root /\ t \in Node /\ OwnStream(t) /\ IsStruct(t)
    BY NotRoot DEF Good, OwnStream, HasSize, IsStruct
<1>1. nodes[t].startPos = Rel(t) /\ (t \notin reread => nodes[t].stream = Window(Parent[t]))
    BY TopRead
<1>2. t \notin reread => len = Extent(t)
    BY <1>0, <1>1, SizeRead, EosLength
<1>3. schema.size[t].how # "eos" => len = Extent(t)
    BY SizeRead
<1>4. /\ IoBegin(t) = Begin(t) /\ Begin(t) - IoBegin(t) = 0
      /\ Begin(t) \in Int /\ Extent(t) \in Int /\ Rel(t) \in Int
  <2>1. Begin(t) \in Int /\ Extent(t) \in Int /\ IoBegin(Parent[t]) \in Int
      BY <1>0, PlaceTypes, NotRoot
  <2>2. IoBegin(t) = Begin(t)
      BY <1>0, WindowIs
  <2> QED
      BY <2>1, <2>2 DEF Rel
<1>5. t \notin reread => v.stream = Window(t) /\ v.startPos = Begin(t) - IoBegin(t)
    BY <1>0, <1>1, <1>2, <1>4, SizedWindow
<1>6. v.to = v.from + (IF schema.size[t].how = "eos" THEN 0 ELSE Extent(t))
    BY <1>1, <1>3, <1>4
<1>7. ASSUME IsSeq(t) \/ t \notin reread
      PROVE  t \in Ok
  <2>1. Sources(t) \subseteq Ok /\ ~Walked(t)
      BY SizeRead DEF Walked
  <2>2. Fits(t)
    <3> SUFFICES ASSUME ~IsSeq(t), schema.size[t].how \in {"lit", "field"}
                 PROVE  Extent(t) = 0 \/ Begin(t) + Extent(t) <= Limit(Parent[t])
        BY <1>0 DEF Fits
    <3>1. CanRead(Window(Parent[t]), Rel(t), Extent(t))
        BY <1>1, <1>3, <1>7
    <3> QED
        BY <1>0, <3>1, ReadInWindow
  <2> QED
      BY <2>1, <2>2, OkIs DEF Goes
<1>8. v.from = Rel(t)
    BY <1>1
<1> QED
    BY <1>0, <1>5, <1>6, <1>7, <1>8 DEF NodeOK, Leaf

\* One without.
LEMMA PlainOK ==
    ASSUME Good, Running("read"), NEW t \in Field, t = This, Here(t),
           schema.kind[t] = "user", ~HasSize(t), NEW v, v.state = "resolved",
           v.stream = nodes[t].stream, v.startPos = nodes[t].startPos, v.from = nodes[t].startPos,
           NEW on \in BOOLEAN, on \/ (StaticSize(t) >= 0 /\ v.to = nodes[t].startPos + StaticSize(t))
    PROVE  NodeOK(t, v, on, TRUE)
<1>0. schema \in Schemas /\ t # Root /\ t \in Node /\ ~OwnStream(t) /\ IsStruct(t) /\ Counted
      /\ schema.size[t].how = "none"
    BY NotRoot DEF Good, OwnStream, HasSize, IsStruct
<1>1. nodes[t].startPos = Rel(t) /\ nodes[t].stream = Window(Parent[t])
    BY <1>0, TopRead
<1>2. Window(t) = Window(Parent[t]) /\ Rel(t) = Begin(t) - IoBegin(t)
    BY <1>0, PlainWindow
<1>3. ~on => v.to = v.from + Extent(t)
    BY <1>0, StaticExtent
<1>4. ~on => t \in Ok
  <2>1. ~Walked(t) \/ on
    <3>1. StaticSize(t) \in Int
      <4>1. schema \in Schema /\ Len(Kids[t]) \in 0 .. Len(Kids[t])
          BY <1>0, SchemaFacts
      <4>2. StaticSum \in [Prefixes -> Int]
          BY <4>1, StaticEquation
      <4>3. <<t, Len(Kids[t])>> \in Prefixes
          BY <1>0, <4>1, PrefixIs
      <4> QED
          BY <4>2, <4>3 DEF StaticSize
    <3> QED
        BY <3>1 DEF Walked
  <2>2. Sources(t) = {} /\ Fits(t)
      BY <1>0 DEF Sources, Fits
  <2> QED
      BY <2>1, <2>2, OkIs DEF Goes
<1> QED
    BY <1>0, <1>1, <1>2, <1>3, <1>4 DEF NodeOK, Leaf, HasSize

LEMMA StructStep ==
    ASSUME Good, Same, ReadStruct
    PROVE  StackInv' /\ StateInv' /\ NodeInv' /\ ReadInv'
<1>0. Running("read") /\ SizeKnown /\ schema.kind[This] = "user"
    BY DEF ReadStruct
<1>1. ~Idle /\ ~Failing /\ Top.pc = "read" /\ This # Root /\ This \in Field
    BY <1>0, RunningFacts
<1> PICK t \in Field : t = This
    BY <1>1
<1> DEFINE n == nodes[t]
           how == schema.size[t].how
           done(entered, to) == [entered EXCEPT !.state = "resolved", !.from = n.startPos, !.to = to]
<1>2. t \in Node /\ DOMAIN n = NodeFields
    BY NotRoot DEF Good, OriginInv, AllRooted, Rooted
<1>3. \A to : LET v == done(n, to) IN
        /\ v.state = "resolved" /\ v.stream = n.stream /\ v.startPos = n.startPos
        /\ v.from = n.startPos /\ v.to = to
    BY <1>2 DEF NodeFields
<1>4. \A len, to : LET v == done(Entered(n, len), to) IN
        /\ v.state = "resolved" /\ v.stream = SubStream(n.stream, n.startPos, len) /\ v.startPos = 0
        /\ v.from = n.startPos /\ v.to = to
    BY <1>2 DEF Entered, NodeFields
<1>5. CASE how \in {"lit", "field"} /\ (IsSeq(t) \/ CanRead(n.stream, n.startPos, SizeOf(t)))
           /\ frames' = SubSeq(frames, 1, Len(frames) - 1)
           /\ nodes' = Build(done(Entered(n, SizeOf(t)), n.startPos + SizeOf(t)))
  <2> DEFINE v == done(Entered(n, SizeOf(t)), n.startPos + SizeOf(t))
  <2>1. /\ v.state = "resolved" /\ v.stream = SubStream(n.stream, n.startPos, SizeOf(t)) /\ v.startPos = 0
        /\ v.from = n.startPos /\ v.to = n.startPos + SizeOf(t) /\ nodes' = Build(v)
      BY <1>4, <1>5
  <2> HIDE DEF v, done
  <2>2. Here(t) => NodeOK(t, v, FALSE, TRUE)
      BY <1>0, <1>5, <2>1, SizedOK DEF HasSize
  <2> QED
      BY <1>0, <1>5, <2>1, <2>2, BuildPop
<1>6. CASE how \in {"lit", "field"} /\ ~(IsSeq(t) \/ CanRead(n.stream, n.startPos, SizeOf(t))) /\ Fail
  <2>1. ASSUME Here(t), t \notin reread
        PROVE  t \notin Ok
    <3>1. SizeOf(t) = Extent(t) /\ n.startPos = Rel(t) /\ n.stream = Window(Parent[t]) /\ schema \in Schemas
        BY <1>0, <1>6, <2>1, SizeRead, TopRead DEF Good
    <3>2. ~Fits(t)
        BY <1>1, <1>6, <3>1, ReadInWindow DEF Fits
    <3> QED
        BY <3>2, OkIs DEF Goes
  <2> QED
      BY <1>1, <1>6, <2>1, FailStep
<1>7. CASE how = "eos" /\ frames' = SubSeq(frames, 1, Len(frames) - 1)
           /\ nodes' = Build(done(Entered(n, n.stream.size - n.startPos), n.startPos))
  <2> DEFINE v == done(Entered(n, n.stream.size - n.startPos), n.startPos)
  <2>1. /\ v.state = "resolved" /\ v.stream = SubStream(n.stream, n.startPos, n.stream.size - n.startPos)
        /\ v.startPos = 0 /\ v.from = n.startPos /\ v.to = n.startPos /\ nodes' = Build(v)
      BY <1>4, <1>7
  <2> HIDE DEF v, done
  <2>2. Here(t) => NodeOK(t, v, FALSE, TRUE)
      BY <1>0, <1>7, <2>1, SizedOK DEF HasSize
  <2> QED
      BY <1>0, <1>7, <2>1, <2>2, BuildPop
<1>8. CASE how = "none" /\ StaticSize(t) >= 0 /\ frames' = SubSeq(frames, 1, Len(frames) - 1)
           /\ nodes' = Build(done(n, n.startPos + StaticSize(t)))
  <2> DEFINE v == done(n, n.startPos + StaticSize(t))
  <2>1. /\ v.state = "resolved" /\ v.stream = n.stream /\ v.startPos = n.startPos
        /\ v.from = n.startPos /\ v.to = n.startPos + StaticSize(t) /\ nodes' = Build(v)
      BY <1>3, <1>8
  <2> HIDE DEF v, done
  <2>2. Here(t) => NodeOK(t, v, FALSE, TRUE)
      BY <1>0, <1>8, <2>1, PlainOK DEF HasSize
  <2> QED
      BY <1>0, <1>8, <2>1, <2>2, BuildPop
<1>9. CASE how = "none" /\ StaticSize(t) < 0 /\ nodes' = Build(done(n, n.startPos)) /\ Goto("walk")
  <2> DEFINE v == done(n, n.startPos)
  <2>1. /\ v.state = "resolved" /\ v.stream = n.stream /\ v.startPos = n.startPos
        /\ v.from = n.startPos /\ nodes' = Build(v)
      BY <1>3, <1>9
  <2> HIDE DEF v, done
  <2>2. Here(t) => NodeOK(t, v, TRUE, TRUE)
      BY <1>0, <1>9, <2>1, PlainOK DEF HasSize
  <2>3. Walked(t)
      BY <1>0, <1>9 DEF Walked, HasSize
  <2> QED
      BY <1>0, <1>9, <2>1, <2>2, <2>3, BuildWalk
<1> QED
    BY <1>5, <1>6, <1>7, <1>8, <1>9 DEF ReadStruct

\* A struct that has been walked through.
LEMMA WalkFacts ==
    ASSUME Good, Running("walk"), NEW t \in Field, t = This
    PROVE  Walked(t) /\ State(t) = "resolved" /\ \A m \in Range(Kids[t]) : State(m) # "error"
<1> PICK l \in Nat : l = Len(frames)
    BY RunningFacts, StackFacts
<1>1. ~Idle /\ ~Failing /\ Top.pc = "walk"
    BY RunningFacts
<1>2. l \in 1 .. Len(frames) /\ FrameInv(l) /\ Top = frames[l] /\ t = Top.node
    BY <1>1, StackFacts
<1>3. Walking(frames[l])
    BY <1>1, <1>2 DEF Good, StackInv
<1> QED
    BY <1>1, <1>2, <1>3 DEF FrameInv, Walking

LEMMA KidsRead ==
    ASSUME Good, Running("walk"), NEW t \in Field, t = This, Unread(t) = {}
    PROVE  \A m \in Range(Kids[t]) : State(m) = "resolved" /\ ~OnStack(m)
<1> SUFFICES ASSUME NEW m \in Range(Kids[t])
             PROVE  State(m) = "resolved" /\ ~OnStack(m)
    OBVIOUS
<1>1. ~Idle /\ t # Root /\ t \in Node
    BY RunningFacts, NotRoot
<1>2. m \in Field /\ Parent[m] = t /\ m \in Node /\ m # t /\ m \in Below[t]
    BY <1>1, KidField, NotRoot, BelowSelf, BelowParts
<1>3. ~OnStack(m)
  <2> SUFFICES ASSUME NEW k \in 1 .. Len(frames), frames[k].node = m
               PROVE  FALSE
      BY DEF OnStack
  <2>1. k \in 1 .. Len(frames) - 1
      BY <1>1, <1>2, StackFacts
  <2> QED
      BY <1>1, <1>2, <2>1, StackFacts
<1>4. IsStruct(t) /\ State(t) = "resolved" /\ State(m) # "error"
    BY WalkFacts DEF Walked, IsStruct
<1>5. State(m) # "unresolved"
  <2>1. PICK k \in DOMAIN Kids[t] : m = Kids[t][k]
      BY DEF Range
  <2> QED
      BY <2>1 DEF Unread, State
<1>6. State(m) # "absent" /\ State(m) # "resolving" /\ State(m) \in Live \cup {"absent", "unresolved"}
    BY <1>2, <1>3, <1>4 DEF Good, StateInv
<1> QED
    BY <1>3, <1>4, <1>5, <1>6 DEF Live

LEMMA KidsOk ==
    ASSUME Good, Running("walk"), NEW t \in Field, t = This, Unread(t) = {}, Here(t)
    PROVE  \A m \in Range(Kids[t]) : m \in Ok /\ Here(m)
<1> DEFINE T == {k \in DOMAIN Kids[t] : Kids[t][k] \in Ok /\ Here(Kids[t][k])}
<1>1. t \in Node /\ t \notin reread /\ reread \subseteq Node /\ schema \in Schemas
  <2>1. ~OwnStream(t)
      BY WalkFacts DEF Walked, OwnStream, HasSize
  <2> QED
      BY <2>1, NotRoot DEF Good, StateInv
<1>2. ASSUME NEW k \in DOMAIN Kids[t], \A j \in 1 .. k - 1 : j \in T
      PROVE  k \in T
  <2> PICK m : m = Kids[t][k]
      OBVIOUS
  <2>1. /\ m \in Field /\ IsSeq(m) /\ Parent[m] = t /\ SeqIndex(m) = k /\ m \in Range(Kids[t])
      BY <1>1, KidFacts DEF Range
  <2>2. Before(m) \subseteq Ok
      BY <1>2, <2>1 DEF Before
  <2>3. Here(m)
      BY <1>1, <2>1, <2>2, HereKid
  <2>4. State(m) = "resolved" /\ ~OnStack(m)
      BY <2>1, KidsRead
  <2>5. NodeOK(m, nodes[m], OnStack(m), Built(m))
      BY <2>1, <2>3, <2>4 DEF Good, NodeInv
  <2>6. m \in Ok
      BY <2>1, <2>4, <2>5 DEF NodeOK, State
  <2> QED
      BY <2>3, <2>6
<1> HIDE DEF T
<1>3. DOMAIN Kids[t] \subseteq T
    BY <1>1, <1>2, AlongKids
<1> QED
    BY <1>3 DEF T, Range

LEMMA WalkedExtent ==
    ASSUME Good, Running("walk"), NEW t \in Field, t = This, Unread(t) = {}, Here(t)
    PROVE  /\ Kids[t] # <<>> /\ t \in Ok
           /\ nodes[Last(t)].to = nodes[t].from + Extent(t)
<1>0. /\ t \in Node /\ schema \in Schemas /\ Walked(t) /\ State(t) = "resolved" /\ t # Root
      /\ schema.size[t].how = "none" /\ schema.kind[t] = "user" /\ IsStruct(t)
    BY NotRoot, WalkFacts DEF Good, Walked, HasSize, IsStruct
<1>1. Kids[t] # <<>>
    BY <1>0, WalkedHasKids DEF Walked
<1>2. t \in Ok
  <2>1. Fits(t) /\ Sources(t) = {}
      BY <1>0 DEF Fits, Sources
  <2> QED
      BY <2>1, KidsOk, OkIs DEF Goes
<1> PICK m : m = Last(t)
    OBVIOUS
<1>3. /\ m \in Field /\ m \in Range(Kids[t]) /\ Parent[m] = t /\ IsSeq(m) /\ SeqIndex(m) = Len(Kids[t])
      /\ m \in Node
  <2>1. Len(Kids[t]) \in DOMAIN Kids[t] /\ m = Kids[t][Len(Kids[t])]
      BY <1>0, <1>1, LastKid DEF Last
  <2> QED
      BY <1>0, <2>1, KidFacts DEF Range
<1>4. State(m) = "resolved" /\ ~OnStack(m) /\ Here(m) /\ Unmoved(m)
    BY <1>3, KidsRead, KidsOk, SeqUnmoved
<1>5. NodeOK(m, nodes[m], OnStack(m), Built(m))
    BY <1>3, <1>4 DEF Good, NodeInv
<1>6. schema.size[m].how # "eos"
    BY <1>0, <1>3, EosIsLast DEF HasSize
<1>7. nodes[m].to = Rel(m) + Extent(m)
    BY <1>4, <1>5, <1>6 DEF NodeOK, State
<1>8. nodes[t].from = Rel(t)
  <2>1. NodeOK(t, nodes[t], OnStack(t), Built(t)) /\ Unmoved(t)
      BY <1>0 DEF Good, NodeInv, Unmoved
  <2> QED
      BY <1>0, <2>1 DEF NodeOK, State
<1>9. Extent(t) = Begin(m) + Extent(m) - Begin(t)
    BY <1>0, <1>1, ExtentIs
<1>10. IoBegin(t) = IoBegin(Parent[t])
    BY <1>0, WindowIs DEF HasSize
<1>11. /\ Begin(m) \in Int /\ Extent(m) \in Int /\ Begin(t) \in Int /\ IoBegin(t) \in Int
    BY <1>0, <1>3, PlaceTypes
<1>12. Rel(m) + Extent(m) = Rel(t) + Extent(t)
    BY <1>3, <1>9, <1>10, <1>11 DEF Rel
<1> QED
    BY <1>1, <1>2, <1>7, <1>8, <1>12

LEMMA WalkStep ==
    ASSUME Good, Same, Walk
    PROVE  StackInv' /\ StateInv' /\ NodeInv' /\ ReadInv'
<1>0. Running("walk")
    BY DEF Walk
<1>1. ~Idle /\ ~Failing /\ Top.pc = "walk" /\ This # Root /\ This \in Field
    BY <1>0, RunningFacts
<1> PICK t \in Field : t = This
    BY <1>1
<1>2. t \in Node /\ Walked(t) /\ State(t) = "resolved" /\ t # Root
    BY <1>0, NotRoot, WalkFacts
<1>3. ASSUME NEW m \in NextUnread(This), Call(m, "walk")
      PROVE  StackInv' /\ StateInv' /\ NodeInv' /\ ReadInv'
  <2>1. m \in Range(Kids[This]) /\ State(m) = "unresolved" /\ m \in Node
      BY <1>2, <1>3, UnreadFacts
  <2>2. Calls(This, Top.pc, m)
      BY <1>1, <2>1 DEF Calls
  <2> QED
      BY <1>1, <1>3, <2>1, <2>2, PushStep
<1>4. ASSUME Unread(t) = {}, NEW to, to = IF Kids[t] = <<>> THEN nodes[t].to ELSE nodes[Last(t)].to,
             Return([nodes[t] EXCEPT !.to = to])
      PROVE  StackInv' /\ StateInv' /\ NodeInv' /\ ReadInv'
  <2> DEFINE v == [nodes[t] EXCEPT !.to = to]
  <2>1. /\ v.state = "resolved" /\ v.stream = nodes[t].stream /\ v.startPos = nodes[t].startPos
        /\ v.from = nodes[t].from /\ v.to = to /\ DOMAIN nodes = Node
      BY <1>2 DEF Good, OriginInv, AllRooted, Rooted, NodeFields, State
  <2>2. nodes' = [nodes EXCEPT ![t] = v] /\ nodes' = [nodes EXCEPT ![This] = v]
        /\ frames' = SubSeq(frames, 1, Len(frames) - 1)
      BY <1>4 DEF Return
  <2> HIDE DEF v
  <2>3. \A x \in Node : nodes'[x] = IF x = t THEN v ELSE nodes[x]
      BY <2>1, <2>2
  <2>4. LeavesAside
      BY <2>3 DEF LeavesAside, Aside
  <2>5. \A x \in Node : nodes'[x].state = "error" => State(x) = "error"
      BY <2>1, <2>3 DEF State
  <2>6. StackInv' /\ ReadInv'
      BY <1>1, <2>2, <2>4, <2>5, PopStack, PopRead
  <2>7. \A x : OnStack(x)' <=> OnStack(x) /\ x # t
      BY <1>1, <2>2, PopStackOn
  <2>8. StateInv'
      BY <1>1, <1>2, <2>1, <2>2, <2>7, EditState
  <2>9. ASSUME Here(t)
        PROVE  NodeOK(t, v, OnStack(t)', Built(t)')
    <3>1. to = nodes[t].from + Extent(t) /\ t \in Ok
        BY <1>0, <1>4, <2>9, WalkedExtent
    <3>2. NodeOK(t, nodes[t], OnStack(t), Built(t)) /\ Built(t)
        BY <1>2, <2>9 DEF Good, NodeInv, Built
    <3>3. ~OwnStream(t) /\ IsStruct(t) /\ schema.size[t].how # "eos"
        BY <1>2 DEF Walked, OwnStream, HasSize, IsStruct
    <3> HIDE DEF OnStack, Built
    <3> QED
        BY <1>2, <2>1, <3>1, <3>2, <3>3 DEF NodeOK, Leaf, Unmoved, State
  <2>10. NodeInv'
      BY <1>1, <1>2, <2>1, <2>2, <2>7, <2>9, EditNode DEF Live
  <2> QED
      BY <2>6, <2>8, <2>10
<1> QED
    BY <1>3, <1>4 DEF Walk, Last

LEMMA ResolveStep ==
    ASSUME Good, Same, Resolve
    PROVE  StackInv' /\ StateInv' /\ NodeInv' /\ ReadInv'
BY RootStep, PositionStep, SiblingsStep, SizeStep, LeafStep, StructStep, WalkStep, AwaitedStep DEF Resolve

-----------------------------------------------------------------------------
(* A caller asks for a node.                                               *)

LEMMA AccessFrames ==
    ASSUME NEW m \in Node, Access(m)
    PROVE  /\ Len(frames) = 0 /\ Len(frames') = 1 /\ \A n : ~OnStack(n)
           /\ frames'[1].node = m /\ frames'[1].awaited = m
           /\ frames'[1].pc = (IF m = Root THEN "root" ELSE IF IsSeq(m) THEN "position" ELSE "siblings")
<1>1. frames = <<>> /\ frames' = <<Activation(m)>>
    BY DEF Access, Idle
<1>2. Len(frames) = 0 /\ 1 .. Len(frames) = {}
    BY <1>1
<1>3. Len(frames') = 1 /\ frames'[1] = Activation(m)
    BY <1>1
<1> QED
    BY <1>2, <1>3 DEF OnStack, Activation, Frame

LEMMA AccessStep ==
    ASSUME Good, NEW m \in Node, Access(m)
    PROVE  StackInv' /\ StateInv' /\ NodeInv' /\ ReadInv'
<1>1. Same /\ State(m) = "unresolved" /\ nodes' = Resolving(m)
    BY DEF Access, Same, State
<1>2. /\ Len(frames) = 0 /\ Len(frames') = 1 /\ \A n : ~OnStack(n)
      /\ frames'[1].node = m /\ frames'[1].awaited = m
      /\ frames'[1].pc = (IF m = Root THEN "root" ELSE IF IsSeq(m) THEN "position" ELSE "siblings")
    BY AccessFrames
<1>3. \A n : OnStack(n)' <=> n = m
  <2>1. 1 .. Len(frames') = {1}
      BY <1>2
  <2> QED
      BY <1>2, <2>1 DEF OnStack
<1>4. m \in Field /\ Parent[m] # Root => Built(Parent[m])
  <2>1. m \in Parts[Root] => Parent[m] = Root
      BY ParentUnique DEF Node
  <2>2. m \in Field => m # Root
      BY NotRoot
  <2> QED
      BY <2>1, <2>2 DEF Access, Built, State
<1>5. StateInv' /\ NodeInv'
  <2>1. \A n \in Node : OnStack(n)' <=> OnStack(n) \/ n = m
      BY <1>2, <1>3
  <2> QED
      BY <1>1, <1>4, <2>1, PushState, PushNode
<1>6. ReadInv'
  <2>1. frames'[0 + 1].pc # "read" /\ 0 \in Nat /\ 1 .. 0 = {} /\ Len(frames') = 0 + 1
      BY <1>2
  <2> QED
      BY <1>1, <1>2, <2>1, PushRead
<1>7. StackInv'
  <2>1. nodes'[m].state = "resolving"
      BY <1>1 DEF Resolving, Good, OriginInv, AllRooted, Rooted, NodeFields
  <2>2. IsSeq(m)' <=> IsSeq(m)
      BY DEF IsSeq
  <2>3. FrameInv(1)'
      BY <1>2, <2>1, <2>2 DEF FrameInv, State
  <2>4. Walking(frames[1])'
      BY <1>2 DEF Walking
  <2>5. 1 .. Len(frames') = {1} /\ 1 .. 1 - 1 = {}
      BY <1>2
  <2> QED
      BY <2>3, <2>4, <2>5 DEF StackInv
<1> QED
    BY <1>5, <1>6, <1>7

-----------------------------------------------------------------------------
(* A caller invalidates a node.                                            *)

LEMMA InvalidatedIs ==
    ASSUME Good, NEW n \in Node, Invalidate(n)
    PROVE  /\ frames = <<>> /\ frames' = <<>> /\ schema' = schema /\ replaced' = replaced
           /\ reread' = reread \cup {m \in Existing(n) : OwnStream(m) /\ State(m) # "unresolved"}
           /\ \A m : ~OnStack(m) /\ ~OnStack(m)'
           /\ \A m \in Node : nodes'[m] = IF m \in Existing(n) THEN Cleared(nodes[m]) ELSE nodes[m]
           /\ \A m \in Existing(n) : /\ m \in Node /\ State(m) # "absent"
                                     /\ nodes'[m].state = "unresolved"
                                     /\ nodes'[m].stream = nodes[m].stream
           /\ \A m \in Node \ Existing(n) : m \in Below[n] => State(m) = "absent"
<1>1. /\ frames = <<>> /\ frames' = <<>> /\ schema' = schema /\ replaced' = replaced
      /\ reread' = reread \cup {m \in Existing(n) : OwnStream(m) /\ State(m) # "unresolved"}
      /\ nodes' = Invalidated(n)
    BY DEF Invalidate, Idle, State
<1>2. \A m : ~OnStack(m) /\ ~OnStack(m)'
  <2>1. 1 .. Len(frames) = {} /\ 1 .. Len(frames') = {}
      BY <1>1
  <2> QED
      BY <2>1 DEF OnStack
<1>3. \A m \in Node : nodes'[m] = IF m \in Existing(n) THEN Cleared(nodes[m]) ELSE nodes[m]
    BY <1>1 DEF Invalidated
<1>4. \A m \in Existing(n) : m \in Node /\ State(m) # "absent"
    BY BelowSelf DEF Existing, State
<1>5. ASSUME NEW m \in Existing(n)
      PROVE  nodes'[m].state = "unresolved" /\ nodes'[m].stream = nodes[m].stream
  <2>1. m \in Node /\ Rooted(nodes[m])
      BY <1>4 DEF Good, OriginInv, AllRooted
  <2> QED
      BY <1>3, <2>1 DEF Cleared, Rooted, NodeFields
<1>6. \A m \in Node \ Existing(n) : m \in Below[n] => State(m) = "absent"
    BY DEF Existing, State
<1> QED
    BY <1>1, <1>2, <1>3, <1>4, <1>5, <1>6

LEMMA InvalidateState ==
    ASSUME Good, NEW n \in Node, Invalidate(n)
    PROVE  StateInv'
<1>1. /\ schema' = schema
      /\ reread' = reread \cup {m \in Existing(n) : OwnStream(m) /\ State(m) # "unresolved"}
      /\ \A m : ~OnStack(m)
      /\ \A m \in Existing(n) : m \in Node /\ State(m) # "absent" /\ nodes'[m].state = "unresolved"
      /\ \A m \in Node \ Existing(n) : nodes'[m] = nodes[m]
      /\ \A m \in Node \ Existing(n) : m \in Below[n] => State(m) = "absent"
    BY InvalidatedIs
<1>2. StateInv
    BY DEF Good
<1>3. \A m \in Node : (Described(m)' <=> Described(m)) /\ (OwnStream(m)' <=> OwnStream(m))
                      /\ (IsStruct(m)' <=> IsStruct(m))
    BY <1>1, KeptPlaces
<1>4. \A m \in Field : m \in Node /\ Parent[m] \in Node /\ m \in Parts[Parent[m]]
    BY NotRoot, ParentIsNode
<1>5. \A m \in Node : nodes'[m].state \in Live => m \notin Existing(n) /\ nodes'[m] = nodes[m]
    BY <1>1 DEF Live
<1>6. \A m \in Node : nodes'[m].state # "resolving"
    BY <1>1, <1>2, <1>5 DEF StateInv, Live, State
<1>7. /\ nodes'[Root].state \in {"unresolved", "resolving", "resolved"}
      /\ nodes'[Root].state = "resolved" => nodes'[Root].startPos = 0
  <2>1. Root \in Node
      BY DEF Node
  <2> QED
      BY <1>1, <1>2, <2>1 DEF StateInv, State
<1>8. ASSUME NEW m \in Field, Parent[m] # Root, nodes'[m].state \in Live
      PROVE  nodes'[Parent[m]].state \in {"resolved", "error"}
  <2>1. m \in Node \ Existing(n) /\ State(m) \in Live /\ State(m) # "absent"
      BY <1>4, <1>5, <1>8 DEF State, Live
  <2>2. m \notin Below[n]
      BY <1>1, <2>1
  <2>3. Parent[m] \notin Below[n]
      BY <1>4, <2>2, BelowParts
  <2>4. nodes'[Parent[m]] = nodes[Parent[m]]
      BY <1>1, <1>4, <2>3 DEF Existing
  <2> QED
      BY <1>2, <1>8, <2>1, <2>4 DEF StateInv, State
<1>9. ASSUME NEW m \in Field, nodes'[m].state = "absent"
      PROVE  Parent[m] # Root /\ (IsStruct(Parent[m])' => nodes'[Parent[m]].state # "resolved")
  <2>1. State(m) = "absent"
      BY <1>1, <1>4, <1>9 DEF State
  <2>2. Parent[m] # Root /\ (IsStruct(Parent[m]) => State(Parent[m]) # "resolved")
      BY <1>2, <2>1 DEF StateInv
  <2>3. nodes'[Parent[m]].state = "resolved" => State(Parent[m]) = "resolved"
      BY <1>4, <1>5 DEF State, Live
  <2> QED
      BY <1>3, <1>4, <2>2, <2>3
<1>10. ASSUME NEW m \in Node
       PROVE  /\ nodes'[m].state # "absent" => Described(m)'
              /\ nodes'[m].state \in Live \cup {"absent", "unresolved"}
    BY <1>1, <1>2, <1>3 DEF StateInv, State
<1>11. reread' \subseteq {m \in Node : OwnStream(m)'}
    BY <1>1, <1>2, <1>3 DEF StateInv
<1>12. Live' = Live
    BY DEF Live
<1> QED
    BY <1>6, <1>7, <1>8, <1>9, <1>10, <1>11, <1>12 DEF StateInv, State

LEMMA InvalidateNode ==
    ASSUME Good, NEW n \in Node, Invalidate(n)
    PROVE  NodeInv'
<1>1. /\ schema' = schema /\ replaced' = replaced
      /\ reread' = reread \cup {m \in Existing(n) : OwnStream(m) /\ State(m) # "unresolved"}
      /\ \A m : ~OnStack(m) /\ ~OnStack(m)'
      /\ \A m \in Existing(n) : /\ m \in Node /\ State(m) # "absent"
                                /\ nodes'[m].state = "unresolved"
                                /\ nodes'[m].stream = nodes[m].stream
      /\ \A m \in Node \ Existing(n) : nodes'[m] = nodes[m]
    BY InvalidatedIs
<1> SUFFICES ASSUME NEW x \in Field, Here(x)', nodes'[x].state # "absent"
             PROVE  NodeOK(x, nodes[x], OnStack(x), Built(x))'
    BY DEF NodeInv, State
<1>2. /\ Window(x)' = Window(x) /\ Window(Parent[x])' = Window(Parent[x]) /\ Rel(x)' = Rel(x)
      /\ Content(x)' = Content(x) /\ Begin(x)' = Begin(x) /\ Extent(x)' = Extent(x)
      /\ IoBegin(x)' = IoBegin(x) /\ Ok' = Ok
    BY <1>1, KeptPlaces, KeptFits, KeptOk
<1>3. /\ OwnStream(x)' <=> OwnStream(x)
      /\ IsStruct(x)' <=> IsStruct(x)
      /\ AllFit' <=> AllFit
      /\ IsSeq(x)' <=> IsSeq(x)
      /\ Clean(x)' <=> Clean(x)
    BY <1>1, KeptPlaces DEF IsSeq
<1>4. Here(x)
    BY <1>1, <1>3 DEF Here, Undisturbed
<1>5. x \in Node /\ (x \notin reread' => x \notin reread) /\ State(x) # "absent"
    BY <1>1, NotRoot DEF State
<1>6. NodeOK(x, nodes[x], OnStack(x), Built(x))
    BY <1>4, <1>5 DEF Good, NodeInv
<1>7. CASE x \in Existing(n)
  <2>1. nodes'[x].state = "unresolved" /\ nodes'[x].stream = nodes[x].stream
      BY <1>1, <1>7
  <2>2. ~Built(x)'
      BY <2>1 DEF Built, State
  <2>3. OwnStream(x) /\ x \notin reread' => nodes[x].state = "unresolved"
      BY <1>1, <1>7 DEF State
  <2>4. ~OwnStream(x) \/ (x \notin reread' /\ nodes'[x].state \in {"unresolved", "resolving"}) =>
          nodes'[x].stream = Window(Parent[x])
      BY <1>5, <1>6, <2>1, <2>3 DEF NodeOK
  <2> HIDE DEF Built, OnStack
  <2> QED
      BY <1>2, <1>3, <2>1, <2>2, <2>4 DEF NodeOK
<1>8. CASE x \notin Existing(n)
  <2>1. nodes'[x] = nodes[x]
      BY <1>1, <1>5, <1>8
  <2>2. Built(x)' => Built(x)
    <3>1. \A m \in Parts[x] : m \in Node
        BY <1>5, PartsAreFields, NotRoot
    <3>2. \A m \in Parts[x] : nodes'[m].state \in Live => State(m) \in Live
        BY <1>1, <3>1 DEF Live, State
    <3>3. Live' = Live
        BY DEF Live
    <3> QED
        BY <2>1, <3>2, <3>3 DEF Built, State
  <2>3. ~OnStack(x) /\ ~OnStack(x)'
      BY <1>1
  <2> HIDE DEF Built, OnStack
  <2> QED
      BY <1>1, <1>2, <1>3, <1>5, <1>6, <2>1, <2>2, <2>3 DEF NodeOK, Leaf, Unmoved
<1> QED
    BY <1>7, <1>8

LEMMA InvalidateStep ==
    ASSUME Good, NEW n \in Node, Invalidate(n)
    PROVE  StackInv' /\ StateInv' /\ NodeInv' /\ ReadInv'
<1>1. 1 .. Len(frames') = {}
  <2>1. frames' = <<>>
      BY InvalidatedIs
  <2> QED
      BY <2>1
<1>2. StackInv' /\ ReadInv'
    BY <1>1 DEF StackInv, ReadInv
<1> QED
    BY <1>2, InvalidateState, InvalidateNode

-----------------------------------------------------------------------------
(* The invariant holds.                                                    *)

LEMMA DescribedRoot == Described(Root)
BY RootNotBelow DEF Described, Node

LEMMA InitNodes ==
    ASSUME Init
    PROVE  /\ \A n \in Node : State(n) \in {"unresolved", "absent"}
           /\ State(Root) = "unresolved"
           /\ \A n \in Field : State(n) = "absent" => Parent[n] # Root
           /\ \A n \in Field : State(n) # "absent" => /\ n \in Parts[Root] /\ Parent[n] = Root
                                                      /\ nodes[n].stream = Whole(schema.data)
<1>1. \A n \in Node : nodes[n] = IF n \in {Root} \cup Parts[Root] THEN Fresh(Whole(schema.data), 0)
                              ELSE Absent
    BY DEF Init
<1>2. /\ Fresh(Whole(schema.data), 0).state = "unresolved"
      /\ Fresh(Whole(schema.data), 0).stream = Whole(schema.data)
      /\ Absent.state = "absent"
    BY DEF Fresh, Absent
<1>3. \A n \in Field : n \in Node /\ n # Root /\ n \in Parts[Parent[n]]
    BY NotRoot, ParentIsNode
<1>4. \A n \in Parts[Root] : Parent[n] = Root
    BY ParentUnique DEF Node
<1>5. Root \in Node
    BY DEF Node
<1> QED
    BY <1>1, <1>2, <1>3, <1>4, <1>5 DEF State

LEMMA InitSteady == Init => SteadyInv
<1> SUFFICES ASSUME Init
             PROVE  StackInv /\ StateInv /\ NodeInv /\ ReadInv
    BY DEF SteadyInv, Init
<1>1. frames = <<>> /\ reread = {} /\ schema \in Schemas
    BY DEF Init
<1>2. 1 .. Len(frames) = {}
    BY <1>1
<1>3. StackInv /\ ReadInv
    BY <1>2 DEF StackInv, ReadInv
<1>4. \A n \in Node : State(n) # "absent" => Described(n)
  <2> SUFFICES ASSUME NEW n \in Node, State(n) # "absent"
               PROVE  Described(n)
      OBVIOUS
  <2>1. n = Root \/ n \in Parts[Root]
      BY InitNodes DEF Node
  <2> QED
      BY <2>1, DescribedRoot, DescribedPart DEF IsStruct, Node
<1>5. StateInv
    BY <1>1, <1>4, InitNodes, NotRoot DEF StateInv, Live
<1>6. NodeInv
  <2> SUFFICES ASSUME NEW n \in Field, State(n) # "absent"
               PROVE  NodeOK(n, nodes[n], OnStack(n), Built(n))
      BY DEF NodeInv
  <2>1. nodes[n].state = "unresolved" /\ nodes[n].stream = Window(Parent[n])
      BY <1>1, NotRoot, InitNodes, RootWindow DEF State
  <2>2. ~Built(n)
      BY <2>1 DEF Built, State
  <2> HIDE DEF Built, OnStack
  <2> QED
      BY <2>1, <2>2 DEF NodeOK
<1> QED
    BY <1>3, <1>5, <1>6

LEMMA NextSteady == OriginInv /\ SteadyInv /\ [Next]_vars => SteadyInv'
<1> SUFFICES ASSUME OriginInv, SteadyInv, [Next]_vars, ~replaced', Counted'
             PROVE  (schema \in Schemas /\ StackInv /\ StateInv /\ NodeInv /\ ReadInv)'
    BY DEF SteadyInv
<1>1. schema' = schema /\ replaced' = replaced =>
        Good /\ (schema' = schema => schema' \in Schemas)
  <2> SUFFICES ASSUME schema' = schema, replaced' = replaced
               PROVE  Good
      BY DEF Good
  <2>1. Counted
      BY KeptPlaces
  <2> QED
      BY <2>1 DEF Good, SteadyInv
<1>2. CASE Resolve /\ UNCHANGED <<schema, reread, replaced>>
    BY <1>1, <1>2, ResolveStep DEF Same
<1>3. CASE \E n \in Node : Access(n)
  <2>1. schema' = schema /\ replaced' = replaced
      BY <1>3 DEF Access
  <2> QED
      BY <1>1, <1>3, <2>1, AccessStep
<1>4. CASE \E n \in Invalidatable : Invalidate(n)
  <2>1. schema' = schema /\ replaced' = replaced
      BY <1>4 DEF Invalidate
  <2>2. Invalidatable \subseteq Node
      BY CallersAssumption
  <2> QED
      BY <1>1, <1>4, <2>1, <2>2, InvalidateStep
<1>5. CASE \E data \in Inputs : SetStream(data)
    BY <1>5 DEF SetStream
<1>6. CASE UNCHANGED vars
  <2>1. schema' = schema /\ replaced' = replaced /\ reread' = reread /\ nodes' = nodes /\ frames' = frames
      BY <1>6 DEF vars
  <2>2. Same /\ Good
      BY <1>1, <2>1 DEF Same
  <2>3. \A n : (OnStack(n)' <=> OnStack(n)) /\ (Built(n)' <=> Built(n)) /\ State(n)' = State(n)
      BY <2>1 DEF OnStack, Built, State, Live
  <2>4. StateInv'
    <3>1. \A n \in Node : nodes'[n].state = State(n)
        BY <2>1 DEF State
    <3>2. Root \in Node /\ \A n \in Field : n \in Node /\ Parent[n] \in Node
        BY NotRoot DEF Node
    <3>3. nodes'[Root].startPos = nodes[Root].startPos /\ nodes'[Root].state = State(Root)
        BY <2>1 DEF State
    <3>4. StateInv
        BY <2>2 DEF Good
    <3> HIDE DEF State, OnStack
    <3> QED
        BY <2>2, <2>3, <3>1, <3>2, <3>3, <3>4, StateInvNext DEF StateInv
  <2>5. NodeInv'
    <3>0. \A n : OnStack(n)' = OnStack(n) /\ Built(n)' = Built(n)
        BY <2>1 DEF OnStack, Built, State, Live
    <3>1. \A n \in Field : Here(n) /\ nodes'[n].state # "absent" =>
            NodeOK(n, nodes'[n], OnStack(n)', Built(n)')
        BY <2>1, <2>2, <3>0 DEF Good, NodeInv, State
    <3> QED
        BY <2>2, <3>1, NodeInvNext
  <2>6. StackInv'
    <3>1. \A k \in 1 .. Len(frames) : FrameInv(k) => FrameInv(k)'
        BY <2>1, <2>2, FrameKept DEF State
    <3>2. \A f : Walking(f)' <=> Walking(f)
        BY <2>1 DEF Walking, State
    <3>3. \A f, g : Above(f, g)' <=> Above(f, g)
        BY DEF Above, After, Before, IsSeq
    <3>4. Failing' <=> Failing
        BY <2>1 DEF Failing, Awaited, Idle, Top, This, State
    <3>5. StackInv
        BY <2>2 DEF Good
    <3> HIDE DEF Walking, Above, Failing, FrameInv
    <3> QED
        BY <2>1, <3>1, <3>2, <3>3, <3>4, <3>5 DEF StackInv
  <2>7. ReadInv'
    <3>1. \A n : (Here(n)' <=> Here(n)) /\ Rel(n)' = Rel(n)
        BY <2>2, SameHere
    <3> QED
        BY <2>1, <2>2, <3>1 DEF Good, ReadInv, ReadFrame
  <2> QED
      BY <1>1, <2>1, <2>2, <2>4, <2>5, <2>6, <2>7 DEF Good
<1> QED
    BY <1>2, <1>3, <1>4, <1>5, <1>6 DEF Next

-----------------------------------------------------------------------------
(* What the invariant says of a node when nothing is being read.           *)

LEMMA BeforeRead ==
    ASSUME Good, Idle, NEW m \in Field, IsSeq(m), Clean(Parent[m]), Undisturbed(Parent[m]),
           \A g \in Before(m) : State(g) = "resolved"
    PROVE  Before(m) \subseteq Ok
<1> DEFINE q == Parent[m]
           T == {k \in DOMAIN Kids[q] : Kids[q][k] \in Before(m) => Kids[q][k] \in Ok}
<1>1. q \in Node /\ schema \in Schemas /\ ~replaced
    BY NotRoot DEF Good
<1>2. \A g : ~OnStack(g)
  <2>1. 1 .. Len(frames) = {}
      BY DEF Idle
  <2> QED
      BY <2>1 DEF OnStack
<1>3. ASSUME NEW k \in DOMAIN Kids[q], \A j \in 1 .. k - 1 : j \in T
      PROVE  k \in T
  <2> SUFFICES ASSUME Kids[q][k] \in Before(m)
               PROVE  Kids[q][k] \in Ok
      OBVIOUS
  <2> PICK g \in Field : g = Kids[q][k]
      BY <1>1, KidFacts
  <2>1. /\ IsSeq(g) /\ Parent[g] = q /\ SeqIndex(g) = k /\ k \in Nat
      BY <1>1, KidFacts
  <2>2. Before(g) \subseteq Before(m) /\ g \in Before(m)
      BY BeforeFacts
  <2>3. Before(g) \subseteq Ok
    <3> SUFFICES ASSUME NEW h \in Before(g)
                 PROVE  h \in Ok
        OBVIOUS
    <3>1. h \in Field /\ IsSeq(h) /\ Parent[h] = q /\ SeqIndex(h) < k
        BY <2>1, BeforeFacts
    <3>2. SeqIndex(h) \in 1 .. k - 1 /\ Kids[q][SeqIndex(h)] = h
        BY <2>1, <3>1, SeqFacts
    <3>3. SeqIndex(h) \in T
        BY <1>3, <3>2
    <3> QED
        BY <2>2, <3>2, <3>3
  <2>4. Clean(g)
      BY <1>1, <2>1, <2>3, SeqClean
  <2>5. Here(g)
      BY <1>1, <2>1, <2>4 DEF Here
  <2>6. State(g) = "resolved" /\ State(g) # "absent"
      BY <2>2
  <2>7. NodeOK(g, nodes[g], OnStack(g), Built(g))
      BY <2>5, <2>6 DEF Good, NodeInv
  <2> HIDE DEF OnStack, Built
  <2> QED
      BY <1>2, <2>1, <2>6, <2>7 DEF NodeOK, State
<1>4. DOMAIN Kids[q] \subseteq T
  <2> HIDE DEF T, q
  <2> QED
      BY <1>1, <1>3, AlongKids
<1> SUFFICES ASSUME NEW h \in Before(m)
             PROVE  h \in Ok
    OBVIOUS
<1>5. h \in Field /\ IsSeq(h) /\ Parent[h] = q
    BY BeforeFacts
<1>6. SeqIndex(h) \in DOMAIN Kids[q] /\ Kids[q][SeqIndex(h)] = h
    BY <1>5, SeqFacts
<1> QED
    BY <1>4, <1>6

\* What a field stands on has been read: then all of that fits.
LEMMA OrderlyClean ==
    ASSUME Good, Idle, NEW n \in Node, Orderly(n), Undisturbed(n)
    PROVE  Clean(n)
<1> DEFINE T == {p \in Node : n \in Below[p] => Clean(p)}
<1>1. schema \in Schemas /\ Readable(schema) /\ reread \subseteq Node
    BY SchemaFacts DEF Good, StateInv
<1>2. Root \in T
    BY CleanRoot DEF Node
<1>3. ASSUME NEW p \in T \cap Node, NEW m \in Parts[p]
      PROVE  m \in T
  <2>1. m \in Field /\ m \in Node /\ Parent[m] = p /\ m \in Below[p]
      BY ParentUnique, NotRoot, BelowParts, BelowSelf
  <2> SUFFICES ASSUME n \in Below[m]
               PROVE  Clean(m)
      BY <2>1
  <2>2. n \in Below[p] /\ Clean(p) /\ Undisturbed(p)
      BY <1>1, <2>1, BelowTrans, UndisturbedUp
  <2>3. \A k \in Needs(m) : State(k) = "resolved"
      BY <2>1 DEF Orderly, State
  <2>4. Before(m) \subseteq Ok
    <3>1. CASE IsSeq(m)
        BY <2>1, <2>2, <2>3, <3>1, BeforeRead DEF Needs
    <3>2. CASE ~IsSeq(m)
        BY <3>2 DEF Before
    <3> QED
        BY <3>1, <3>2
  <2>5. schema.size[m].how = "field" => Before(schema.size[m].of) \subseteq Ok
    <3> SUFFICES ASSUME schema.size[m].how = "field"
                 PROVE  Before(schema.size[m].of) \subseteq Ok
        OBVIOUS
    <3> PICK of \in Field : of = schema.size[m].of
        BY <1>1, <2>1, SourceFacts
    <3> PICK q \in Node : q = Parent[of]
        BY NotRoot
    <3>1. IsSeq(of) /\ m \in Below[q] /\ m # q
        BY <1>1, <2>1, SourceFacts
    <3>2. p \in Below[q]
        BY <2>1, <3>1, AroundParent
    <3>3. Clean(q)
        BY <2>2, <3>2, CleanUp
    <3>4. n \in Below[q]
        BY <3>1, BelowTrans
    <3>5. Undisturbed(q)
        BY <1>1, <3>4, UndisturbedUp
    <3>6. \A g \in Before(of) : State(g) = "resolved"
        BY <2>3 DEF Needs
    <3> QED
        BY <3>1, <3>3, <3>5, <3>6, BeforeRead
  <2>6. ASSUME NEW a \in Field, m \in Below[a]
        PROVE  Needs(a) \subseteq Ok
    <3>1. CASE a = m
        BY <2>4, <2>5, <3>1 DEF Needs
    <3>2. CASE a # m
      <4>1. a \in Node
          BY NotRoot
      <4>2. p \in Below[a]
          BY <2>1, <2>6, <3>2, <4>1, AroundParent
      <4> QED
          BY <2>2, <4>2 DEF Clean
    <3> QED
        BY <3>1, <3>2
  <2> QED
      BY <2>6 DEF Clean
<1>4. Node \subseteq T
  <2>1. \A p \in T \cap Node : Parts[p] \subseteq T
      BY <1>3
  <2> HIDE DEF T
  <2> QED
      BY <1>2, <2>1, TopDown
<1> QED
    BY <1>4, BelowSelf

LEMMA HereUndisturbed ==
    ASSUME Good, Idle, NEW n \in Field, Undisturbed(n), Clean(n), State(n) # "absent"
    PROVE  /\ n \notin reread /\ Here(n) /\ ~OnStack(n)
           /\ NodeOK(n, nodes[n], FALSE, Built(n))
<1>1. n \in Node /\ n \in Below[n] /\ Parent[n] \in Node /\ n \in Parts[Parent[n]]
    BY NotRoot, BelowSelf, ParentIsNode
<1>2. n \in Below[Parent[n]]
    BY <1>1, BelowSelf, BelowParts
<1>3. n \notin reread
    BY <1>1 DEF Undisturbed
<1>4. Undisturbed(Parent[n])
    BY <1>1, <1>2, UndisturbedUp DEF Good, StateInv
<1>5. Here(n)
    BY <1>4 DEF Here, Good
<1>6. OnStack(n) = FALSE
  <2>1. 1 .. Len(frames) = {}
      BY DEF Idle
  <2> QED
      BY <2>1 DEF OnStack
<1>7. NodeOK(n, nodes[n], OnStack(n), Built(n))
    BY <1>5 DEF Good, NodeInv
<1> QED
    BY <1>3, <1>5, <1>6, <1>7

LEMMA ReadIsRight ==
    ASSUME Good, Idle, NEW n \in Field, Read(n), Undisturbed(n)
    PROVE  /\ n \in Ok /\ Fits(n)
           /\ ~IsStruct(n) => /\ nodes[n].value = Content(n)
                              /\ nodes[n].from + nodes[n].stream.base = Begin(n)
                              /\ nodes[n].to + nodes[n].stream.base = Begin(n) + Extent(n)
           /\ IsStruct(n) /\ ~HasSize(n) => /\ nodes[n].from = Rel(n) /\ nodes[n].to = Rel(n) + Extent(n)
                                            /\ nodes[n].stream = Window(n)
<1>1. n \in Node
    BY NotRoot
<1>2. State(n) = "resolved" /\ State(n) # "absent" /\ Clean(n)
    BY <1>1, OrderlyClean DEF Read, State
<1>3. n \notin reread /\ NodeOK(n, nodes[n], FALSE, Built(n))
    BY <1>2, HereUndisturbed
<1>4. Built(n)
    BY <1>2 DEF Built
<1>5. n \in Ok
    BY <1>2, <1>3 DEF NodeOK, State
<1>6. Fits(n)
    BY <1>5, OkIs DEF Goes
<1>7. ~IsStruct(n) => /\ nodes[n].value = Content(n)
                      /\ nodes[n].from + nodes[n].stream.base = Begin(n)
                      /\ nodes[n].to + nodes[n].stream.base = Begin(n) + Extent(n)
    BY <1>2, <1>3 DEF NodeOK, State, Leaf
<1>8. IsStruct(n) /\ ~HasSize(n) =>
        /\ nodes[n].from = Rel(n) /\ nodes[n].to = Rel(n) + Extent(n)
        /\ nodes[n].stream = Window(n)
  <2> HIDE DEF Built
  <2> QED
      BY <1>2, <1>3, <1>4 DEF NodeOK, State, Unmoved, HasSize
<1> QED
    BY <1>5, <1>6, <1>7, <1>8

LEMMA ErrorIsRight ==
    ASSUME Good, Idle, NEW n \in Field, State(n) = "error", Undisturbed(n)
    PROVE  ~AllFit
<1> SUFFICES ASSUME AllFit
             PROVE  FALSE
    OBVIOUS
<1>1. n \in Node /\ schema \in Schemas
    BY NotRoot DEF Good
<1>2. Described(n)
    BY <1>1 DEF Good, StateInv
<1>3. Clean(n) /\ n \in Ok
    BY <1>1, <1>2, AllFitClean, AllFitOk
<1>4. n \notin reread /\ NodeOK(n, nodes[n], FALSE, Built(n))
    BY <1>3, HereUndisturbed
<1> QED
    BY <1>3, <1>4 DEF NodeOK, State

LEMMA SteadyReads == OriginInv /\ SteadyInv => ReadsAsDescribed
<1> SUFFICES ASSUME OriginInv, SteadyInv, Idle, Counted, NEW n \in Node, Undisturbed(n)
             PROVE  AsDescribed(n)
    BY DEF ReadsAsDescribed
<1>1. Good
    BY DEF Good, SteadyInv, Undisturbed
<1>2. CASE n = Root
  <2>1. State(Root) # "error"
      BY <1>1 DEF Good, StateInv
  <2> QED
      BY <1>2, <2>1 DEF AsDescribed, IsStruct, State
<1>3. CASE n \in Field
  <2>1. Read(n) /\ ~IsStruct(n) => Fits(n) /\ nodes[n].value = Content(n)
      BY <1>1, <1>3, ReadIsRight
  <2>2. State(n) = "error" => ~AllFit
      BY <1>1, <1>3, ErrorIsRight
  <2> QED
      BY <2>1, <2>2 DEF AsDescribed, Content, AllFit, State
<1> QED
    BY <1>2, <1>3 DEF Node

LEMMA SteadyRanges == OriginInv /\ SteadyInv => RangesInBuffer
<1> SUFFICES ASSUME OriginInv, SteadyInv, Idle, Counted, NEW n \in Field, Read(n), Undisturbed(n),
                    ~(IsStruct(n) /\ HasSize(n))
             PROVE  InPlace(n)
    BY DEF RangesInBuffer
<1>1. Good /\ schema \in Schemas /\ n \in Node /\ Parent[n] \in Node
    BY NotRoot DEF Good, SteadyInv, Undisturbed
<1>2. nodes[n].streamOffset = nodes[n].stream.base
    BY <1>1 DEF OriginInv, AllRooted, Rooted
<1>3. CASE ~IsStruct(n)
    BY <1>1, <1>2, <1>3, ReadIsRight DEF InPlace, ByteRange
<1>4. CASE IsStruct(n) /\ ~HasSize(n)
  <2>0. nodes[n].from = Rel(n) /\ nodes[n].to = Rel(n) + Extent(n) /\ nodes[n].stream = Window(n)
      BY <1>1, <1>4, ReadIsRight
  <2>1. nodes[n].from = Rel(n) /\ nodes[n].to = Rel(n) + Extent(n) /\ nodes[n].stream.base = IoBegin(n)
      BY <2>0 DEF Window
  <2>2. Rel(n) = Begin(n) - IoBegin(n)
      BY <1>1, <1>4, PlainWindow
  <2>3. Begin(n) \in Int /\ IoBegin(n) \in Int /\ Extent(n) \in Int
      BY <1>1, PlaceTypes
  <2> QED
      BY <1>2, <2>1, <2>2, <2>3 DEF InPlace, ByteRange
<1> QED
    BY <1>3, <1>4

-----------------------------------------------------------------------------

\* Through any nesting of windows, in any order of accesses, and after any part
\* of the tree was invalidated, a field that counts as read has the bytes the
\* schema describes, and nothing fails if everything fits (readUserType,
\* resolveInstance, readBytes).
THEOREM ReadsRight == Spec => []ReadsAsDescribed
<1>1. Init => OriginInv /\ SteadyInv
    BY InitOrigin, InitSteady
<1>2. OriginInv /\ SteadyInv /\ [Next]_vars => (OriginInv /\ SteadyInv)'
    BY NextOrigin, NextSteady
<1>3. OriginInv /\ SteadyInv => ReadsAsDescribed
    BY SteadyReads
<1> QED
    BY <1>1, <1>2, <1>3, PTL DEF Spec

\* ByteRange gives the bytes of a node in the root buffer, however deep the
\* windows are nested, for all but the user types with a window of their own.
THEOREM RangesRight == Spec => []RangesInBuffer
<1>1. Init => OriginInv /\ SteadyInv
    BY InitOrigin, InitSteady
<1>2. OriginInv /\ SteadyInv /\ [Next]_vars => (OriginInv /\ SteadyInv)'
    BY NextOrigin, NextSteady
<1>3. OriginInv /\ SteadyInv => RangesInBuffer
    BY SteadyRanges
<1> QED
    BY <1>1, <1>2, <1>3, PTL DEF Spec
=============================================================================
