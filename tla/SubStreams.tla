----------------------------- MODULE SubStreams -----------------------------
(***************************************************************************)
(* Nested user types of the lazy parse tree (kaitai/eval) and the streams  *)
(* they are read from.  A struct with a size reads its fields from a       *)
(* sub-stream of its own, whose origin streamOffset translates positions   *)
(* back to the root buffer; the fields of a struct are created when it is  *)
(* read.  The call stack is explicit as in LazyTree, whose subject are     *)
(* expressions and cycles; here a size is a literal or the value of a      *)
(* byte field that is read before.                                         *)
(***************************************************************************)
EXTENDS Integers, Sequences, Functions

CONSTANTS
    Root, Field,   \* the root struct; the fields and instances below it
    Kids, Insts,   \* the seq fields and the instances of each struct
    Schemas,       \* the schemas, each bound to its input
    Inputs,        \* what SetStream may replace the input by
    Invalidatable, \* the nodes a caller invalidates
    MaxOffset      \* bounds how far a window that is read again moves on

Node == {Root} \cup Field

\* "lit" is a size in bytes, "field" that of the byte read by field of.
Size == [how : {"none", "eos", "lit", "field"}, k : Nat, of : Node]
NoSize == [how |-> "none", k |-> 0, of |-> Root]
Schema ==
    [kind : [Node -> {"u1", "bytes", "user"}],
     size : [Node -> Size],
     pos : [Field -> Nat],  \* of instances
     nested : BOOLEAN,      \* each type is declared inside the one that uses it
     data : Seq(Nat)]

ASSUME TreeAssumption ==
    /\ Root \notin Field
    /\ Kids \in [Node -> Seq(Field)] /\ Insts \in [Node -> SUBSET Field]
    /\ \A m \in Field : \E n \in Node : m \in Range(Kids[n]) \cup Insts[n]
ASSUME SchemasAssumption == Schemas \subseteq Schema
ASSUME CallersAssumption ==
    Inputs \subseteq Seq(Nat) /\ Invalidatable \subseteq Node /\ MaxOffset \in Nat

VARIABLES
    schema,
    nodes,    \* the nodes; those of a struct that was never read are "absent"
    frames,   \* the activations of resolve
    reread,   \* history: what was invalidated after it had moved to a sub-stream
    replaced  \* history: SetStream was called

vars == <<schema, nodes, frames, reread, replaced>>

-----------------------------------------------------------------------------
(* Streams are windows of the input: base is where position 0 is, size what *)
(* Size() tells, limit where reading fails, since a window may be larger    *)
(* than what is left of the one around it.                                  *)

Whole(data) == [data |-> data, base |-> 0, size |-> Len(data), limit |-> Len(data)]
Smaller(a, b) == IF a < b THEN a ELSE b
SubStream(s, off, n) ==
    [s EXCEPT !.base = @ + off, !.size = n, !.limit = Smaller(@, s.base + off + n)]
CanRead(s, at, n) == n = 0 \/ s.base + at + n <= s.limit
Bytes(s, at, n) == SubSeq(s.data, s.base + at + 1, s.base + at + n)

-----------------------------------------------------------------------------
(* Nodes.                                                                  *)

\* What newFieldNode and newInstanceNode make.
Fresh(stream, offset) ==
    [state |-> "unresolved", stream |-> stream, streamOffset |-> offset,
     startPos |-> -1, from |-> 0, to |-> 0, value |-> <<>>]
Absent == [Fresh(Whole(<<>>), 0) EXCEPT !.state = "absent"]

Parts == [n \in Node |-> Range(Kids[n]) \cup Insts[n]]
Parent == [m \in Field |-> CHOOSE n \in Node : m \in Parts[n]]
IsSeq(m) == m # Root /\ m \in Range(Kids[Parent[m]])
SeqIndex(m) == CHOOSE k \in DOMAIN Kids[Parent[m]] : Kids[Parent[m]][k] = m
Pred(m) == IF SeqIndex(m) = 1 THEN Parent[m] ELSE Kids[Parent[m]][SeqIndex(m) - 1]

\* The nodes below n, n among them: what is in every set with n and with the
\* parts of its members.
Below == [n \in Node |->
            {m \in Node : \A S \in SUBSET Node :
                            n \in S /\ (\A k \in S : Parts[k] \subseteq S) => m \in S}]

\* ByteRange: the span in the coordinates of the root buffer.
ByteRange(n) == <<nodes[n].from + nodes[n].streamOffset, nodes[n].to + nodes[n].streamOffset>>

\* ComputeStructSizeStatic: the size of the first k fields of n, -1 unless each
\* has a fixed size.  A user type counts as its fields, whatever the size it is
\* given, and only if it is found among the types declared inside.
Prefixes == UNION {{<<n, k>> : k \in 0 .. Len(Kids[n])} : n \in Node}
StaticSum[at \in Prefixes] ==
    LET n == at[1]
        k == at[2]
        m == Kids[n][k]
        size == IF schema.kind[m] = "u1" THEN 1
                ELSE IF schema.kind[m] = "bytes"
                     THEN IF schema.size[m].how = "lit" THEN schema.size[m].k ELSE -1
                ELSE IF schema.nested THEN StaticSum[<<m, Len(Kids[m])>>] ELSE -1 IN
    IF k = 0 THEN 0
    ELSE IF StaticSum[<<n, k - 1>>] < 0 \/ size < 0 THEN -1
    ELSE StaticSum[<<n, k - 1>>] + size
StaticSize(n) == StaticSum[<<n, Len(Kids[n])>>]

-----------------------------------------------------------------------------
(* The stack of activations.                                               *)

Idle == frames = <<>>
Top == frames[Len(frames)]
This == Top.node
At(pc) == ~Idle /\ Top.pc = pc
Frame(n, pc, awaited) == [node |-> n, pc |-> pc, awaited |-> awaited]
Activation(n) ==
    Frame(n, IF n = Root THEN "root" ELSE IF IsSeq(n) THEN "position" ELSE "siblings", n)
Resolving(m) == [nodes EXCEPT ![m].state = "resolving"]

\* The running activation calls resolve on m; when that returns, it looks at
\* m's error and goes on from pc.
Call(m, pc) ==
    /\ frames' = Append([frames EXCEPT ![Len(frames)] = Frame(This, pc, m)], Activation(m))
    /\ nodes' = Resolving(m)
Goto(pc) == frames' = [frames EXCEPT ![Len(frames)] = Frame(This, pc, This)]
Return(result) ==
    /\ frames' = SubSeq(frames, 1, Len(frames) - 1)
    /\ nodes' = [nodes EXCEPT ![This] = result]
Fail == Return([nodes[This] EXCEPT !.state = "error"])

\* The call came back.
Awaited == ~Idle /\ Top.awaited # This
AwaitedFails == Awaited /\ nodes[Top.awaited].state = "error" /\ Fail
Running(pc) == At(pc) /\ (Awaited => nodes[Top.awaited].state # "error")

-----------------------------------------------------------------------------
(* Tree.resolve.                                                           *)

ResolveRoot ==
    /\ Running("root")
    /\ Return([nodes[Root] EXCEPT !.state = "resolved", !.startPos = 0, !.from = 0, !.to = 0])

\* A predecessor that has failed before gives its span all the same.
FindPosition ==
    LET p == Pred(This) IN
    /\ Running("position")
    /\ \/ /\ nodes[p].state = "unresolved"
          /\ Call(p, "position")
       \/ /\ nodes[p].state \in {"resolved", "error"}
          /\ nodes' = [nodes EXCEPT ![This].startPos =
                         IF p = Parent[This] THEN nodes[p].startPos ELSE nodes[p].to]
          /\ Goto("read")

\* An instance first resolves the fields beside it that are not resolved yet.
Unread(n) == {k \in DOMAIN Kids[n] : nodes[Kids[n][k]].state = "unresolved"}
NextUnread(n) == {Kids[n][k] : k \in {k \in Unread(n) : \A j \in Unread(n) : k <= j}}
EnsureSiblings ==
    LET p == Parent[This] IN
    /\ Running("siblings")
    /\ \/ \E m \in NextUnread(p) : Call(m, "siblings")
       \/ /\ Unread(p) = {}
          /\ nodes' = [nodes EXCEPT ![This].startPos = schema.pos[This]]
          /\ Goto("read")

SizeKnown == schema.size[This].how = "field" => nodes[schema.size[This].of].state = "resolved"
EvaluateSize ==
    LET size == schema.size[This] IN
    /\ Running("read")
    /\ size.how = "field"
    /\ \/ nodes[size.of].state = "unresolved" /\ Call(size.of, "read")
       \/ nodes[size.of].state = "error" /\ Fail

SizeOf(n) == CASE schema.size[n].how = "lit" -> schema.size[n].k
               [] schema.size[n].how = "field" -> nodes[schema.size[n].of].value[1]

\* A byte or a byte field.  A sized instance moves to a sub-stream first.
ReadLeaf ==
    LET n == nodes[This]
        len == IF schema.kind[This] = "u1" THEN 1 ELSE SizeOf(This)
        own == schema.kind[This] = "bytes" /\ ~IsSeq(This)
        moved == IF own THEN [n EXCEPT !.stream = SubStream(@, n.startPos, len),
                                       !.streamOffset = @ + n.startPos, !.startPos = 0]
                 ELSE n IN
    /\ Running("read") /\ SizeKnown
    /\ schema.kind[This] # "user"
    /\ Return(IF CanRead(moved.stream, moved.startPos, len)
              THEN [moved EXCEPT !.state = "resolved", !.from = moved.startPos,
                                 !.to = moved.startPos + len,
                                 !.value = Bytes(moved.stream, moved.startPos, len)]
              ELSE [moved EXCEPT !.state = "error"])

\* A struct becomes n, with fields and instances that are new.
BuildFrom(n, offset) ==
    [m \in Node |-> IF m = This THEN n
                    ELSE IF m \in Parts[This] THEN Fresh(n.stream, offset)
                    ELSE IF m \in Below[This] THEN Absent
                    ELSE nodes[m]]

\* Faulty variant: the new nodes keep the offset newStructNode takes from the
\* stream around the struct.
BuildInherited(n) == BuildFrom(n, nodes[This].streamOffset)

Build(n) == BuildFrom(n, n.streamOffset)

\* Faulty variant: positions go on counting from the enclosing stream.
EnteredAtOffset(n, len) ==
    [n EXCEPT !.stream = SubStream(@, n.startPos, len), !.streamOffset = @ + n.startPos]

\* Faulty variant: the origin is not moved with the stream.
EnteredInPlace(n, len) ==
    [n EXCEPT !.stream = SubStream(@, n.startPos, len), !.startPos = 0]

\* n, with a sub-stream of len bytes.
Entered(n, len) ==
    [n EXCEPT !.stream = SubStream(@, n.startPos, len), !.streamOffset = @ + n.startPos,
              !.startPos = 0]

\* readUserType and the end of readSingle: the span is in the coordinates of
\* the enclosing stream, which is left after the struct, or, if the struct
\* takes the rest of it, where it was.
ReadStruct ==
    LET n == nodes[This]
        how == schema.size[This].how
        done(entered, to) == [entered EXCEPT !.state = "resolved", !.from = n.startPos, !.to = to] IN
    /\ Running("read") /\ SizeKnown
    /\ schema.kind[This] = "user"
    /\ \/ /\ how \in {"lit", "field"}
          /\ \/ /\ IsSeq(This) \/ CanRead(n.stream, n.startPos, SizeOf(This))
                /\ frames' = SubSeq(frames, 1, Len(frames) - 1)
                /\ nodes' = Build(done(Entered(n, SizeOf(This)), n.startPos + SizeOf(This)))
             \/ /\ ~(IsSeq(This) \/ CanRead(n.stream, n.startPos, SizeOf(This)))
                /\ Fail
       \/ /\ how = "eos"
          /\ frames' = SubSeq(frames, 1, Len(frames) - 1)
          /\ nodes' = Build(done(Entered(n, n.stream.size - n.startPos), n.startPos))
       \/ /\ how = "none" /\ StaticSize(This) >= 0
          /\ frames' = SubSeq(frames, 1, Len(frames) - 1)
          /\ nodes' = Build(done(n, n.startPos + StaticSize(This)))
       \/ /\ how = "none" /\ StaticSize(This) < 0
          /\ nodes' = Build(done(n, n.startPos))
          /\ Goto("walk")

\* fullyResolveUserType: the fields in turn; the struct ends where the last
\* of them leaves the stream.
Walk ==
    LET kids == Kids[This] IN
    /\ Running("walk")
    /\ \/ \E m \in NextUnread(This) : Call(m, "walk")
       \/ /\ Unread(This) = {}
          /\ Return([nodes[This] EXCEPT !.to = IF kids = <<>> THEN @ ELSE nodes[kids[Len(kids)]].to])

Resolve == \/ ResolveRoot \/ FindPosition \/ EnsureSiblings \/ EvaluateSize
           \/ ReadLeaf \/ ReadStruct \/ Walk \/ AwaitedFails

-----------------------------------------------------------------------------
(* Callers.  They come down from the root: a node is asked for after the   *)
(* struct it is in has been read.                                          *)

Access(n) ==
    /\ Idle
    /\ nodes[n].state = "unresolved"
    /\ n \notin {Root} \cup Parts[Root] => nodes[Parent[n]].state = "resolved"
    /\ frames' = <<Activation(n)>>
    /\ nodes' = Resolving(n)
    /\ UNCHANGED <<schema, reread, replaced>>

Existing(n) == {m \in Below[n] : nodes[m].state # "absent"}
Cleared(n) == [n EXCEPT !.state = "unresolved", !.startPos = -1, !.from = 0, !.to = 0,
                        !.value = <<>>]

\* The stream and its offset stay what the last reading made of them.
Invalidated(n) == [m \in Node |-> IF m \in Existing(n) THEN Cleared(nodes[m]) ELSE nodes[m]]

\* What reading gives a stream of its own.
OwnStream(n) == n # Root /\ (IF schema.kind[n] = "user" THEN schema.size[n].how # "none"
                             ELSE schema.kind[n] = "bytes" /\ ~IsSeq(n))

Bounded(n) == \A m \in Existing(n) : nodes[m].streamOffset <= MaxOffset

Invalidate(n) ==
    /\ Idle /\ Bounded(n)
    /\ nodes[n].state # "absent"
    /\ nodes' = Invalidated(n)
    /\ reread' = reread \cup {m \in Existing(n) : OwnStream(m) /\ nodes[m].state # "unresolved"}
    /\ UNCHANGED <<schema, frames, replaced>>

\* propagateStream compares the streams of the children with the stream that
\* the root has just been given, not with the one it had: none is equal.
SetStream(data) ==
    /\ Idle /\ Bounded(Root)
    /\ nodes' = [Invalidated(Root) EXCEPT ![Root].stream = Whole(data)]
    /\ schema' = [schema EXCEPT !.data = data]
    /\ replaced' = TRUE
    /\ UNCHANGED <<frames, reread>>

Init ==
    /\ schema \in Schemas
    /\ nodes = [n \in Node |-> IF n \in {Root} \cup Parts[Root]
                               THEN Fresh(Whole(schema.data), 0) ELSE Absent]
    /\ frames = <<>>
    /\ reread = {}
    /\ replaced = FALSE

Next ==
    \/ Resolve /\ UNCHANGED <<schema, reread, replaced>>
    \/ \E n \in Node : Access(n)
    \/ \E n \in Invalidatable : Invalidate(n)
    \/ \E data \in Inputs : SetStream(data)

Spec == Init /\ [][Next]_vars

-----------------------------------------------------------------------------
(* Properties.                                                             *)

\* The offset that translates the positions of a node to the root buffer is
\* where its stream begins there, for whatever windows the structs around it
\* were read from, however often and on whatever input: newStructNode gives
\* the fields of a struct the offset of its parent, and readUserType corrects
\* it for each of them.
OffsetIsOrigin == \A n \in Node : nodes[n].streamOffset = nodes[n].stream.base
=============================================================================
