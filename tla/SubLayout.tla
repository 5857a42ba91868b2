------------------------------ MODULE SubLayout ------------------------------
(***************************************************************************)
(* Where a schema puts its nodes in the root buffer, computed in absolute  *)
(* positions from the schema and the bytes alone, and what the nodes that  *)
(* SubStreams reads through windows have to agree with.                    *)
(***************************************************************************)
EXTENDS SubStreams, FiniteSets

HasSize(n) == schema.size[n].how # "none"
IsStruct(n) == n = Root \/ schema.kind[n] = "user"

(***************************************************************************)
(* A quantity of a node: its first byte and the number of its bytes; of    *)
(* _io of a struct, where it begins and ends, and where its bytes give     *)
(* out, since it may promise more than there is around it.  Measure says   *)
(* what a quantity is in the schema s, given those of the nodes, at.       *)
(***************************************************************************)
Quantity == {"begin", "extent", "ioBegin", "ioEnd", "limit"}

Measure(s, at, what, n) ==
    LET size == s.size[n]
        kids == Kids[n]
        end(m) == at[<<"begin", m>>] + at[<<"extent", m>>]
        first(m) == at[<<"begin", m>>]
        around(q) == at[<<q, Parent[n]>>]
        begin == IF n = Root THEN 0
                 ELSE IF ~IsSeq(n) THEN around("ioBegin") + s.pos[n]
                 ELSE IF SeqIndex(n) = 1 THEN around("begin") ELSE end(Pred(n))
        extent == CASE size.how = "lit" -> size.k
                    [] size.how = "field" ->
                         IF first(size.of) \in 0 .. Len(s.data) - 1
                         THEN s.data[first(size.of) + 1] ELSE 0
                    [] size.how = "eos" -> IF n = Root THEN 0 ELSE around("ioEnd") - first(n)
                    [] OTHER -> IF n # Root /\ s.kind[n] # "user" THEN 1
                                ELSE IF kids = <<>> THEN 0 ELSE end(kids[Len(kids)]) - first(n) IN
    CASE what = "begin" -> begin
      [] what = "extent" -> extent
      [] what = "ioBegin" ->
           IF n = Root THEN 0 ELSE IF size.how # "none" THEN first(n) ELSE around(what)
      [] what = "ioEnd" ->
           IF n = Root THEN Len(s.data) ELSE IF size.how # "none" THEN end(n) ELSE around(what)
      [] what = "limit" ->
           IF n = Root THEN Len(s.data)
           ELSE IF size.how # "none" THEN Smaller(end(n), around(what)) ELSE around(what)

Places(s) ==
    LET at[q \in Quantity \X Node] == Measure(s, at, q[1], q[2]) IN at

Begin(n) == Places(schema)[<<"begin", n>>]
Extent(n) == Places(schema)[<<"extent", n>>]
IoBegin(n) == Places(schema)[<<"ioBegin", n>>]
IoEnd(n) == Places(schema)[<<"ioEnd", n>>]
Limit(n) == Places(schema)[<<"limit", n>>]

(***************************************************************************)
(* Schemas whose sizes are known when they are needed: a size is that of a *)
(* byte in a struct around the node, which for a field is one before it,   *)
(* and a field that takes the rest of a stream is the last in it.          *)
(***************************************************************************)
\* The fields that are read before a field.
Before(a) == IF IsSeq(a) THEN {Kids[Parent[a]][k] : k \in 1 .. SeqIndex(a) - 1} ELSE {}

Readable(s) == \A n \in Field :
    LET size == s.size[n]
        p == Parent[n] IN
    /\ s.kind[n] = "u1" => size.how = "none"
    /\ s.kind[n] = "bytes" => size.how \in {"lit", "field"}
    /\ size.how = "field" =>
         /\ IsSeq(size.of) /\ s.kind[size.of] = "u1"
         /\ n \in Below[Parent[size.of]] \ {Parent[size.of]}
         /\ IsSeq(n) => \E a \in Field : n \in Below[a] /\ size.of \in Before(a)
    /\ size.how = "eos" /\ IsSeq(n) =>
         SeqIndex(n) = Len(Kids[p]) /\ (p = Root \/ s.size[p].how # "none")

ASSUME TreeIsFinite ==
    /\ IsFiniteSet(Field) /\ Below[Root] = Node
    /\ \A n \in Node : /\ \A j, k \in DOMAIN Kids[n] : Kids[n][j] = Kids[n][k] => j = k
                       /\ Range(Kids[n]) \cap Insts[n] = {}
                       /\ \A m \in Node : m # n => Parts[m] \cap Parts[n] = {}
ASSUME SchemasAreReadable == \A s \in Schemas : Readable(s)

\* ComputeStructSizeStatic counts a user type that is declared inside as its fields,
\* whatever the size it is given, so that the span of the struct around it is wrong:
\* of schemas with such a field nothing is claimed.
Counted ==
    schema.nested =>
      \A n \in Field : IsSeq(n) /\ Parent[n] # Root /\ schema.kind[n] = "user" => ~HasSize(n)

\* What has to be there when n is read: the bytes of a field, and those of a
\* sized instance of a user type, which are copied.
Fits(n) ==
    (~IsStruct(n) \/ (~IsSeq(n) /\ n # Root /\ schema.size[n].how \in {"lit", "field"}))
        => Extent(n) = 0 \/ Begin(n) + Extent(n) <= Limit(Parent[n])

\* The nodes there can be: all that is around them is a struct.
Described(n) == \A a \in Node : n \in Below[a] /\ a # n => IsStruct(a)

\* n begins where the schema puts it only if nothing has failed before it, or
\* before the byte that holds the size of what is around it: the field after a
\* failed one starts where that one gave up, and keeps what it read there when
\* that one is invalidated.
Needs(a) == Before(a) \cup (IF schema.size[a].how = "field" THEN Before(schema.size[a].of) ELSE {})
Orderly(n) ==
    \A a \in Field : n \in Below[a] => \A k \in Needs(a) : nodes[k].state = "resolved"

\* A node that is invalidated after it has moved to a stream of its own keeps that
\* stream, and the next reading cuts the window out of it instead of out of the
\* stream around it; after SetStream what is below the root keeps its stream.
Undisturbed(n) == ~replaced /\ \A m \in reread : n \notin Below[m]
Read(n) == nodes[n].state = "resolved" /\ Orderly(n)

AsDescribed(n) ==
    /\ Read(n) /\ ~IsStruct(n) =>
         /\ Fits(n)
         /\ nodes[n].value = SubSeq(schema.data, Begin(n) + 1, Begin(n) + Extent(n))
    /\ nodes[n].state = "error" => \E m \in Node : Described(m) /\ ~Fits(m)
InPlace(n) == ByteRange(n) = <<Begin(n), Begin(n) + Extent(n)>>

-----------------------------------------------------------------------------

\* Through any nesting of windows, in any order of accesses, and after any part
\* of the tree was invalidated, a field has the bytes the schema describes and
\* they lie within every struct around it; and nothing fails if everything
\* fits (readUserType, resolveInstance, readBytes).
ReadsAsDescribed ==
    Idle /\ Counted => \A n \in Node : Undisturbed(n) => AsDescribed(n)

\* ByteRange gives the bytes of the node in the root buffer, however deep the
\* windows are nested, for all but the user types that have a window of their
\* own: their span stays in the coordinates of the stream around them while
\* streamOffset has moved into the window, so that a struct of n bytes at p is
\* said to be at [2p, 2p + n) (readtypes.go:241, :487, :621).
RangesInBuffer ==
    Idle /\ Counted => \A n \in Field :
        Read(n) /\ Undisturbed(n) /\ ~(IsStruct(n) /\ HasSize(n)) => InPlace(n)
=============================================================================
