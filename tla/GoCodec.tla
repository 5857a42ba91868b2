------------------------------ MODULE GoCodec ------------------------------
(***************************************************************************)
(* The Read and Write methods the Go emitter writes for a format.  To      *)
(* write back the bytes it read, Read keeps beside an item what its value  *)
(* lost: _raw_ the bytes before processing or under an object, _raw_tail_  *)
(* the bytes stripped after a terminator or as padding, and of every run   *)
(* of bit fields the bits that complete its last byte.                     *)
(***************************************************************************)
EXTENDS CodecFormat

\* emitProcess, emitUnprocess.
GoProcessed(a, bytes) ==
  CASE a.process = "xor" -> Xored(bytes) [] a.process = "rol" -> Rotated(bytes, Rotation) [] OTHER -> bytes
GoUnprocessed(a, bytes) ==
  CASE a.process = "xor" -> Xored(bytes) [] a.process = "rol" -> RotatedBack(bytes, Rotation) [] OTHER -> bytes

\* A slice kept, and one copied by append, which leaves an empty one nil.
Kept(bytes) == << bytes >>
Copied(bytes) == IF bytes = <<>> THEN <<>> ELSE << bytes >>
Slice(kept) == IF kept = <<>> THEN <<>> ELSE kept[1]

\* fieldNeedsRawTail: bytes of a known extent that are stripped.
NeedsRawTail(a) == a.type \in ByteTypes /\ (IsSized(a) \/ a.eos) /\ (Terminated(a) \/ a.pad >= 0)

\* What is left of the bytes after the value: nil without terminator and padding.
TailAfter(a, full) ==
  IF Terminated(a) /\ Holds(full, a.term) THEN Kept(EndOf(FirstAt(full, a.term), full))
  ELSE IF a.pad >= 0 THEN Kept(EndOf(Len(StripRight(full, a.pad)), full)) ELSE <<>>

\* What the compiler takes: the bytes kept beside the elements of a repeated object
\* are a list where its reader and writer mean one.
GoBuilds(a) ==
  a.type = "User" /\ Repeats(a) =>
    IF IsSized(a) THEN ~Terminated(a) /\ a.pad < 0 ELSE a.eos \/ ~Terminated(a) \/ ~HasProcess(a)

\* readCallRefOn: a value by its type.  A string looks at size-eos first.
GoReadCall(a, s) ==
  CASE IsSized(a) /\ ~(a.type = "String" /\ a.eos) -> ReadBytes(s, a.size)
    [] ~IsSized(a) /\ ~a.eos /\ Terminated(a) -> ReadBytesTerm(s, a.term, a.include, a.consume, a.eosError # "no")
    [] OTHER -> ReadBytesFull(s)

\* emitAttrRead of bytes, and emitRepeatRawTailRead.  The elements of a
\* repeat-until are not processed, those of a repeat-expr not kept raw.
GoRawTailItem(a, full) ==
  [Item(GoProcessed(a, Stripped(a, full, a.pad))) EXCEPT
     !.tail = TailAfter(a, full),
     !.raw = IF ~HasProcess(a) THEN <<>> ELSE IF Repeats(a) THEN Kept(full) ELSE Copied(full)]
GoBytesItem(a, bytes) ==
  [Item(IF a.repeat = "until" THEN bytes ELSE GoProcessed(a, bytes)) EXCEPT
     !.raw = CASE ~HasProcess(a) \/ a.repeat \in {"expr", "until"} -> <<>>
               [] HasProcess(a) /\ a.repeat = "eos" -> Kept(bytes)
               [] OTHER -> Copied(bytes)]
GoBytes(a, s) ==
  IF NeedsRawTail(a)
  THEN Map(IF a.eos THEN ReadBytesFull(s) ELSE ReadBytes(s, a.size), LAMBDA full : GoRawTailItem(a, full))
  ELSE Map(GoReadCall(a, s), LAMBDA bytes : GoBytesItem(a, bytes))

\* emitUserTypeRead: the bytes an object is read from and what is kept of them.
\* An unset eos-error is none.

\* Faulty variant: a sized object's bytes are processed before they are stripped.
GoSizedProcessedFirst(a, full) ==
  [data |-> Stripped(a, GoProcessed(a, full), a.pad), raw |-> Kept(full), tail |-> TailAfter(a, full)]
GoSized(a, full) ==
  CASE a.pad >= 0 /\ ~Terminated(a) ->
         [data |-> GoProcessed(a, StripRight(full, a.pad)), raw |-> Kept(full), tail |-> TailAfter(a, full)]
    [] Terminated(a) ->
         [data |-> GoProcessed(a, Stripped(a, full, -1)), raw |-> IF HasProcess(a) THEN Copied(full) ELSE <<>>,
          tail |-> IF Holds(full, a.term) THEN TailAfter(a, full) ELSE <<>>]
    [] OTHER -> [data |-> GoProcessed(a, full), raw |-> Kept(full), tail |-> <<>>]
GoEnded(a, bytes) ==
  [data |-> GoProcessed(a, bytes), raw |-> IF HasProcess(a) THEN Copied(bytes) ELSE <<>>, tail |-> <<>>]
GoSubstream(a, s) ==
  CASE IsSized(a) -> Map(ReadBytes(s, a.size), LAMBDA full : GoSized(a, full))
    [] ~IsSized(a) /\ a.eos -> Map(ReadBytesFull(s), LAMBDA full : [data |-> full, raw |-> <<>>, tail |-> <<>>])
    [] OTHER -> Map(ReadBytesTerm(s, a.term, a.include, a.consume, a.eosError = "yes"),
                    LAMBDA bytes : GoEnded(a, bytes))

RECURSIVE GoFields(_, _)
GoObject(r) == Map(r, LAMBDA cells : [Object(cells) EXCEPT !.aligns = r.aligns])
GoObjectIn(a, sub, parent) ==
  [Map(GoObject(GoFields(a.body, NewStream(sub.data))),
       LAMBDA item : [item EXCEPT !.raw = sub.raw, !.tail = sub.tail]) EXCEPT !.s = parent]
GoUser(a, s) ==
  IF ~IsSized(a) /\ ~a.eos /\ ~Terminated(a) THEN GoObject(GoFields(a.body, s))
  ELSE IF GoSubstream(a, s).ok THEN GoObjectIn(a, GoSubstream(a, s).v, GoSubstream(a, s).s) ELSE Failed(s)

\* One value.
GoSingle(a, s) ==
  CASE a.type \in Ints -> Map(ReadBytes(s, ByteSize[a.type]), LAMBDA bytes : Item(Number(IntOf(a.type, bytes))))
    [] a.type = "Bits" -> Map(ReadBits(s, a.width, a.le), LAMBDA n : Item(Number(n)))
    [] a.type \in ByteTypes -> GoBytes(a, s)
    [] OTHER -> GoUser(a, s)

\* emitTypeSwitchRead: the case's value.  With no case a field is left as it was,
\* unless the switch has a size: then it holds those bytes.  The bytes a size
\* gives a switch are kept raw.
GoCase(a, on, s) ==
  CASE HasCase(a, on) -> Map(GoSingle(Chosen(a, on), s), Cell)
    [] ~HasCase(a, on) /\ (IsSized(a) \/ a.eos) -> Map(ReadBytesFull(s), LAMBDA bytes : Cell(Item(bytes)))
    [] OTHER -> Got(s, <<>>)
GoCaseIn(a, on, full, parent) ==
  [Map(GoCase(a, on, NewStream(full)),
       LAMBDA cell : [j \in DOMAIN cell |-> [cell[j] EXCEPT !.raw = Kept(full)]]) EXCEPT !.s = parent]
GoSwitch(a, s, i) ==
  IF ~IsSized(a) THEN GoCase(a, SwitchValue(a, i), s)
  ELSE IF a.size > Remaining(s) THEN Failed(s)
  ELSE GoCaseIn(a, SwitchValue(a, i), Taken(s, a.size), Seek(s, s.pos + a.size))
GoElement(a, s, i) == IF a.type = "Switch" THEN GoSwitch(a, s, i) ELSE Map(GoSingle(a, s), Cell)

\* emitAttrRead.  A repeat-until of a type switch reads nothing, and contents: or
\* valid: looks at the last element, of which there must be one.
GoRead1(a, s) ==
  CASE ~Repeats(a) -> GoElement(a, s, 0)
    [] a.repeat = "until" /\ a.type = "Switch" -> Got(s, <<>>)
    [] OTHER -> ReadRepeated(a, s, LAMBDA t, i : GoElement(a, t, i))
Required(a, r) == [r EXCEPT !.ok = r.ok /\ (a.must # <<>> => r.v # <<>> /\ Last(r.v).v = a.must[1])]
GoField(a, s) == IF Present(a) THEN Required(a, GoRead1(a, s)) ELSE Got(s, <<>>)

\* emitReadFunc: a run of bit fields ends in the bits that complete its last
\* byte, counted from the widths the format gives, whatever was read.  A failure
\* to read them is ignored.
Run(attrs, i) == { j \in 1 .. i : \A k \in j .. i : attrs[k].type = "Bits" }
RunBits(attrs, i) == MapThenSumSet(LAMBDA j : attrs[j].width, Run(attrs, i))
EndsRun(attrs, i) == attrs[i].type = "Bits" /\ (i = Len(attrs) \/ attrs[i + 1].type # "Bits")
GoPadBits(attrs, i) == (0 - RunBits(attrs, i)) % ByteBits
GoAligned(r, x, pad) ==
  IF pad = 0 THEN [r EXCEPT !.s = AlignToByte(r.s)]
  ELSE [r EXCEPT !.s = x.s, !.aligns = Append(r.aligns, IF x.ok THEN x.v ELSE 0)]
GoRunEnd(attrs, i, r) ==
  IF r.ok /\ EndsRun(attrs, i)
  THEN GoAligned(r, ReadBits(r.s, GoPadBits(attrs, i), attrs[i].metaLe), GoPadBits(attrs, i)) ELSE r
GoJoined(r, x) == [ok |-> x.ok, s |-> x.s, v |-> Append(r.v, x.v), aligns |-> r.aligns]
GoFields(attrs, s) ==
  FoldLeft(LAMBDA r, i : IF r.ok THEN GoRunEnd(attrs, i, GoJoined(r, GoField(attrs[i], r.s))) ELSE r,
           [ok |-> TRUE, s |-> s, v |-> <<>>, aligns |-> <<>>], [i \in DOMAIN attrs |-> i])
GoRead(attrs, input) == GoFields(attrs, NewStream(input))

----------------------------------------------------------------------------
\* writeCallRefOn.
GoWriteBytesCall(a, v, w) ==
  CASE IsSized(a) /\ (Terminated(a) \/ a.pad >= 0) ->
         WriteBytesLimit(w, v, a.size, IF a.include THEN -1 ELSE a.term, a.pad)
    [] ~IsSized(a) /\ Terminated(a) /\ ~a.include /\ a.consume -> WriteBytes(w, Append(v, a.term))
    [] OTHER -> WriteBytes(w, v)
\* A repeated field of one bit is written in big-endian order.
GoWriteCall(a, item, w) ==
  CASE a.type \in Ints -> WriteBytes(w, IntBytes(a.type, item.v[1]))
    [] a.type = "Bits" -> WriteBits(w, a.width, item.v[1], a.le /\ ~(Repeats(a) /\ a.width = 1))
    [] OTHER -> GoWriteBytesCall(a, item.v, w)

\* writePrimitive: a stripped value, its terminator unless both the value and
\* the tail are empty, and the tail.

\* Faulty variant: an empty value is written without its terminator.
WithTailOfValue(a, item) ==
  item.v \o (IF Terminated(a) /\ ~a.include /\ item.v # <<>> THEN << a.term >> ELSE <<>>) \o Slice(item.tail)
WithTail(a, item) ==
  item.v \o (IF Terminated(a) /\ ~a.include /\ (item.v # <<>> \/ Slice(item.tail) # <<>>) THEN << a.term >> ELSE <<>>)
         \o Slice(item.tail)
GoWritePrimitive(a, item, w) ==
  CASE NeedsRawTail(a) /\ (Repeats(a) \/ ~HasProcess(a)) -> WriteBytes(w, WithTail(a, item))
    [] HasProcess(a) /\ a.type \in ByteTypes /\ (NeedsRawTail(a) => ~Repeats(a)) ->
         WriteBytes(w, IF item.raw # <<>> THEN item.raw[1] ELSE GoUnprocessed(a, item.v))
    [] OTHER -> GoWriteCall(a, item, w)

\* writeUserTypeSingle: the object over the bytes it was read from, what was
\* stripped after it, and zeros up to its size.
RECURSIVE GoWriteFields(_, _, _)
Serialized(a, item) == Written(GoWriteFields(a.body, item, NewWriter))
Overlaid(raw, bytes) == [i \in DOMAIN raw |-> IF i <= Len(bytes) THEN bytes[i] ELSE raw[i]]
GoRawOf(a, item) ==
  IF Slice(item.raw) = <<>> THEN GoUnprocessed(a, Serialized(a, item))
  ELSE IF HasProcess(a) THEN item.raw[1] ELSE Overlaid(item.raw[1], Serialized(a, item))
GoTailOf(a, item) ==
  IF item.tail = <<>> THEN <<>> ELSE (IF Terminated(a) /\ ~a.include THEN << a.term >> ELSE <<>>) \o item.tail[1]
GoWriteUser(a, item, w) ==
  CASE IsSized(a) -> WriteBytesLimit(w, GoRawOf(a, item) \o GoTailOf(a, item), a.size, -1, -1)
    [] ~IsSized(a) /\ a.eos -> WriteBytes(w, GoUnprocessed(a, Serialized(a, item)))
    [] ~IsSized(a) /\ ~a.eos /\ Terminated(a) ->
         WriteBytes(w, (IF item.raw # <<>> THEN item.raw[1] ELSE GoUnprocessed(a, Serialized(a, item)))
                         \o (IF a.consume /\ ~a.include THEN << a.term >> ELSE <<>>))
    [] OTHER -> GoWriteFields(a.body, item, w)
GoWriteSingle(a, item, w) == IF a.type = "User" THEN GoWriteUser(a, item, w) ELSE GoWritePrimitive(a, item, w)

\* emitTypeSwitchWrite: the raw bytes of a switch with a size, or the value as
\* its case's type; bytes no case matched as they are.
GoWriteSwitch(a, item, i, w) ==
  CASE IsSized(a) /\ item.raw # <<>> -> WriteBytes(w, item.raw[1])
    [] ~(IsSized(a) /\ item.raw # <<>>) /\ HasCase(a, SwitchValue(a, i)) ->
         GoWriteSingle(Chosen(a, SwitchValue(a, i)), item, w)
    [] OTHER -> WriteBytes(w, item.v)
GoWriteElement(a, item, i, w) ==
  IF a.type = "Switch" THEN GoWriteSwitch(a, item, i, w) ELSE GoWriteSingle(a, item, w)
GoWriteAttr(a, cell, w) ==
  FoldLeft(LAMBDA acc, j : GoWriteElement(a, cell[j], j - 1, acc), w, [j \in DOMAIN cell |-> j])

\* emitWriteFunc: after a run of bit fields the bits kept of its last byte.
AlignIndex(attrs, i) == Cardinality({ j \in 1 .. i : EndsRun(attrs, j) /\ GoPadBits(attrs, j) > 0 })
GoWriteRunEnd(attrs, i, aligns, w) ==
  IF ~EndsRun(attrs, i) THEN w
  ELSE IF GoPadBits(attrs, i) = 0 THEN WriterAlign(w)
  ELSE WriteBits(w, GoPadBits(attrs, i), aligns[AlignIndex(attrs, i)], attrs[i].le)
GoWriteFields(attrs, object, w) ==
  FoldLeft(LAMBDA acc, i : GoWriteRunEnd(attrs, i, object.aligns, GoWriteAttr(attrs[i], object.v[i], acc)),
           w, [i \in DOMAIN attrs |-> i])
GoWrite(attrs, object) == Written(GoWriteFields(attrs, object, NewWriter))
=============================================================================
