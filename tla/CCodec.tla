------------------------------- MODULE CCodec -------------------------------
(***************************************************************************)
(* The _read and _write functions the C emitter writes for a format.  The  *)
(* bytes of a sized object, or of sized bytes that are stripped, are kept  *)
(* beside it (_raw_), and of every run of bit fields whose width is known  *)
(* the bits that complete its last byte.                                   *)
(***************************************************************************)
EXTENDS CodecFormat

\* emitProcess, emitUnprocess.
CProcessed(a, bytes) ==
  CASE a.process = "xor" -> Xored(bytes) [] a.process = "rol" -> Rotated(bytes, Rotation) [] OTHER -> bytes
CUnprocessed(a, bytes) ==
  CASE a.process = "xor" -> Xored(bytes) [] a.process = "rol" -> RotatedBack(bytes, Rotation) [] OTHER -> bytes

\* emitStripBytes, zb_read_bytes_pad_term.
Strips(a) == Terminated(a) \/ a.pad >= 0
CStripped(a, bytes) == Stripped(a, bytes, a.pad)
Shadowed(kept, bytes) == IF kept THEN << bytes >> ELSE <<>>
Shadow(item) == IF item.raw = <<>> THEN <<>> ELSE item.raw[1]

\* emitBytesReadWithAttr, and emitBytesReadIntoRaw of an element: a string that
\* is not repeated looks at its terminator before size-eos, and only bytes that
\* are not repeated are stripped to the end of the stream.
ToTerminator(a) == Terminated(a) /\ (~a.eos \/ (a.type = "String" /\ ~Repeats(a)))
CSizedItem(a, full) == [Item(CProcessed(a, CStripped(a, full))) EXCEPT !.raw = Shadowed(Strips(a), full)]
CBytes(a, s) ==
  CASE IsSized(a) -> Map(ReadBytes(s, a.size), LAMBDA full : CSizedItem(a, full))
    [] ~IsSized(a) /\ ToTerminator(a) ->
         Map(ReadBytesTerm(s, a.term, a.include, a.consume, a.eosError # "no"),
             LAMBDA bytes : Item(CProcessed(a, bytes)))
    [] OTHER -> Map(ReadBytesFull(s), LAMBDA bytes : Item(CProcessed(a, IF Repeats(a) THEN bytes ELSE CStripped(a, bytes))))

\* emitSingleRead and emitRepeatBodyRead of an object: the bytes it is read from
\* and the ones kept.  A repeated object is read up to its terminator whatever its
\* size, and neither stripped nor, then, processed.
CUntil(a, s) ==
  Map(ReadBytesTerm(s, a.term, a.include, a.consume, a.eosError = "yes"),
      LAMBDA bytes : [data |-> IF Repeats(a) THEN bytes ELSE CProcessed(a, bytes), raw |-> <<>>])
CSized(a, full) ==
  [data |-> CProcessed(a, IF Repeats(a) THEN full ELSE CStripped(a, full)),
   raw |-> Shadowed(Repeats(a) \/ Strips(a) \/ ~HasProcess(a), full)]
CSubstream(a, s) ==
  CASE Terminated(a) /\ (Repeats(a) \/ ~IsSized(a)) -> CUntil(a, s)
    [] IsSized(a) /\ ~(Terminated(a) /\ Repeats(a)) -> Map(ReadBytes(s, a.size), LAMBDA full : CSized(a, full))
    [] OTHER -> Map(ReadBytesFull(s), LAMBDA full : [data |-> full, raw |-> <<>>])
CReadsDirectly(a) == ~IsSized(a) /\ ~Terminated(a) /\ (~a.eos \/ Repeats(a))

RECURSIVE CFields(_, _)
CObject(r) == Map(r, LAMBDA cells : [Object(cells) EXCEPT !.aligns = r.aligns])
CObjectIn(a, sub, parent) ==
  [Map(CObject(CFields(a.body, NewStream(sub.data))), LAMBDA item : [item EXCEPT !.raw = sub.raw]) EXCEPT !.s = parent]
CUser(a, s) ==
  IF CReadsDirectly(a) THEN CObject(CFields(a.body, s))
  ELSE IF CSubstream(a, s).ok THEN CObjectIn(a, CSubstream(a, s).v, CSubstream(a, s).s) ELSE Failed(s)
CSingle(a, s) ==
  CASE a.type \in Ints -> Map(ReadBytes(s, ByteSize[a.type]), LAMBDA bytes : Item(Number(IntOf(a.type, bytes))))
    [] a.type = "Bits" -> Map(ReadBits(s, a.width, a.le), LAMBDA n : Item(Number(n)))
    [] a.type \in ByteTypes -> CBytes(a, s)
    [] OTHER -> CUser(a, s)

\* emitTypeSwitchRead: cases of one type are read without looking at the value,
\* integers as the case's; else the case is read from the bytes a size gives, and
\* those bytes are the value if there is no case.
SameType(r, t) == r.type = t.type /\ r.body = t.body
UniformCases(a) == \A i \in DOMAIN a.cases : SameType(a.cases[i].ref, a.cases[1].ref)
IntegerCases(a) == \A i \in DOMAIN a.cases : a.cases[i].ref.type \in Ints
AsUniform(a) == [a EXCEPT !.type = a.cases[1].ref.type, !.body = a.cases[1].ref.body]
CCase(a, on, s) == IF HasCase(a, on) THEN Map(CSingle(Chosen(a, on), s), Cell) ELSE Got(s, <<>>)
CCaseIn(a, on, full, parent) ==
  [Map(CCase(a, on, NewStream(full)), LAMBDA cell : IF cell = <<>> THEN Cell(Item(full)) ELSE cell) EXCEPT !.s = parent]

\* Faulty variant: the stream is left after what the case read, not after its size.
CSizedCaseOnly(a, on, s) ==
  IF a.size > Remaining(s) THEN Failed(s)
  ELSE CCaseIn(a, on, Taken(s, a.size), Seek(s, s.pos + CCase(a, on, NewStream(Taken(s, a.size))).s.pos))
CSizedCase(a, on, s) ==
  IF a.size > Remaining(s) THEN Failed(s) ELSE CCaseIn(a, on, Taken(s, a.size), Seek(s, s.pos + a.size))
KeptRaw(r, full) == Map(r, LAMBDA cell : Cell([cell[1] EXCEPT !.raw = << full >>]))
CSwitch(a, s) ==
  CASE UniformCases(a) -> Map(CSingle(AsUniform(a), s), LAMBDA item : Cell([item EXCEPT !.raw = <<>>]))
    [] ~UniformCases(a) /\ IsSized(a) /\ ~IntegerCases(a) -> KeptRaw(CSizedCase(a, a.on, s), Taken(s, a.size))
    [] OTHER -> CCase(a, a.on, s)

\* emitRepeatTypeSwitchRead: an element no case matches is null without a size.
Null == Item(<<>>)
CElement(a, s, i) ==
  CASE a.type # "Switch" -> Map(CSingle(a, s), Cell)
    [] a.type = "Switch" /\ IsSized(a) -> CSizedCase(a, SwitchValue(a, i), s)
    [] OTHER -> Map(CCase(a, SwitchValue(a, i), s), LAMBDA cell : IF cell = <<>> THEN Cell(Null) ELSE cell)

\* emitAttrRead: contents: and valid: look at every value; the loop of a repeated
\* contents: until is left after one.
Contents(a) == a.type = "Bytes" /\ a.must # <<>>
Valid(a, r) == Map([r EXCEPT !.ok = r.ok /\ (a.must # <<>> => \A j \in DOMAIN r.v : r.v[j].v = a.must[1])], LAMBDA cell : cell)
CRead1(a, s) ==
  CASE ~Repeats(a) -> IF a.type = "Switch" THEN CSwitch(a, s) ELSE Map(CSingle(a, s), Cell)
    [] Contents(a) /\ a.repeat = "until" -> Map(CSingle(a, s), Cell)
    [] OTHER -> ReadRepeated(a, s, LAMBDA t, i : CElement(a, t, i))
CField(a, s) == IF Present(a) THEN Valid(a, CRead1(a, s)) ELSE Got(s, <<>>)

\* BitAlignSlots: the bits completing the last byte of a run of bit fields, none
\* if one of them is conditional or repeated.  alignReadEndian: its last order.
BitRun(attrs, i) == { j \in 1 .. i : \A k \in j .. i : attrs[k].type = "Bits" }
StaticWidth(a) == a.when = "always" /\ ~Repeats(a)
SlotWidth(attrs, i) ==
  IF (i < Len(attrs) /\ attrs[i + 1].type = "Bits") \/ \E j \in BitRun(attrs, i) : ~StaticWidth(attrs[j]) THEN 0
  ELSE (0 - MapThenSumSet(LAMBDA j : attrs[j].width, BitRun(attrs, i))) % ByteBits
CSlotRead(r, x) == [ok |-> x.ok, s |-> x.s, v |-> r.v, aligns |-> Append(r.aligns, x.v)]
CSlot(attrs, i, r) ==
  IF r.ok /\ SlotWidth(attrs, i) > 0 THEN CSlotRead(r, ReadBits(r.s, SlotWidth(attrs, i), attrs[i].le)) ELSE r
CJoined(r, x) == [ok |-> x.ok, s |-> x.s, v |-> Append(r.v, x.v), aligns |-> r.aligns]

\* emitReadFunc.
CFields(attrs, s) ==
  FoldLeft(LAMBDA r, i : IF r.ok THEN CSlot(attrs, i, CJoined(r, CField(attrs[i], r.s))) ELSE r,
           [ok |-> TRUE, s |-> s, v |-> <<>>, aligns |-> <<>>], [i \in DOMAIN attrs |-> i])
CRead(attrs, input) == CFields(attrs, NewStream(input))

----------------------------------------------------------------------------
\* A value in its size: what it leaves is taken from the bytes kept, after a
\* terminator if it is marked, and padded.
CutTo(bytes, n) == SubSeq(bytes, 1, IF n < Len(bytes) THEN n ELSE Len(bytes))
Mark(a, marks) == IF marks /\ Terminated(a) /\ ~a.include THEN << a.term >> ELSE <<>>
Marked(a, w) == IF a.consume /\ ~a.include THEN WriteBytes(w, << a.term >>) ELSE w

\* Faulty variant: what was kept behind the value is padded over.
FilledByPadding(a, front, shadow) == CutTo(front \o [i \in 1 .. a.size |-> IF a.pad < 0 THEN 0 ELSE a.pad], a.size)
Filled(a, front, shadow) ==
  CutTo(front \o EndOf(Len(front), shadow) \o [i \in 1 .. a.size |-> IF a.pad < 0 THEN 0 ELSE a.pad], a.size)
InSize(a, v, shadow, marks) == Filled(a, CutTo(v, a.size) \o Mark(a, marks), shadow)
Short(a, shadow) == Len(shadow) < a.size

\* emitBytesWrite.
CWriteBytes(a, v, shadow, w) ==
  CASE IsSized(a) /\ Strips(a) -> WriteBytes(w, InSize(a, v, shadow, Short(a, shadow)))
    [] ~IsSized(a) /\ Terminated(a) -> Marked(a, WriteBytes(w, v))
    [] OTHER -> WriteBytes(w, v)

\* emitSingleWrite and emitRepeatWrite of an object; its writer's bytes are those
\* completed, without bits still pending.
RECURSIVE CWriteFields(_, _, _)
CSerialized(a, item) == CWriteFields(a.body, item, NewWriter).out
CWriteUser(a, item, w) ==
  CASE IsSized(a) /\ HasProcess(a) /\ ~Strips(a) /\ ~Repeats(a) -> WriteBytes(w, CUnprocessed(a, CSerialized(a, item)))
    [] IsSized(a) /\ (~HasProcess(a) \/ Strips(a) \/ Repeats(a)) ->
         WriteBytes(w, InSize(a, CUnprocessed(a, CSerialized(a, item)), Shadow(item), ~Repeats(a) \/ Short(a, Shadow(item))))
    [] ~IsSized(a) /\ Terminated(a) /\ HasProcess(a) /\ ~Repeats(a) ->
         Marked(a, WriteBytes(w, CUnprocessed(a, CSerialized(a, item))))
    [] ~IsSized(a) /\ Terminated(a) /\ (~HasProcess(a) \/ Repeats(a)) ->
         Marked(a, CWriteFields(a.body, item, w))
    [] OTHER -> CWriteFields(a.body, item, w)
CWriteSingle(a, item, w) ==
  CASE Contents(a) -> WriteBytes(w, a.must[1])
    [] a.type \in Ints -> WriteBytes(w, IntBytes(a.type, item.v[1]))
    [] a.type = "Bits" -> WriteBits(w, a.width, item.v[1], a.le)
    [] a.type \in ByteTypes /\ ~Contents(a) -> CWriteBytes(a, CUnprocessed(a, item.v), Shadow(item), w)
    [] OTHER -> CWriteUser(a, item, w)

\* emitTypeSwitchWrite, emitRepeatTypeSwitchWrite: cases of one type lose their
\* size; bytes kept are written as they are, bytes no case matched within the size.
CWriteCase(a, item, on, w) ==
  CASE HasCase(a, on) -> CWriteSingle(Chosen(a, on), item, w)
    [] ~HasCase(a, on) /\ IsSized(a) -> WriteBytesLimit(w, item.v, a.size, -1, -1)
    [] OTHER -> WriteBytes(w, item.v)
CWriteSwitch(a, item, i, w) ==
  CASE ~Repeats(a) /\ UniformCases(a) -> CWriteSingle([AsUniform(a) EXCEPT !.size = -1], item, w)
    [] ~Repeats(a) /\ ~UniformCases(a) /\ item.raw # <<>> -> WriteBytes(w, item.raw[1])
    [] OTHER -> IF item = Null THEN w ELSE CWriteCase(a, item, SwitchValue(a, i), w)
CWriteElement(a, item, i, w) ==
  IF a.type = "Switch" THEN CWriteSwitch(a, item, i, w) ELSE CWriteSingle(a, item, w)

\* emitAttrWrite, emitWriteFunc.
CWriteAttr(a, cell, w) ==
  FoldLeft(LAMBDA acc, j : CWriteElement(a, cell[j], j - 1, acc), w, [j \in DOMAIN cell |-> j])
SlotIndex(attrs, i) == Cardinality({ j \in 1 .. i : SlotWidth(attrs, j) > 0 })
CWriteSlot(attrs, i, aligns, w) ==
  IF SlotWidth(attrs, i) = 0 THEN w
  ELSE WriteBits(w, SlotWidth(attrs, i), aligns[SlotIndex(attrs, i)], attrs[i].le)
CWriteFields(attrs, object, w) ==
  FoldLeft(LAMBDA acc, i : CWriteSlot(attrs, i, object.aligns, CWriteAttr(attrs[i], object.v[i], acc)),
           w, [i \in DOMAIN attrs |-> i])
CWrite(attrs, object) == CWriteFields(attrs, object, NewWriter).out
=============================================================================
