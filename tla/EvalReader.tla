----------------------------- MODULE EvalReader -----------------------------
(***************************************************************************)
(* How the viewer reads a format (kaitai/eval): every field of the tree    *)
(* resolved, in order.  Each read starts where its predecessor ended; the  *)
(* stream's pending bits survive the repositioning between fields.         *)
(***************************************************************************)
EXTENDS CodecFormat

EvalProcessed(a, bytes) ==
  CASE a.process = "xor" -> Xored(bytes) [] a.process = "rol" -> Rotated(bytes, Rotation) [] OTHER -> bytes

\* stripBytes: without the terminator, padding is stripped, and the terminator
\* is the padding when none is given.
EvalStripped(a, bytes) == Stripped(a, bytes, IF a.pad >= 0 THEN a.pad ELSE a.term)

\* readBytes, readStringBytes.  An unset eos-error is an error.
EvalBytes(a, s) ==
  LET strip(bytes) == EvalStripped(a, bytes) IN
  CASE IsSized(a)    -> Map(ReadBytes(s, a.size), strip)
    [] a.eos         -> Map(ReadBytesFull(s), strip)
    [] Terminated(a) -> ReadBytesTerm(s, a.term, a.include, a.consume, a.eosError # "no")
    [] OTHER         -> Failed(s)

RECURSIVE EvalFields(_, _)

\* readUserType: the stream an object is read from, and what it leaves of its
\* parent's: past its size whatever its fields read, where it was for an object
\* that extends to the end, else after it.
ReadsRaw(a) == Terminated(a) \/ a.pad >= 0 \/ HasProcess(a)
Terminating(a, s) == ReadBytesTerm(s, a.term, a.include, a.consume, a.eosError # "no")
EvalObject(a, bytes, parent) == [Map(EvalFields(a.body, NewStream(bytes)), Object) EXCEPT !.s = parent]
EvalRaw(a, s) ==
  IF a.size > Remaining(s) THEN Failed(s)
  ELSE EvalObject(a, EvalProcessed(a, EvalStripped(a, Taken(s, a.size))), Seek(s, s.pos + a.size))
EvalUser(a, s) ==
  CASE IsSized(a) /\ ReadsRaw(a) -> EvalRaw(a, s)
    [] IsSized(a) /\ ~ReadsRaw(a) -> EvalObject(a, Taken(s, a.size), Seek(s, s.pos + a.size))
    [] ~IsSized(a) /\ Terminated(a) ->
         IF ~Terminating(a, s).ok THEN Failed(s)
         ELSE EvalObject(a, EvalProcessed(a, Terminating(a, s).v), Terminating(a, s).s)
    [] ~IsSized(a) /\ ~Terminated(a) /\ a.eos -> EvalObject(a, EndOf(s.pos, s.buf), s)
    [] OTHER -> Map(EvalFields(a.body, s), Object)

\* readSingle.
EvalSingle(a, s) ==
  LET int(bytes) == Item(Number(IntOf(a.type, bytes)))
      bits(n) == Item(Number(n))
      bytes(b) == Item(EvalProcessed(a, b))
  IN CASE a.type \in Ints -> Map(ReadBytes(s, ByteSize[a.type]), int)
       [] a.type = "Bits" -> Map(ReadBits(s, a.width, a.le), bits)
       [] a.type \in ByteTypes -> Map(EvalBytes(a, s), bytes)
       [] OTHER -> EvalUser(a, s)

\* readTypeSwitch and readRepeatedSwitch: a size applies to an object and to
\* what no case matches, which is read as bytes.  A field no case matches has no
\* value without those bytes, an element is an error.
EvalCase(a, on, s) ==
  CASE ~HasCase(a, on) -> IF IsSized(a) THEN Map(ReadBytes(s, a.size), Item) ELSE Failed(s)
    [] HasCase(a, on) /\ IsSized(a) /\ Chosen(a, on).type = "User" ->
         EvalRaw([a EXCEPT !.body = Chosen(a, on).body], s)
    [] OTHER -> EvalSingle(Chosen(a, on), s)

\* One element: repeat-expr and repeat-until seek before each, which drops the
\* bits pending; repeat-eos keeps them.
EvalElement(a, s, i) ==
  CASE a.type # "Switch" -> EvalSingle(a, IF a.repeat = "eos" THEN s ELSE AlignToByte(s))
    [] OTHER -> EvalCase(a, SwitchValue(a, i), AlignToByte(s))

\* resolveSeqField, readRepeated.
EvalField(a, s) ==
  LET element(t, i) == Map(EvalElement(a, t, i), Cell)
      aligned(r) == [r EXCEPT !.s = AlignToByte(r.s)]
  IN CASE ~Present(a) -> Got(s, <<>>)
       [] Present(a) /\ Repeats(a) -> aligned(ReadRepeated(a, s, element))
       [] Present(a) /\ ~Repeats(a) /\ a.type # "Switch" -> Map(EvalSingle(a, s), Cell)
       [] OTHER -> IF HasCase(a, a.on) \/ EvalCase(a, a.on, s).ok THEN Map(EvalCase(a, a.on, s), Cell) ELSE Got(s, <<>>)

\* handleBitTransition: bits pending after a bit field are dropped when another
\* type follows it.
AfterBits(attrs, i) == i > 1 /\ Present(attrs[i - 1]) /\ BitField(attrs[i - 1]) /\ attrs[i].type # "Bits"
EvalAt(attrs, i, s) == EvalField(attrs[i], IF Present(attrs[i]) /\ AfterBits(attrs, i) THEN AlignToByte(s) ELSE s)
EvalJoined(r, x) == [ok |-> x.ok, s |-> x.s, v |-> Append(r.v, x.v)]
EvalFields(attrs, s) ==
  FoldLeft(LAMBDA r, i : IF r.ok THEN EvalJoined(r, EvalAt(attrs, i, r.s)) ELSE r,
           Got(s, <<>>), [i \in DOMAIN attrs |-> i])
EvalRead(attrs, input) == EvalFields(attrs, NewStream(input))
=============================================================================
