---------------------------- MODULE CodecFormat ----------------------------
(***************************************************************************)
(* The attributes of a format's seq as the viewer and both emitters see    *)
(* them, and what their readers share.  A format is a sequence of          *)
(* attributes, an object one cell per attribute, a cell one item per value *)
(* read: none of a skipped attribute, one of a plain one.                  *)
(***************************************************************************)
EXTENDS ByteStream, Bitwise

CONSTANTS XorKey,      \* the key of the xor processing, a byte
          Rotation     \* the bits rol rotates by
ASSUME ProcessAssumption == XorKey \in 0 .. 2^ByteBits - 1 /\ Rotation \in 0 .. ByteBits - 1

\* An attribute, all keys at their defaults.  -1 is a size, a terminator or a
\* padding not given; sizes, counts and conditions are values here.
Attr0 == [type |-> "U1", width |-> 0, le |-> FALSE, metaLe |-> FALSE,   \* bits: their number, their order, the format's
          size |-> -1, eos |-> FALSE,                                   \* size:, size-eos:
          term |-> -1, include |-> FALSE, consume |-> TRUE, eosError |-> "unset", pad |-> -1,
          process |-> "none", when |-> "always", must |-> <<>>,         \* if:, and valid:, or contents: of bytes
          repeat |-> "none", count |-> 0,                               \* repeat-expr, or the value repeat-until waits for
          body |-> <<>>,                                                \* the seq of a user type
          on |-> -1, cases |-> <<>>]                                    \* switch-on, -1 for _index; [value, ref]
Ints == IntKinds \ {"UntypedInt"}
ByteTypes == {"Bytes", "String"}
IsSized(a) == a.size >= 0
Terminated(a) == a.term >= 0
HasProcess(a) == a.process # "none"
Repeats(a) == a.repeat # "none"
Present(a) == a.when # "false"
BitField(a) == a.type = "Bits" /\ ~Repeats(a)

\* The integer of a kind in its bytes.
Ordered(type, bytes) == IF ByteOrder(type) = 1 THEN Reverse(bytes) ELSE bytes
IntOf(type, bytes) == WrapTo(IsSigned(type), Width(type), NumberOf(Ordered(type, bytes)))
IntBytes(type, v) == Ordered(type, BytesOf(v % 2^Width(type), ByteSize[type]))

\* The transformations process: names, over bytes.
RotateLeft(b, n) == ((b * 2^n) % 2^ByteBits) + (b \div 2^(ByteBits - n))
Xored(bytes) == [i \in DOMAIN bytes |-> bytes[i] ^^ XorKey]
Rotated(bytes, n) == [i \in DOMAIN bytes |-> RotateLeft(bytes[i], n)]
RotatedBack(bytes, n) == Rotated(bytes, (ByteBits - n) % ByteBits)

\* Bytes up to their terminator, or whole and stripped of the byte given.
Stripped(a, bytes, pad) ==
  IF Terminated(a) /\ Holds(bytes, a.term) THEN CutAt(bytes, a.term, a.include)
  ELSE IF pad >= 0 THEN StripRight(bytes, pad) ELSE bytes

\* An item: its value, and the bytes kept beside it to write it back.  A value
\* is one number, bytes, or the cells of an object, with the bits its reader kept
\* of each run of bit fields; raw and tail are <<>> while nil.
Item(v) == [v |-> v, raw |-> <<>>, tail |-> <<>>, object |-> FALSE, aligns |-> <<>>]
Object(cells) == [Item(cells) EXCEPT !.object = TRUE]
Cell(item) == << item >>
Number(n) == << n >>

\* The elements of a repeated attribute, read one by one until the stream ends,
\* the count is reached or the last value appears; One(s, i) reads the i-th, from
\* 0, and gives the items it adds.  A loop that has not ended by RepeatBound
\* elements, more than there are bits to read, never does.
Started(s) == [ok |-> TRUE, s |-> s, v |-> <<>>, done |-> FALSE]
Ends(a, r, i) == (a.repeat = "expr" /\ i >= a.count) \/ (a.repeat = "eos" /\ Eof(r.s))
Reached(a, x) == a.repeat = "until" /\ x.ok /\ x.v # <<>> /\ Last(x.v).v = Number(a.count)
Grown(a, r, x) == [ok |-> x.ok, s |-> x.s, v |-> r.v \o x.v, done |-> Reached(a, x)]
RepeatBound(a, s) == a.count + Len(s.buf) * ByteBits + 1
EndedOr(r) == [r EXCEPT !.ok = r.ok /\ r.done]
ReadRepeated(a, s, One(_, _)) ==
  EndedOr(FoldLeft(LAMBDA r, i : IF ~r.ok \/ r.done THEN r
                                 ELSE IF Ends(a, r, i) THEN [r EXCEPT !.done = TRUE] ELSE Grown(a, r, One(r.s, i)),
                   Started(s), [i \in 1 .. RepeatBound(a, s) |-> i - 1]))

\* type: switch-on: the case of the value, or the default, whose value is -1.
Matching(a, on) == { i \in DOMAIN a.cases : a.cases[i].value = on }
Default(a) == { i \in DOMAIN a.cases : a.cases[i].value = -1 }
HasCase(a, on) == Matching(a, on) \cup Default(a) # {}
Chosen(a, on) ==
  a.cases[CHOOSE i \in DOMAIN a.cases : i \in IF Matching(a, on) # {} THEN Matching(a, on) ELSE Default(a)].ref
SwitchValue(a, index) == IF a.on < 0 THEN index ELSE a.on

\* What the viewer shows of an object: its values without the bytes kept beside.
RECURSIVE Shown(_)
Shown(cells) ==
  [i \in DOMAIN cells |->
     [j \in DOMAIN cells[i] |->
        IF cells[i][j].object THEN Shown(cells[i][j].v) ELSE cells[i][j].v]]
=============================================================================
