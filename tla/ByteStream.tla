----------------------------- MODULE ByteStream -----------------------------
(***************************************************************************)
(* The streams generated readers read and the writers generated writers    *)
(* write, as runtime/c/zanbato.h has them; the Go runtime, a library of    *)
(* its own, is taken to behave the same.  A byte has ByteBits bits.        *)
(***************************************************************************)
EXTENDS Kinds, SequencesExt

EndOf(n, seq) == SubSeq(seq, n + 1, Len(seq))
Holds(seq, x) == \E i \in DOMAIN seq : seq[i] = x
FirstAt(seq, x) == CHOOSE i \in DOMAIN seq : seq[i] = x /\ \A j \in 1 .. i - 1 : seq[j] # x

\* The number bytes stand for, the most significant first, and its bytes.
NumberOf(bytes) == FoldLeft(LAMBDA acc, b : acc * 2^ByteBits + b, 0, bytes)
BytesOf(number, len) == [i \in 1 .. len |-> (number \div 2^(ByteBits * (len - i))) % 2^ByteBits]

\* Bytes stripped of what follows a terminator, or of padding at their end.
CutAt(bytes, term, include) == SubSeq(bytes, 1, FirstAt(bytes, term) - (IF include THEN 0 ELSE 1))
StripRight(bytes, pad) ==
  CHOOSE s \in { SubSeq(bytes, 1, n) : n \in 0 .. Len(bytes) } :
    /\ s # <<>> => Last(s) # pad
    /\ \A i \in Len(s) + 1 .. Len(bytes) : bytes[i] = pad

\* What a read gives: a value and the stream after it, or a failure.
Got(s, v) == [ok |-> TRUE, s |-> s, v |-> v]
Failed(s) == [ok |-> FALSE, s |-> s, v |-> <<>>]
Map(r, F(_)) == IF r.ok THEN [r EXCEPT !.v = F(r.v)] ELSE r

----------------------------------------------------------------------------
\* A stream: the bytes, how many were read, the bits left of the last one and
\* the order they are read in.
NewStream(bytes) == [buf |-> bytes, pos |-> 0, bits |-> 0, left |-> 0, le |-> FALSE]
Remaining(s) == IF s.pos < Len(s.buf) THEN Len(s.buf) - s.pos ELSE 0
Eof(s) == s.pos >= Len(s.buf) /\ s.left = 0
AlignToByte(s) == [s EXCEPT !.bits = 0, !.left = 0]
Seek(s, pos) == [AlignToByte(s) EXCEPT !.pos = pos]

\* The next bytes, as many as there are; a read takes all it asks for or fails.
Taken(s, n) == SubSeq(s.buf, s.pos + 1, s.pos + (IF n < Remaining(s) THEN n ELSE Remaining(s)))
ReadBytes(s, n) == IF n > Remaining(s) THEN Failed(s) ELSE Got(Seek(s, s.pos + n), Taken(s, n))
ReadBytesFull(s) == ReadBytes(s, Remaining(s))
\* At the end nothing is read, and the bits left stay.
ReadBytesTerm(s, term, include, consume, eosError) ==
  CASE Holds(EndOf(s.pos, s.buf), term) ->
         Got(Seek(s, s.pos + FirstAt(EndOf(s.pos, s.buf), term) - (IF consume THEN 0 ELSE 1)),
             CutAt(EndOf(s.pos, s.buf), term, include))
    [] ~Holds(EndOf(s.pos, s.buf), term) /\ eosError -> Failed(s)
    [] OTHER -> IF Remaining(s) = 0 THEN Got(s, <<>>) ELSE ReadBytesFull(s)

\* Bits: the bytes a value needs beyond the bits left, and how it splits from
\* what is then pending.  A change of order drops the bits left.
BytesForBits(s, n) == IF n > s.left THEN (n - s.left + ByteBits - 1) \div ByteBits ELSE 0
InOrder(s, le) == IF s.le = le THEN s ELSE [AlignToByte(s) EXCEPT !.le = le]
BitsBe(s, n, k, pending) ==
  Got([s EXCEPT !.pos = s.pos + k, !.left = s.left + k * ByteBits - n,
                !.bits = pending % 2^(s.left + k * ByteBits - n)],
      pending \div 2^(s.left + k * ByteBits - n))
BitsLe(s, n, k, pending) ==
  Got([s EXCEPT !.pos = s.pos + k, !.left = s.left + k * ByteBits - n, !.bits = pending \div 2^n], pending % 2^n)
BitsOver(s, n, k) ==
  IF k > Remaining(s) THEN Failed(s)
  ELSE IF s.le THEN BitsLe(s, n, k, s.bits + NumberOf(Reverse(Taken(s, k))) * 2^s.left)
               ELSE BitsBe(s, n, k, s.bits * 2^(k * ByteBits) + NumberOf(Taken(s, k)))
ReadBits(s, n, le) == BitsOver(InOrder(s, le), n, BytesForBits(InOrder(s, le), n))

----------------------------------------------------------------------------
\* A writer: the bytes written and the bits not yet making up one.
NewWriter == [out |-> <<>>, bits |-> 0, left |-> 0, le |-> FALSE]
WriterAlign(w) ==
  IF w.left = 0 THEN w
  ELSE [w EXCEPT !.out = Append(w.out, IF w.le THEN w.bits ELSE w.bits * 2^(ByteBits - w.left)),
                 !.bits = 0, !.left = 0, !.le = FALSE]
WriteBytes(w, bytes) == [WriterAlign(w) EXCEPT !.out = WriterAlign(w).out \o bytes]
Written(w) == WriterAlign(w).out

WriterInOrder(w, le) == IF w.le = le THEN w ELSE [WriterAlign(w) EXCEPT !.le = le]
FlushBe(w, bits, left) ==
  [w EXCEPT !.out = w.out \o BytesOf(bits \div 2^(left % ByteBits), left \div ByteBits),
            !.bits = bits % 2^(left % ByteBits), !.left = left % ByteBits]
FlushLe(w, bits, left) ==
  [w EXCEPT !.out = w.out \o Reverse(BytesOf(bits, left \div ByteBits)),
            !.bits = bits \div 2^(left - (left % ByteBits)), !.left = left % ByteBits]
Bits64(number) == number % 2^(8 * ByteBits)
WriteBitsBe(w, n, v) == FlushBe(w, w.bits * 2^n + (v % 2^n), w.left + n)
WriteBitsLe(w, n, v) == FlushLe(w, Bits64(w.bits + (v % 2^n) * 2^w.left), w.left + n)
WriteBits(w, n, v, le) ==
  IF le THEN WriteBitsLe(WriterInOrder(w, le), n, v) ELSE WriteBitsBe(WriterInOrder(w, le), n, v)

\* Bytes cut or filled to a size: a terminator where there is room, then padding.
\* They go behind the bytes completed; bits still pending are not written first.
WriteBytesLimit(w, bytes, size, term, pad) ==
  LET room == size - Len(bytes) IN
  [w EXCEPT !.out = w.out \o SubSeq(bytes, 1, IF room <= 0 THEN size ELSE Len(bytes)) \o
     [i \in 1 .. room |-> IF i = 1 /\ term >= 0 THEN term ELSE IF pad < 0 THEN 0 ELSE pad]]
=============================================================================
