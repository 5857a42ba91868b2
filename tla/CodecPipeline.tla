---------------------------- MODULE CodecPipeline ----------------------------
(***************************************************************************)
(* One format and one file, read by the viewer, by the generated Go and by *)
(* the generated C, and written back by both.  A behaviour describes the   *)
(* format attribute by attribute, then grows the file byte by byte.        *)
(***************************************************************************)
EXTENDS EvalReader, GoCodec, CCodec

CONSTANTS Attributes,   \* bound: Attributes[i] are the attributes a format may have at i
          InputBytes,   \* bound: the bytes a file is made of
          MaxInput      \* bound: its length
VARIABLES format, input

vars == << format, input >>
Init == format = <<>> /\ input = <<>>
Describe ==
  /\ input = <<>> /\ Len(format) < Len(Attributes)
  /\ \E a \in Attributes[Len(format) + 1] : format' = Append(format, a)
  /\ UNCHANGED input
Grow ==
  /\ format # <<>> /\ Len(input) < MaxInput
  /\ \E b \in InputBytes : input' = Append(input, b)
  /\ UNCHANGED format
Next == Describe \/ Grow
Spec == Init /\ [][Next]_vars

\* A reading agrees with the viewer's.  The viewer does not look at contents: and
\* valid:, and shows what there is of a sized object that the end of the file cuts.
Satisfied(attrs, cells) ==
  \A i \in DOMAIN attrs : attrs[i].must # <<>> => \A j \in DOMAIN cells[i] : cells[i][j].v = attrs[i].must[1]
Reads(r, e) ==
  /\ r.ok <=> e.ok /\ e.s.pos <= Len(input) /\ Satisfied(format, e.v)
  /\ r.ok => Shown(r.v) = Shown(e.v)
Consumed(r) == SubSeq(input, 1, r.s.pos)

Unsized(a) == a.type = "User" /\ ~IsSized(a)
EndsInBits(a) == Unsized(a) /\ ~a.eos /\ ~Terminated(a) /\ a.body # <<>> /\ Last(a.body).type = "Bits"
Elements(a) == IF Repeats(a) /\ a.on < 0 THEN 0 .. MaxInput ELSE {a.on}

\* Formats all three read alike.  The viewer leaves its stream in front of an
\* object that extends to the end; runs of bit fields of one order, not behind an
\* object that itself ends in bits, are the ones the emitters align.
Regular(attrs) ==
  \A i \in DOMAIN attrs :
    /\ Unsized(attrs[i]) /\ attrs[i].eos => i = Len(attrs)
    /\ EndsInBits(attrs[i]) => ~Repeats(attrs[i])
    /\ i > 1 /\ attrs[i].type = "Bits" =>
         ~EndsInBits(attrs[i - 1]) /\ (attrs[i - 1].type = "Bits" => attrs[i - 1].le = attrs[i].le)

\* What the viewer alone does: an unset eos-error of an object is an error, each
\* element of repeat-expr and repeat-until starts at a byte, an element of a switch
\* must have a case, and a switch's size applies to an object only.
AsViewer(a) ==
  /\ Unsized(a) /\ Terminated(a) => a.eosError # "unset"
  /\ a.type = "Bits" => a.repeat \in {"none", "eos"}
  /\ a.type = "Switch" => \A n \in Elements(a) :
       IF IsSized(a) THEN HasCase(a, n) /\ Chosen(a, n).type = "User" ELSE Repeats(a) => HasCase(a, n)

\* What the generated Go can be run for: code that compiles, and no use of the
\* runtime's ReadBytesTerm with eos-error: false, whose defect the emitter works
\* around for strings and objects but not for bytes.
GoSound(a) == GoBuilds(a) /\ ~(a.type = "Bytes" /\ ~IsSized(a) /\ ~a.eos /\ Terminated(a) /\ a.eosError = "no")

\* What the generated Go alone does: a sized object with both a terminator and
\* padding is not stripped of the padding, the elements of a repeat-until are not
\* processed, only the last element of a repetition is validated, and a run of bit
\* fields is aligned as if each were read once.
GoAsViewer(a) ==
  /\ a.type = "User" /\ IsSized(a) => ~(Terminated(a) /\ a.pad >= 0)
  /\ a.repeat = "until" => ~HasProcess(a)
  /\ Repeats(a) => a.must = <<>>
  /\ a.type = "Bits" => Present(a)

\* The generated Go reads exactly the files the viewer shows without an error that
\* also satisfy contents: and valid:, and the same values from them: neither a
\* size, a terminator, padding, processing, a repetition, a switch nor a run of bit
\* fields ends an attribute at another byte or bit in one than in the other.
GoReadsAsViewer ==
  Regular(format) /\ (\A i \in DOMAIN format : AsViewer(format[i]) /\ GoSound(format[i]) /\ GoAsViewer(format[i])) =>
    Reads(GoRead(format, input), EvalRead(format, input))

\* What the generated C alone does: a string with a terminator ends there although
\* it has size-eos, repeated bytes to the end and repeated objects are not stripped
\* and an object with a terminator not processed, and a switch all of whose cases
\* are of one type is read as that type whatever the value.
CAsViewer(a) ==
  /\ a.type = "String" => ~(a.eos /\ Terminated(a))
  /\ Repeats(a) /\ (a.type = "User" \/ a.eos) => ~Strips(a)
  /\ a.type = "Switch" /\ ~Repeats(a) => ~UniformCases(a) \/ HasCase(a, a.on)

\* The same of the generated C, emitted by other code over another runtime.
CReadsAsViewer ==
  Regular(format) /\ (\A i \in DOMAIN format : AsViewer(format[i]) /\ CAsViewer(format[i])) =>
    Reads(CRead(format, input), EvalRead(format, input))

\* The bytes of the file the values of attribute i may be read from: those of a
\* size, else all that are left, or left after a terminator.
StartOf(i) == CRead(SubSeq(format, 1, i - 1), input).s.pos
Rest(i) == EndOf(StartOf(i), input)
Splits(i) == {0} \cup { n \in 1 .. Len(Rest(i)) - 1 : Repeats(format[i]) /\ Rest(i)[n] = format[i].term }
ExtentsOf(i, cell) ==
  IF ~IsSized(format[i]) THEN { EndOf(n, Rest(i)) : n \in Splits(i) }
  ELSE { CutTo(EndOf((j - 1) * format[i].size, Rest(i)), format[i].size) : j \in DOMAIN cell }
EndsMarked(a, e) == Terminated(a) => Holds(e, a.term)
Inner(a, e) == IF Terminated(a) /\ Holds(e, a.term) THEN CutAt(e, a.term, a.include) ELSE e
ReadsAll(a, e) ==
  LET data == EvalProcessed(a, Inner(a, e)) IN CFields(a.body, NewStream(data)).s.pos = Len(data)
Aligned(a) == a.type = "Bits" => ~Repeats(a) /\ a.when = "always"

\* What the generated Go keeps enough of to write back.  It loses: a terminator
\* missing, or alone, in bytes that end in one; the terminator of processed bytes
\* read up to it; the processing of elements that are stripped or repeated until a
\* value; that of an object that extends to the end; what an
\* object in stripped bytes leaves unread; and which element of a switch had no case.
GoRestores(a) ==
  /\ Aligned(a)
  /\ a.type \in ByteTypes /\ Terminated(a) /\ HasProcess(a) => IsSized(a) \/ a.eos
  /\ a.type \in ByteTypes /\ Repeats(a) /\ HasProcess(a) => ~NeedsRawTail(a) /\ a.repeat # "until"
  /\ Unsized(a) /\ a.eos => ~HasProcess(a)
  /\ a.type = "Switch" /\ Repeats(a) /\ ~IsSized(a) => \A n \in Elements(a) : HasCase(a, n)
GoKeeps(a, e) ==
  CASE a.type = "User" ->
         /\ EndsMarked(a, e)
         /\ (~IsSized(a) /\ (a.eos \/ Terminated(a))) \/ (Terminated(a) /\ ~HasProcess(a)) => ReadsAll(a, e)
    [] a.type \in ByteTypes -> ~a.include => EndsMarked(a, e) /\ ((IsSized(a) \/ a.eos) => e # << a.term >>)
    [] OTHER -> TRUE

\* Written back unedited, an object the generated Go read is byte for byte the part
\* of the file it was read from: stripped terminators and padding, rotated and
\* xored bytes, bytes no field covers and the spare bits of a run of bit fields
\* included.
GoRewrites ==
  LET r == GoRead(format, input) IN
  r.ok /\ Regular(format)
    /\ (\A i \in DOMAIN format : GoSound(format[i]) /\ GoRestores(format[i]) /\ \A e \in ExtentsOf(i, r.v[i]) : GoKeeps(format[i], e)) =>
    GoWrite(format, r) = Consumed(r)

\* What the generated C keeps enough of.  It loses: a terminator missing; what was
\* stripped of bytes that extend to the end; what an object leaves unread unless its
\* size's bytes are kept; the size of a repeated object with a terminator, and of a
\* switch all of whose cases are of one type.
CRestores(a) ==
  /\ Aligned(a)
  /\ a.type \in ByteTypes /\ a.eos => ~Strips(a)
  /\ a.type = "User" /\ Repeats(a) /\ IsSized(a) => ~Terminated(a)
  /\ a.type = "Switch" /\ ~Repeats(a) /\ IsSized(a) => ~UniformCases(a)
KeepsUnread(a) == IF Terminated(a) THEN HasProcess(a) /\ IsSized(a) ELSE IsSized(a) /\ (a.pad >= 0 \/ ~HasProcess(a) \/ Repeats(a))
CKeeps(a, e) ==
  CASE a.type = "User" -> EndsMarked(a, e) /\ ((IsSized(a) \/ a.eos \/ Terminated(a)) /\ ~KeepsUnread(a) => ReadsAll(a, e))
    [] a.type \in ByteTypes -> ~a.include => EndsMarked(a, e)
    [] OTHER -> TRUE

\* The same of the generated C.
CRewrites ==
  LET r == CRead(format, input) IN
  r.ok /\ Regular(format)
    /\ (\A i \in DOMAIN format : CRestores(format[i]) /\ \A e \in ExtentsOf(i, r.v[i]) : CKeeps(format[i], e)) =>
    CWrite(format, r) = Consumed(r)
=============================================================================
