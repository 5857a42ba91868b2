-------------------------- MODULE HexEditorProofs ---------------------------
(* Why the caret comes to rest in the buffer, why two digits make one byte, *)
(* and why keys edit where they are seen to, for any buffer, base and       *)
(* number of columns (web/src/components/hex/HexEditor.tsx).                *)
EXTENDS HexEditor, SharedLemmas

Selections == [anchor : Nat, caret : Nat, column : {"hex", "ascii"}]
Types ==
    /\ content \in Seq(Byte)
    /\ selection \in Selections
    /\ nibble \in {"high", "low"}
    /\ due \in BOOLEAN
    /\ seen \in [selection : Selections, length : Nat]
    /\ tree \in BOOLEAN

\* Only a render that finds nothing to clamp leaves nothing due.
SeenInside == ~due => seen.selection.anchor <= seen.length /\ seen.selection.caret <= seen.length

\* The first digit stays where it was typed, and the anchor there, whatever
\* comes between the digits.
HighDigit ==
    nibble = "low" /\ typed # Null =>
        /\ typed.at \in 0 .. Len(content) - 1
        /\ content[typed.at + 1] \div Base = typed.digit
        /\ selection.anchor = typed.at
        /\ ~due => seen.selection.anchor = typed.at

-----------------------------------------------------------------------------
(* Bytes and their digits.                                                 *)

\* Typing a digit makes a byte of the other digit and the new one.
LEMMA Digits ==
    ASSUME NEW b \in Byte, NEW d \in Digit
    PROVE  /\ d * Base \in Byte /\ (d * Base) \div Base = d
           /\ d * Base + (b % Base) \in Byte /\ (d * Base + (b % Base)) \div Base = d
           /\ b - (b % Base) + d \in Byte
<1>0. Base \in Nat \ {0} /\ b \in 0 .. Base * Base - 1 /\ d \in 0 .. Base - 1
  BY LayoutAssumption DEF Byte, Digit
<1>1. b % Base \in 0 .. Base - 1 /\ b \div Base \in Int /\ b = Base * (b \div Base) + (b % Base)
  BY <1>0
<1>2. \A r \in 0 .. Base - 1 : d * Base + r \in 0 .. Base * Base - 1 /\ (d * Base + r) \div Base = d
  BY <1>0
<1>3. d * Base \in 0 .. Base * Base - 1 /\ (d * Base) \div Base = d
  <2>1. 0 \in 0 .. Base - 1 /\ d * Base + 0 = d * Base
    BY <1>0
  <2> QED
    BY <1>2, <2>1
<1>4. b \div Base \in 0 .. Base - 1
  BY <1>0
<1>5. b - (b % Base) + d \in 0 .. Base * Base - 1
  <2> DEFINE q == b \div Base
  <2>1. b - (b % Base) + d = q * Base + d
    BY <1>0, <1>1
  <2> HIDE DEF q
  <2>2. q * Base + d \in 0 .. Base * Base - 1
    BY <1>0, <1>4 DEF q
  <2> QED
    BY <2>1, <2>2
<1> QED
  BY <1>1, <1>2, <1>3, <1>5 DEF Byte

-----------------------------------------------------------------------------
(* What an edit operation, or two, make of the buffer.                     *)

Moved(c, half, digit) ==
    /\ due' = TRUE
    /\ selection' = At(c, seen.selection.column)
    /\ nibble' = half
    /\ typed' = IF half = "low" THEN [digit |-> digit, at |-> c] ELSE Null
NotMoved == UNCHANGED <<selection, nibble, due, typed>>

LEMMA NoOperation ==
    ASSUME NEW c, NEW half, NEW digit, ApplyEdit(Outcome(<<>>, c, half), digit)
    PROVE  content' = content /\ Moved(c, half, digit)
BY DEF ApplyEdit, Outcome, Applied, Moved

LEMMA OneOperation ==
    ASSUME NEW op, NEW c, NEW half, NEW digit, ApplyEdit(Outcome(<<op>>, c, half), digit)
    PROVE  \/ InRange(content, op) /\ content' = Effect(content, op) /\ Moved(c, half, digit)
           \/ content' = content /\ NotMoved
BY DEF ApplyEdit, Outcome, Applied, AndThen, Moved, NotMoved

LEMMA TwoOperations ==
    ASSUME NEW op1, NEW op2, NEW c, NEW half, NEW digit,
           ApplyEdit(Outcome(<<op1>> \o <<op2>>, c, half), digit),
           InRange(content, op1) => InRange(Effect(content, op1), op2)
    PROVE  \/ /\ InRange(content, op1) /\ content' = Effect(Effect(content, op1), op2)
              /\ Moved(c, half, digit)
           \/ content' = content /\ NotMoved
BY DEF ApplyEdit, Outcome, Applied, AndThen, Moved, NotMoved

-----------------------------------------------------------------------------
(* What a key does.                                                        *)

\* The bytes from offset o to n make way for at most one new byte: those
\* selected, or the one in front of the caret or behind it.  The caret stays
\* at the new byte, and only as long as that has one digit in front of it.
Edited(new, o, n, c, half, digit) ==
    /\ o \in 0 .. Len(content) /\ n \in o .. Len(content)
    /\ new \in Seq(Byte) /\ Len(new) \in 0 .. 1
    /\ content' \in Seq(Byte) /\ Spliced(content', content, new, o, n)
    /\ IF selected THEN o = low /\ n = low + count
       ELSE o >= caret - 1 /\ n <= caret + 1 /\ n - o \in 0 .. 1
    /\ c \in o .. o + Len(new)
    /\ half \in {"high", "low"}
    /\ half = "low" => c = o /\ Len(new) = 1 /\ new[1] \div Base = digit
    /\ Moved(c, half, digit)

\* A key that edits nothing, as there is nothing, or as it fails.
Unedited == /\ content' = content
            /\ NotMoved \/ \E c \in Nat : \E digit : Moved(c, "high", digit)

EditingKey == \/ \E digit \in Digit : TypeHex(digit)
              \/ \E byte \in Printable : TypeChar(byte)
              \/ PressBackspace \/ PressDelete

LEMMA Selected ==
    ASSUME Types
    PROVE  /\ low \in Nat /\ count \in Nat /\ caret \in Nat /\ seen.length \in Nat
           /\ (~selected => low = caret /\ count = 0)
           /\ (selected => count > 0)
           /\ selection \in Selections /\ seen.selection \in Selections
BY DEF Types, Selections, low, count, caret, selected, Smaller, Larger

\* One operation, which leaves the bytes and the caret as Edited says.
LEMMA OverwriteEdits ==
    ASSUME Types, ~selected, NEW x \in Byte, NEW c \in {caret, caret + 1}, NEW half \in {"high", "low"},
           NEW digit, half = "low" => c = caret /\ x \div Base = digit,
           ApplyEdit(Outcome(<<OverwriteOp(caret, x)>>, c, half), digit)
    PROVE  Unedited \/ \E new, o, n : Edited(new, o, n, c, half, digit)
<1> DEFINE op == OverwriteOp(caret, x)  end == IF caret = Len(content) THEN caret ELSE caret + 1
<1>0. caret \in Nat /\ Len(content) \in Nat /\ content \in Seq(Byte)
  BY Selected DEF Types
<1>1. CASE content' = content /\ NotMoved
  BY <1>1 DEF Unedited
<1>2. CASE InRange(content, op) /\ content' = Effect(content, op) /\ Moved(c, half, digit)
  <2>1. caret \in 0 .. Len(content) /\ content' = Overwritten(content, caret, <<x>>)
    BY <1>0, <1>2 DEF InRange, Effect, OverwriteOp
  <2>2. content' \in Seq(Byte) /\ Spliced(content', content, <<x>>, caret, end)
    BY <1>0, <2>1, OverwrittenByte
  <2>3. <<x>> \in Seq(Byte) /\ Len(<<x>>) = 1 /\ <<x>>[1] = x
    OBVIOUS
  <2>4. end \in caret .. Len(content) /\ end <= caret + 1
    BY <1>0, <2>1
  <2> HIDE DEF end
  <2>5. Edited(<<x>>, caret, end, c, half, digit)
    <3>1. c \in caret .. caret + Len(<<x>>) /\ caret >= caret - 1 /\ end - caret \in 0 .. 1
      BY <1>0, <2>3, <2>4
    <3> QED
      BY <1>2, <2>1, <2>2, <2>3, <2>4, <3>1 DEF Edited
  <2> QED
    BY <2>5
<1> QED
  BY <1>1, <1>2, OneOperation

\* What is selected goes, a byte comes in its place.
LEMMA ReplaceEdits ==
    ASSUME Types, NEW x \in Byte, NEW c \in {place, place + 1}, NEW half \in {"high", "low"},
           NEW digit, half = "low" => c = place /\ x \div Base = digit,
           ApplyEdit(Outcome(removal \o <<InsertOp(place, x)>>, c, half), digit)
    PROVE  Unedited \/ \E new, o, n : Edited(new, o, n, c, half, digit)
<1> DEFINE op == InsertOp(place, x)
<1>0. /\ caret \in Nat /\ low \in Nat /\ count \in Nat
      /\ Len(content) \in Nat /\ content \in Seq(Byte)
  BY Selected DEF Types
<1>1. <<x>> \in Seq(Byte) /\ Len(<<x>>) = 1 /\ <<x>>[1] = x
  OBVIOUS
<1>2. CASE content' = content /\ NotMoved
  BY <1>2 DEF Unedited
<1>3. CASE selected
  <2> DEFINE first == DeleteOp(low, count)
             b == Effect(content, first)
  <2>1. ASSUME InRange(content, first)
        PROVE  /\ b \in Seq(Byte) /\ Spliced(b, content, <<>>, low, low + count)
               /\ low + count <= Len(content) /\ Len(b) = Len(content) - count
               /\ Len(b) >= low
    <3>1. low + count <= Len(content) /\ b = Deleted(content, low, count)
      BY <2>1 DEF InRange, Effect, DeleteOp
    <3>2. b \in Seq(Byte) /\ Spliced(b, content, <<>>, low, low + count)
      BY <1>0, <3>1, DeletedBytes
    <3>3. Len(b) = Len(content) - count
      BY <1>0, <3>2 DEF Spliced
    <3> QED
      BY <1>0, <3>1, <3>2, <3>3
  <2>2. InRange(content, first) => InRange(b, op)
    BY <1>3, <2>1 DEF InRange, InsertOp, place
  <2>3. removal \o <<op>> = <<first>> \o <<op>>
    BY <1>3 DEF removal
  <2> HIDE DEF b, first
  <2>4. ASSUME InRange(content, first), content' = Effect(b, op), Moved(c, half, digit)
        PROVE  Edited(<<x>>, low, low + count, c, half, digit)
    <3>1. low \in 0 .. Len(b) /\ content' = Inserted(b, low, <<x>>) /\ b \in Seq(Byte)
      BY <1>0, <1>3, <2>1, <2>4 DEF Effect, InsertOp, place
    <3>2. content' \in Seq(Byte) /\ Spliced(content', b, <<x>>, low, low)
      BY <1>1, <3>1, InsertedBytes
    <3>3. Len(content') = low + 1 + (Len(content) - (low + count))
      <4>1. Len(content') = low + Len(<<x>>) + (Len(b) - low)
        BY <3>2 DEF Spliced
      <4>2. Len(b) = Len(content) - count
        BY <2>1, <2>4
      <4> QED
        BY <1>0, <1>1, <4>1, <4>2
    <3>4. \A i \in 1 .. low : content'[i] = content[i]
      BY <2>1, <2>4, <3>2 DEF Spliced
    <3>5. \A i \in 1 .. Len(content) - (low + count) : content'[low + 1 + i] = content[low + count + i]
      <4> TAKE i \in 1 .. Len(content) - (low + count)
      <4>1. b[low + 0 + i] = content[low + count + i]
        BY <2>1, <2>4 DEF Spliced
      <4>2. i \in 1 .. Len(b) - low /\ low + 0 + i = low + i
        BY <1>0, <2>1, <2>4
      <4>3. content'[low + 1 + i] = b[low + i]
        BY <1>1, <3>2, <4>2 DEF Spliced
      <4> QED
        BY <4>1, <4>2, <4>3
    <3>6. \A i \in 1 .. 1 : content'[low + i] = <<x>>[i]
      BY <1>1, <3>2 DEF Spliced
    <3>7. Spliced(content', content, <<x>>, low, low + count)
      BY <1>1, <3>3, <3>4, <3>5, <3>6 DEF Spliced
    <3>8. /\ low \in 0 .. Len(content) /\ low + count \in low .. Len(content)
          /\ c \in low .. low + Len(<<x>>)
      BY <1>0, <1>1, <1>3, <2>1, <2>4 DEF place
    <3> QED
      BY <1>1, <1>3, <2>4, <3>2, <3>7, <3>8 DEF Edited, place
  <2>5. ApplyEdit(Outcome(<<first>> \o <<op>>, c, half), digit)
    BY <2>3
  <2>6. InRange(content, first) => InRange(Effect(content, first), op)
    BY <2>2 DEF b
  <2> HIDE DEF op
  <2>7. \/ /\ InRange(content, first) /\ content' = Effect(Effect(content, first), op)
           /\ Moved(c, half, digit)
        \/ content' = content /\ NotMoved
    BY <2>5, <2>6, TwoOperations
  <2>8. \/ InRange(content, first) /\ content' = Effect(b, op) /\ Moved(c, half, digit)
        \/ content' = content /\ NotMoved
    BY <2>7 DEF b
  <2> QED
    BY <1>2, <2>4, <2>8
<1>4. CASE ~selected
  <2>1. place = caret /\ removal \o <<op>> = <<op>>
    BY <1>4 DEF place, removal
  <2>2. ASSUME InRange(content, op), content' = Effect(content, op), Moved(c, half, digit)
        PROVE  Edited(<<x>>, caret, caret, c, half, digit)
    <3>1. caret \in 0 .. Len(content) /\ content' = Inserted(content, caret, <<x>>)
      BY <1>0, <2>1, <2>2 DEF InRange, Effect, InsertOp
    <3>2. content' \in Seq(Byte) /\ Spliced(content', content, <<x>>, caret, caret)
      BY <1>0, <1>1, <3>1, InsertedBytes
    <3>3. /\ caret \in caret .. Len(content) /\ c \in caret .. caret + Len(<<x>>)
          /\ caret >= caret - 1 /\ caret <= caret + 1 /\ caret - caret \in 0 .. 1
      BY <1>0, <1>1, <2>1, <3>1
    <3> QED
      BY <1>1, <1>4, <2>1, <2>2, <3>1, <3>2, <3>3 DEF Edited
  <2> QED
    BY <1>2, <2>1, <2>2, OneOperation
<1> QED
  BY <1>3, <1>4

\* What is selected goes, or the byte in front of the caret or behind it.
LEMMA RemoveEdits ==
    ASSUME Types, NEW o \in Nat, NEW k \in Nat,
           IF selected THEN o = low /\ k = count ELSE o \in {caret - 1, caret} /\ k = 1,
           ApplyEdit(Outcome(<<DeleteOp(o, k)>>, o, "high"), Null)
    PROVE  Unedited \/ \E new, m, n : Edited(new, m, n, o, "high", Null)
<1> DEFINE op == DeleteOp(o, k)
<1>0. /\ caret \in Nat /\ low \in Nat /\ count \in Nat
      /\ Len(content) \in Nat /\ content \in Seq(Byte)
  BY Selected DEF Types
<1>1. <<>> \in Seq(Byte) /\ Len(<<>>) = 0
  OBVIOUS
<1>2. CASE content' = content /\ NotMoved
  BY <1>2 DEF Unedited
<1>3. CASE InRange(content, op) /\ content' = Effect(content, op) /\ Moved(o, "high", Null)
  <2>1. o + k <= Len(content) /\ content' = Deleted(content, o, k)
    BY <1>3 DEF InRange, Effect, DeleteOp
  <2>2. content' \in Seq(Byte) /\ Spliced(content', content, <<>>, o, o + k)
    BY <1>0, <2>1, DeletedBytes
  <2>3. /\ o \in 0 .. Len(content) /\ o + k \in o .. Len(content) /\ o \in o .. o + Len(<<>>)
        /\ ~selected => o >= caret - 1 /\ o + k <= caret + 1 /\ o + k - o \in 0 .. 1
    BY <1>0, <1>1, <2>1
  <2>4. Edited(<<>>, o, o + k, o, "high", Null)
    BY <1>1, <1>3, <2>2, <2>3 DEF Edited
  <2> QED
    BY <2>4
<1> QED
  BY <1>2, <1>3, OneOperation

\* A key edits as Edited says, or nothing.
LEMMA KeyEdits ==
    ASSUME Types, EditingKey
    PROVE  Unedited \/ \E new, o, n, c, half, digit : Edited(new, o, n, c, half, digit)
<1>0. /\ caret \in Nat /\ low \in Nat /\ count \in Nat /\ seen.length \in Nat
      /\ Len(content) \in Nat /\ content \in Seq(Byte) /\ nibble \in {"high", "low"}
      /\ selected => count > 0
      /\ 0 \in Byte
  BY Selected, LayoutAssumption DEF Types, Byte
<1>1. ASSUME NEW result, NEW digit, ApplyEdit(result, digit)
      PROVE  byteAtCaret \in Byte
  BY <1>0, <1>1 DEF ApplyEdit, Readable, byteAtCaret
<1>2. ASSUME NEW digit \in Digit, TypeHex(digit)
      PROVE  Unedited \/ \E new, o, n, c, half, d : Edited(new, o, n, c, half, d)
  <2>1. ApplyEdit(TypeHexDigit(digit), digit) /\ byteAtCaret \in Byte
    BY <1>1, <1>2 DEF TypeHex
  <2>2. CASE nibble = "low" /\ ~selected
    <3> DEFINE x == byteAtCaret - (byteAtCaret % Base) + digit
    <3>1. ApplyEdit(Outcome(<<OverwriteOp(caret, x)>>, caret + 1, "high"), digit)
      BY <2>1, <2>2 DEF TypeHexDigit
    <3>2. x \in Byte
      BY <2>1, Digits
    <3> HIDE DEF x
    <3> QED
      BY <2>2, <3>1, <3>2, OverwriteEdits
  <2>3. CASE ~(nibble = "low" /\ ~selected) /\ inserts
    <3> DEFINE x == digit * Base
    <3>1. ApplyEdit(Outcome(removal \o <<InsertOp(place, x)>>, place, "low"), digit)
      BY <2>1, <2>3 DEF TypeHexDigit
    <3>2. x \in Byte /\ x \div Base = digit
      BY <2>1, Digits
    <3> HIDE DEF x
    <3> QED
      BY <3>1, <3>2, ReplaceEdits
  <2>4. CASE ~(nibble = "low" /\ ~selected) /\ ~inserts
    <3> DEFINE x == digit * Base + (byteAtCaret % Base)
    <3>1. ApplyEdit(Outcome(<<OverwriteOp(caret, x)>>, caret, "low"), digit) /\ ~selected
      BY <2>1, <2>4 DEF TypeHexDigit, inserts
    <3>2. x \in Byte /\ x \div Base = digit
      BY <2>1, Digits
    <3> HIDE DEF x
    <3> QED
      BY <3>1, <3>2, OverwriteEdits
  <2> QED
    BY <2>2, <2>3, <2>4
<1>3. ASSUME NEW byte \in Printable, TypeChar(byte)
      PROVE  Unedited \/ \E new, o, n, c, half, d : Edited(new, o, n, c, half, d)
  <2>1. byte \in Byte /\ ApplyEdit(TypeAscii(byte), Null)
    BY <1>3, BytesAssumption DEF TypeChar
  <2>2. CASE inserts
    <3>1. ApplyEdit(Outcome(removal \o <<InsertOp(place, byte)>>, place + 1, "high"), Null)
      BY <2>1, <2>2 DEF TypeAscii
    <3> QED
      BY <2>1, <3>1, ReplaceEdits
  <2>3. CASE ~inserts
    <3>1. ~selected /\ place = caret /\ removal = <<>>
      BY <2>3 DEF inserts, place, removal
    <3>2. \A op : <<>> \o <<op>> = <<op>>
      OBVIOUS
    <3>3. ApplyEdit(Outcome(<<OverwriteOp(caret, byte)>>, caret + 1, "high"), Null)
      BY <2>1, <2>3, <3>1, <3>2 DEF TypeAscii
    <3> QED
      BY <2>1, <3>1, <3>3, OverwriteEdits
  <2> QED
    BY <2>2, <2>3
<1>4. ASSUME NEW c \in Nat, ApplyEdit(Outcome(<<>>, c, "high"), Null)
      PROVE  Unedited
  BY <1>4, NoOperation DEF Unedited
<1>5. CASE PressBackspace
  <2>1. CASE selected
    BY <1>0, <1>5, <2>1, RemoveEdits DEF PressBackspace, Backspace, removal
  <2>2. CASE ~selected /\ caret = 0
    BY <1>4, <1>5, <2>2 DEF PressBackspace, Backspace
  <2>3. CASE ~selected /\ caret # 0
    <3>1. caret - 1 \in Nat /\ ApplyEdit(Outcome(<<DeleteOp(caret - 1, 1)>>, caret - 1, "high"), Null)
      BY <1>0, <1>5, <2>3 DEF PressBackspace, Backspace
    <3> QED
      BY <2>3, <3>1, RemoveEdits
  <2> QED
    BY <2>1, <2>2, <2>3
<1>6. CASE PressDelete
  <2>1. CASE selected
    BY <1>0, <1>6, <2>1, RemoveEdits DEF PressDelete, DeleteForward, removal
  <2>2. CASE ~selected /\ caret >= seen.length
    BY <1>0, <1>4, <1>6, <2>2 DEF PressDelete, DeleteForward
  <2>3. CASE ~selected /\ ~(caret >= seen.length)
    <3>1. ApplyEdit(Outcome(<<DeleteOp(caret, 1)>>, caret, "high"), Null)
      BY <1>0, <1>6, <2>3 DEF PressDelete, DeleteForward
    <3> QED
      BY <1>0, <2>3, <3>1, RemoveEdits
  <2> QED
    BY <2>1, <2>2, <2>3
<1> QED
  BY <1>2, <1>3, <1>5, <1>6 DEF EditingKey
-----------------------------------------------------------------------------
(* The invariant.                                                          *)

\* Keys other than those that edit.
OtherKey == \/ PressInsert \/ PressTab
            \/ \E key \in NavigationKey, ctrl, shift \in BOOLEAN : MoveCaret(key, ctrl, shift)

\* What an editing key leaves alone.
LEMMA KeyKeeps ==
    ASSUME EditingKey
    PROVE  UNCHANGED <<insertMode, dragging, seen, tree>> /\ ~due
BY DEF EditingKey, TypeHex, TypeChar, PressBackspace, PressDelete, ApplyEdit, Event

\* Every navigation key leads to an offset.
LEMMA Targets ==
    ASSUME Types, NEW key \in NavigationKey, NEW ctrl \in BOOLEAN
    PROVE  Target(key, ctrl) \in Nat
<1>0. caret \in Nat /\ seen.length \in Nat /\ Columns \in Nat \ {0} /\ VisibleRows \in Nat
  BY Selected, LayoutAssumption
<1>1. VisibleRows * Columns \in Nat
  BY <1>0
<1>2. caret % Columns \in Nat /\ caret - (caret % Columns) \in Nat
  BY <1>0
<1> QED
  BY <1>0, <1>1, <1>2 DEF Target, NavigationKey, Larger, Smaller

\* The cells are offsets.
LEMMA CellsAreOffsets == Types => Cells \subseteq Nat
BY DEF Cells

LEMMA TypesKept == Types /\ [Next]_vars => Types'
<1> SUFFICES ASSUME Types, [Next]_vars
             PROVE  Types'
  OBVIOUS
<1>0. /\ content \in Seq(Byte) /\ selection \in Selections /\ nibble \in {"high", "low"}
      /\ due \in BOOLEAN /\ seen \in [selection : Selections, length : Nat]
      /\ tree \in BOOLEAN /\ Len(content) \in Nat /\ seen.selection \in Selections
      /\ caret \in Nat
  BY DEF Types, Selections, caret
<1>1. CASE Render
  <2>1. selection' \in Selections
    BY <1>0, <1>1 DEF Render, Clamped, Smaller, Selections
  <2> QED
    BY <1>0, <1>1, <2>1 DEF Render, Types, Now
<1>2. CASE EditingKey
  <2>1. CASE Unedited
    <3>1. CASE NotMoved
      BY <1>0, <1>2, <2>1, <3>1, KeyKeeps DEF Unedited, NotMoved, Types
    <3>2. ASSUME NEW c \in Nat, NEW digit, Moved(c, "high", digit)
          PROVE  Types'
      <4>1. selection' \in Selections
        BY <1>0, <3>2 DEF Moved, At, Selections
      <4> QED
        BY <1>0, <1>2, <2>1, <3>2, <4>1, KeyKeeps DEF Unedited, Moved, Types
    <3> QED
      BY <2>1, <3>1, <3>2 DEF Unedited
  <2>2. ASSUME NEW new, NEW o, NEW n, NEW c, NEW half, NEW digit, Edited(new, o, n, c, half, digit)
        PROVE  Types'
    <3>1. c \in Nat
      BY <1>0, <2>2 DEF Edited
    <3>2. selection' \in Selections
      BY <1>0, <2>2, <3>1 DEF Edited, Moved, At, Selections
    <3> QED
      BY <1>0, <1>2, <2>2, <3>2, KeyKeeps DEF Edited, Moved, Types
  <2> QED
    BY <1>2, <2>1, <2>2, KeyEdits
<1>3. CASE OtherKey
  <2>1. CASE PressInsert
    BY <2>1 DEF PressInsert, UserEvent, Event, Types
  <2>2. ASSUME NEW moved \in Selections, Navigate(moved)
        PROVE  Types'
    BY <1>0, <2>2 DEF Navigate, UserEvent, Event, Types
  <2>3. CASE PressTab
    <3>1. [seen.selection EXCEPT !.column = IF @ = "hex" THEN "ascii" ELSE "hex"] \in Selections
      BY <1>0 DEF Selections
    <3> QED
      BY <2>2, <2>3, <3>1 DEF PressTab
  <2>4. ASSUME NEW key \in NavigationKey, NEW ctrl \in BOOLEAN, NEW shift \in BOOLEAN,
               MoveCaret(key, ctrl, shift)
        PROVE  Types'
    <3> DEFINE to == Target(key, ctrl)
    <3>1. to \in Nat
      BY Targets
    <3> HIDE DEF to
    <3>2. [seen.selection EXCEPT !.caret = to, !.anchor = IF shift THEN @ ELSE to] \in Selections
      BY <1>0, <3>1 DEF Selections
    <3> QED
      BY <2>2, <2>4, <3>2 DEF MoveCaret, to
  <2> QED
    BY <1>3, <2>1, <2>3, <2>4 DEF OtherKey
<1>4. CASE Pointer
  <2>1. ASSUME NEW offset \in Nat, NEW column \in {"hex", "ascii"}, NEW shift \in BOOLEAN,
               PointerDown(offset, column, shift)
        PROVE  Types'
    <3>1. selection' \in Selections
      BY <1>0, <2>1 DEF PointerDown, Selections
    <3> QED
      BY <1>0, <2>1, <3>1 DEF PointerDown, UserEvent, Event, Types
  <2>2. ASSUME NEW offset \in Nat, NEW column \in {"hex", "ascii"}, PointerMove(offset, column)
        PROVE  Types'
    <3>1. selection' \in Selections
      BY <1>0, <2>2 DEF PointerMove, Selections
    <3> QED
      BY <1>0, <2>2, <3>1 DEF PointerMove, Types
  <2>3. CASE PointerUp
    BY <1>0, <2>3 DEF PointerUp, Types
  <2> QED
    BY <1>4, <2>1, <2>2, <2>3, CellsAreOffsets DEF Pointer
<1>5. CASE Workspace
  <2>1. ASSUME NEW from \in 0 .. MaxIndex, NEW to \in from .. MaxIndex, SelectTreeNode(from, to)
        PROVE  Types'
    <3>1. from \in Nat /\ to \in Nat
      BY LayoutAssumption
    <3>2. selection' \in Selections
      BY <1>0, <2>1, <3>1 DEF SelectTreeNode, Selections
    <3> QED
      BY <1>0, <2>1, <3>2 DEF SelectTreeNode, UserEvent, Event, Types
  <2>2. At(0, "hex") \in Selections
    BY DEF At, Selections
  <2>3. ASSUME NEW bytes \in Loads, Load(bytes)
        PROVE  Types'
    BY <1>0, <2>2, <2>3, BytesAssumption DEF Load, Event, Types
  <2>4. CASE SetProject
    BY <1>0, <2>2, <2>4 DEF SetProject, Event, Types
  <2>5. CASE Parsed
    BY <1>0, <2>5 DEF Parsed, Event, Types
  <2> QED
    BY <1>5, <2>1, <2>3, <2>4, <2>5 DEF Workspace
<1>6. CASE UNCHANGED vars
  BY <1>6 DEF vars, Types
<1> QED
  BY <1>1, <1>2, <1>3, <1>4, <1>5, <1>6 DEF Next, Key, EditingKey, OtherKey

LEMMA SeenKept == Types /\ SeenInside /\ [Next]_vars => SeenInside'
<1> SUFFICES ASSUME Types, SeenInside, [Next]_vars
             PROVE  SeenInside'
  OBVIOUS
<1>0. selection \in Selections /\ Len(content) \in Nat
  BY DEF Types
<1>1. CASE Render
  <2> SUFFICES ASSUME Clamped(selection, Len(content)) = selection
               PROVE  selection.anchor <= Len(content) /\ selection.caret <= Len(content)
    BY <1>1 DEF Render, Now, SeenInside
  <2>1. /\ Clamped(selection, Len(content)).anchor = Smaller(selection.anchor, Len(content))
        /\ Clamped(selection, Len(content)).caret = Smaller(selection.caret, Len(content))
    BY <1>0 DEF Clamped, Selections
  <2> QED
    BY <1>0, <2>1 DEF Smaller, Selections
<1>2. CASE seen' = seen /\ (due' = due \/ due')
  BY <1>2 DEF SeenInside
<1>3. Next /\ ~Render => seen' = seen /\ (due' = due \/ due')
  BY DEF Next, Key, TypeHex, TypeChar, PressBackspace, PressDelete, ApplyEdit, PressInsert,
         PressTab, MoveCaret, Navigate, Pointer, PointerMove, PointerDown, PointerUp, Workspace,
         SelectTreeNode, Load, SetProject, Parsed, UserEvent
<1>4. UNCHANGED vars => seen' = seen /\ due' = due
  BY DEF vars
<1> QED
  BY <1>1, <1>2, <1>3, <1>4

LEMMA HighDigitKept == Types /\ HighDigit /\ [Next]_vars => HighDigit'
<1> SUFFICES ASSUME Types, HighDigit, [Next]_vars
             PROVE  HighDigit'
  OBVIOUS
<1>0. /\ selection \in Selections /\ seen.selection \in Selections /\ seen \in [selection : Selections, length : Nat]
      /\ content \in Seq(Byte) /\ Len(content) \in Nat
  BY DEF Types
<1>1. CASE Render
  <2>1. /\ content' = content /\ nibble' = nibble /\ typed' = typed
        /\ selection' = Clamped(selection, Len(content)) /\ seen' = Now
    BY <1>1 DEF Render
  <2>2. /\ selection'.anchor = Smaller(selection.anchor, Len(content))
        /\ seen'.selection.anchor = selection.anchor
    BY <1>0, <2>1 DEF Clamped, Selections, Now
  <2> SUFFICES ASSUME nibble = "low", typed # Null
               PROVE  selection'.anchor = typed.at /\ seen'.selection.anchor = typed.at
    BY <2>1 DEF HighDigit
  <2> QED
    BY <1>0, <2>2 DEF HighDigit, Smaller
<1>2. CASE EditingKey
  <2>1. CASE Unedited
    <3>1. CASE NotMoved
      BY <1>2, <2>1, <3>1, KeyKeeps DEF Unedited, NotMoved, HighDigit
    <3>2. ASSUME NEW c \in Nat, NEW digit, Moved(c, "high", digit)
          PROVE  HighDigit'
      BY <3>2 DEF Moved, HighDigit
    <3> QED
      BY <2>1, <3>1, <3>2 DEF Unedited
  <2>2. ASSUME NEW new, NEW o, NEW n, NEW c, NEW half, NEW digit, Edited(new, o, n, c, half, digit)
        PROVE  HighDigit'
    <3>1. CASE half = "high"
      BY <2>2, <3>1 DEF Edited, Moved, HighDigit
    <3>2. CASE half = "low"
      <4>1. /\ o \in Nat /\ n \in o .. Len(content) /\ Len(new) = 1 /\ new[1] \div Base = digit
            /\ typed' = [digit |-> digit, at |-> o] /\ due' = TRUE /\ selection'.anchor = o
            /\ Len(content') = o + Len(new) + (Len(content) - n)
            /\ \A i \in 1 .. Len(new) : content'[o + i] = new[i]
        BY <1>0, <2>2, <3>2 DEF Edited, Moved, At, Spliced
      <4>2. content'[o + 1] = new[1] /\ o \in 0 .. Len(content') - 1
        BY <1>0, <4>1
      <4> QED
        BY <4>1, <4>2 DEF HighDigit
    <3> QED
      BY <2>2, <3>1, <3>2 DEF Edited
  <2> QED
    BY <1>2, <2>1, <2>2, KeyEdits
<1>3. CASE PressInsert
  BY <1>3 DEF PressInsert, UserEvent, Event, HighDigit
<1>4. CASE OtherKey /\ ~PressInsert
  <2>1. nibble' = "high"
    BY <1>4 DEF OtherKey, PressTab, MoveCaret, Navigate
  <2> QED
    BY <2>1 DEF HighDigit
<1>5. ASSUME NEW offset, NEW column, PointerMove(offset, column)
      PROVE  HighDigit'
  <2>1. selection'.anchor = seen.selection.anchor
    BY <1>0, <1>5 DEF PointerMove, Selections
  <2> QED
    BY <1>5, <2>1 DEF PointerMove, Event, HighDigit
<1>6. CASE PointerUp \/ Parsed
  BY <1>6 DEF PointerUp, Parsed, HighDigit
<1>7. ASSUME NEW offset, NEW column, NEW shift, PointerDown(offset, column, shift)
      PROVE  HighDigit'
  BY <1>7 DEF PointerDown, HighDigit
<1>8. CASE Workspace /\ ~Parsed
  <2>1. typed' = Null
    BY <1>8 DEF Workspace, SelectTreeNode, Load, SetProject
  <2> QED
    BY <2>1 DEF HighDigit
<1>9. CASE UNCHANGED vars
  BY <1>9 DEF vars, HighDigit
<1> QED
  BY <1>1, <1>2, <1>3, <1>4, <1>5, <1>6, <1>7, <1>8, <1>9
     DEF Next, Key, EditingKey, OtherKey, Pointer

IInv == Types /\ SeenInside /\ HighDigit

LEMMA Invariance == Spec => []IInv
<1>1. Init => IInv
  <2>1. Init => Types /\ seen = Now /\ selection = At(0, "hex") /\ nibble = "high"
    <3> SUFFICES ASSUME Init
                 PROVE  Types /\ seen = Now /\ selection = At(0, "hex") /\ nibble = "high"
      OBVIOUS
    <3>1. content \in Seq(Byte) /\ Len(content) \in Nat
      BY BytesAssumption DEF Init
    <3>2. selection \in Selections
      BY DEF Init, Selections, At
    <3>3. seen \in [selection : Selections, length : Nat]
      BY <3>1, <3>2 DEF Init, Now
    <3> QED
      BY <3>1, <3>2, <3>3 DEF Init, Types
  <2>2. Init => SeenInside
    BY <2>1 DEF Init, SeenInside, Now, At, Types
  <2> QED
    BY <2>1, <2>2 DEF IInv, HighDigit
<1>2. IInv /\ [Next]_vars => IInv'
  BY TypesKept, SeenKept, HighDigitKept DEF IInv
<1> QED
  BY <1>1, <1>2, PTL DEF Spec

-----------------------------------------------------------------------------
(* Theorems.                                                               *)

\* Wherever the caret and the anchor are put, and however the buffer is
\* replaced, once HexEditor has rendered they are in the buffer.
THEOREM CaretComesToRest == Spec => []CaretInBuffer
<1>1. IInv => CaretInBuffer
  BY DEF IInv, SeenInside, CaretInBuffer, Now
<1> QED
  BY <1>1, Invariance, PTL

\* When the second of two hex digits is typed, the first is still the high
\* half of the byte at the caret, so that the two make one byte.
THEOREM TwoDigitsOneByte == Spec => []PairMakesByte
<1>1. IInv => PairMakesByte
  BY DEF IInv, HighDigit, PairMakesByte, Types
<1> QED
  BY <1>1, Invariance, PTL

\* A key that changes the buffer changes what is seen selected, or a byte
\* next to the caret that is seen, and the caret stays with the change.
THEOREM KeysEditWhereSeen == Spec => EditsWhereSeen
<1>1. Types /\ [Next]_vars => [EditWhereSeen]_vars
  <2> DEFINE before == IF selected THEN low ELSE Larger(0, caret - 1)
             end == IF selected THEN low + count ELSE Smaller(caret + 1, Len(content))
             after == Len(content) - end
  <2> SUFFICES ASSUME Types, Next, content' # content, ~(\E bytes \in Loads : Load(bytes))
               PROVE  /\ SubSeq(content', 1, before) = SubSeq(content, 1, before)
                      /\ SubSeq(content', Len(content') - after + 1, Len(content'))
                             = SubSeq(content, Len(content) - after + 1, Len(content))
                      /\ Len(content') - Len(content) + count \in -1 .. 1
                      /\ selection'.anchor = selection'.caret
                      /\ selection'.caret \in before .. Len(content') - after
    BY DEF EditWhereSeen
  <2>0. /\ caret \in Nat /\ low \in Nat /\ count \in Nat /\ (~selected => count = 0)
        /\ Len(content) \in Nat /\ content \in Seq(Byte)
    BY Selected DEF Types
  <2>1. EditingKey
    BY DEF Next, Render, Key, EditingKey, PressInsert, PressTab, MoveCaret, Navigate, Pointer,
           PointerMove, PointerDown, PointerUp, Workspace, SelectTreeNode, SetProject, Parsed
  <2>2. PICK new, o, n, c, half, digit : Edited(new, o, n, c, half, digit)
    BY <2>1, KeyEdits DEF Unedited
  <2>3. /\ o \in 0 .. Len(content) /\ n \in o .. Len(content) /\ Len(new) \in 0 .. 1
        /\ content' \in Seq(Byte) /\ c \in o .. o + Len(new)
        /\ Len(content') = o + Len(new) + (Len(content) - n)
        /\ selection'.anchor = c /\ selection'.caret = c
    BY <2>2 DEF Edited, Spliced, Moved, At
  <2>4. /\ before \in 0 .. o /\ end \in n .. Len(content)
        /\ Len(new) - (n - o) + count \in -1 .. 1
    <3>1. IF selected THEN o = low /\ n = low + count
          ELSE o >= caret - 1 /\ n <= caret + 1 /\ n - o \in 0 .. 1
      BY <2>2 DEF Edited
    <3>2. CASE selected
      <4>1. before = o /\ end = n /\ n - o = count
        BY <2>0, <2>3, <3>1, <3>2
      <4>2. Len(new) - (n - o) + count = Len(new)
        BY <2>0, <2>3, <4>1
      <4>3. Len(new) \in -1 .. 1
        BY <2>3
      <4>4. before \in 0 .. o /\ end \in n .. Len(content)
        BY <2>0, <2>3, <4>1
      <4> QED
        BY <4>2, <4>3, <4>4
    <3>3. CASE ~selected
      <4>1. before = Larger(0, caret - 1) /\ end = Smaller(caret + 1, Len(content)) /\ count = 0
        BY <2>0, <3>3
      <4>2. before \in 0 .. o
        BY <2>0, <2>3, <3>1, <3>3, <4>1 DEF Larger
      <4>3. end \in n .. Len(content)
        BY <2>0, <2>3, <3>1, <3>3, <4>1 DEF Smaller
      <4> QED
        <5>1. n - o \in 0 .. 1
          BY <3>1, <3>3
        <5>2. Len(new) - (n - o) + count \in -1 .. 1
          <6>1. \A k, l \in 0 .. 1 : l - k + 0 \in -1 .. 1
            OBVIOUS
          <6> QED
            BY <2>3, <4>1, <5>1, <6>1
        <5> QED
          BY <4>2, <4>3, <5>2
    <3> QED
      BY <3>2, <3>3
  <2> HIDE DEF before, end
  <2>5. /\ after \in Nat /\ after <= Len(content) /\ after <= Len(content') /\ Len(content') \in Nat
        /\ after <= Len(content) - n /\ Len(content') - after >= o + Len(new)
    BY <2>0, <2>3, <2>4
  <2> HIDE DEF after
  <2>6. SubSeq(content', 1, before) = SubSeq(content, 1, before)
    <3>1. \A i \in 1 .. before : content'[i] = content[i]
      BY <2>2, <2>3, <2>4 DEF Edited, Spliced
    <3>2. before \in Nat /\ before <= Len(content) /\ before <= Len(content')
      BY <2>0, <2>3, <2>4
    <3> QED
      BY <2>0, <2>3, <3>1, <3>2, SameFront
  <2>7. SubSeq(content', Len(content') - after + 1, Len(content'))
            = SubSeq(content, Len(content) - after + 1, Len(content))
    <3>1. ASSUME NEW i \in 1 .. after
          PROVE  content'[Len(content') - after + i] = content[Len(content) - after + i]
      <4> DEFINE j == Len(content) - n - after + i
      <4>1. /\ j \in 1 .. Len(content) - n
            /\ Len(content') - after + i = o + Len(new) + j
            /\ Len(content) - after + i = n + j
        BY <2>0, <2>3, <2>5
      <4> HIDE DEF j
      <4>2. content'[o + Len(new) + j] = content[n + j]
        BY <2>2, <4>1 DEF Edited, Spliced
      <4> QED
        BY <4>1, <4>2
    <3> QED
      BY <2>0, <2>3, <2>5, <3>1, SameBack
  <2>8. /\ Len(content') - Len(content) + count \in -1 .. 1
        /\ c \in before .. Len(content') - after
    <3>1. Len(content') - Len(content) = Len(new) - (n - o)
      BY <2>0, <2>3
    <3>2. Len(content') - Len(content) + count \in -1 .. 1
      BY <2>4, <3>1
    <3> QED
      BY <2>0, <2>3, <2>4, <2>5, <3>2
  <2> QED
    BY <2>3, <2>6, <2>7, <2>8
<1>2. IInv /\ [Next]_vars => [EditWhereSeen]_vars
  BY <1>1 DEF IInv
<1> QED
  BY <1>2, Invariance, PTL DEF Spec, EditsWhereSeen
=============================================================================
