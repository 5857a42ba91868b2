----------------------------- MODULE HexEditor ------------------------------
(***************************************************************************)
(* Editing bytes with the keyboard (web/src/components/hex): the caret and *)
(* the selection, which the workspace holds and others set as well, the    *)
(* nibble and the mode, which the component holds, and the buffer, which   *)
(* may be replaced at any time.  Handlers see what the last render gave    *)
(* them.  Keys and clicks are rendered at once, everything else some time  *)
(* later.                                                                  *)
(***************************************************************************)
EXTENDS Integers, Sequences, ByteEdits

CONSTANTS
    Base,       \* values of a digit: 16 in the code
    Columns, VisibleRows,
    Printable,  \* bytes that can be typed in the ASCII column
    Initial,    \* the bytes to begin with
    Loads,      \* the binaries that may be loaded
    Null,
    MaxIndex,   \* bound: where the node of a tree may start and end
    MaxEvents   \* bound: everything but renders

ASSUME LayoutAssumption == /\ Base \in Nat \ {0} /\ Columns \in Nat \ {0}
                           /\ VisibleRows \in Nat /\ MaxIndex \in Nat /\ MaxEvents \in Nat

Byte == 0 .. Base * Base - 1
ASSUME BytesAssumption == Initial \in Seq(Byte) /\ Loads \subseteq Seq(Byte) /\ Printable \subseteq Byte

VARIABLES
    content,    \* the bytes in the buffer
    selection,  \* hexSelection of the workspace
    nibble, insertMode, dragging,
    seen,       \* selection and buffer length as last rendered
    due,        \* a key or click has to be rendered
    tree,       \* whether there is a tree in view
    events,
    typed       \* history: the digit typed last, if only as a high nibble, and where

vars == <<content, selection, nibble, insertMode, dragging, seen, due, tree, events, typed>>

Digit == 0 .. Base - 1
Smaller(a, b) == IF a < b THEN a ELSE b
Larger(a, b) == IF a < b THEN b ELSE a
At(offset, column) == [anchor |-> offset, caret |-> offset, column |-> column]

-----------------------------------------------------------------------------
(* Rendering.                                                              *)

Now == [selection |-> selection, length |-> Len(content)]

\* Faulty variant: the anchor is not clamped.
ClampedCaret(s, length) == [s EXCEPT !.caret = Smaller(@, length)]
Clamped(s, length) == [s EXCEPT !.anchor = Smaller(@, length), !.caret = Smaller(@, length)]

\* The effect of a render may clamp the selection, which is rendered in turn
\* before anything else happens.
Render ==
    /\ seen # Now \/ due
    /\ seen' = Now
    /\ selection' = Clamped(selection, Len(content))
    /\ due' = (selection' # selection)
    /\ UNCHANGED <<content, nibble, insertMode, dragging, tree, events, typed>>

Event == ~due /\ events < MaxEvents /\ events' = events + 1
UserEvent == Event /\ due' = TRUE

-----------------------------------------------------------------------------
(* Edit operations, on what was rendered.                                  *)

caret == seen.selection.caret
low == Smaller(seen.selection.anchor, caret)
count == Larger(seen.selection.anchor, caret) - low
selected == count > 0

InsertOp(offset, byte) == [kind |-> "insert", offset |-> offset, byte |-> byte]
OverwriteOp(offset, byte) == [kind |-> "overwrite", offset |-> offset, byte |-> byte]
DeleteOp(offset, n) == [kind |-> "delete", offset |-> offset, count |-> n]

Outcome(ops, newCaret, newNibble) == [ops |-> ops, newCaret |-> newCaret, newNibble |-> newNibble]

\* What typing replaces goes first, the caret to its place.
removal == IF selected THEN <<DeleteOp(low, count)>> ELSE <<>>
place == IF selected THEN low ELSE caret
inserts == selected \/ insertMode \/ caret = seen.length
byteAtCaret == IF selected \/ caret >= seen.length THEN 0 ELSE content[caret + 1]

\* Faulty variant: the caret stays where it was in the selection.
TypeHexDigitAtCaret(digit) ==
    LET insert == Outcome(removal \o <<InsertOp(caret, digit * Base)>>, caret, "low")
        high == Outcome(<<OverwriteOp(caret, digit * Base + (byteAtCaret % Base))>>, caret, "low")
        second == Outcome(<<OverwriteOp(caret, byteAtCaret - (byteAtCaret % Base) + digit)>>,
                          caret + 1, "high") IN
    IF nibble = "low" /\ ~selected THEN second ELSE IF inserts THEN insert ELSE high

TypeHexDigit(digit) ==
    LET insert == Outcome(removal \o <<InsertOp(place, digit * Base)>>, place, "low")
        high == Outcome(<<OverwriteOp(caret, digit * Base + (byteAtCaret % Base))>>, caret, "low")
        second == Outcome(<<OverwriteOp(caret, byteAtCaret - (byteAtCaret % Base) + digit)>>,
                          caret + 1, "high") IN
    IF nibble = "low" /\ ~selected THEN second ELSE IF inserts THEN insert ELSE high

TypeAscii(byte) ==
    LET op == IF inserts THEN InsertOp(place, byte) ELSE OverwriteOp(place, byte) IN
    Outcome(removal \o <<op>>, place + 1, "high")

\* Faulty variant: the nibble stays.
BackspaceOnly ==
    IF selected THEN Outcome(removal, low, nibble)
    ELSE IF caret = 0 THEN Outcome(<<>>, 0, nibble)
    ELSE Outcome(<<DeleteOp(caret - 1, 1)>>, caret - 1, nibble)

Backspace ==
    IF selected THEN Outcome(removal, low, "high")
    ELSE IF caret = 0 THEN Outcome(<<>>, 0, "high")
    ELSE Outcome(<<DeleteOp(caret - 1, 1)>>, caret - 1, "high")

DeleteForward ==
    IF selected THEN Outcome(removal, low, "high")
    ELSE IF caret >= seen.length THEN Outcome(<<>>, caret, "high")
    ELSE Outcome(<<DeleteOp(caret, 1)>>, caret, "high")

-----------------------------------------------------------------------------
(* Keys.                                                                   *)

InRange(bytes, op) ==
    IF op.kind = "delete" THEN op.offset + op.count <= Len(bytes) ELSE op.offset <= Len(bytes)
Effect(bytes, op) ==
    CASE op.kind = "delete" -> Deleted(bytes, op.offset, op.count)
      [] op.kind = "insert" -> Inserted(bytes, op.offset, <<op.byte>>)
      [] op.kind = "overwrite" -> Overwritten(bytes, op.offset, <<op.byte>>)

\* The operations, of which there are at most two, up to the first that throws.
AndThen(r, op) == IF r.ok /\ InRange(r.bytes, op) THEN [r EXCEPT !.bytes = Effect(@, op)]
                  ELSE [r EXCEPT !.ok = FALSE]
Applied(ops) ==
    LET none == [ok |-> TRUE, bytes |-> content]
        first == AndThen(none, ops[1]) IN
    CASE Len(ops) = 0 -> none [] Len(ops) = 1 -> first [] OTHER -> AndThen(first, ops[2])

\* Reading the byte at the caret throws before anything is done if the
\* buffer has become shorter than it was rendered.
Readable == caret < seen.length => caret < Len(content)

ApplyEdit(result, digit) ==
    LET r == Applied(result.ops) IN
    /\ Event
    /\ Readable
    /\ content' = r.bytes
    /\ \/ /\ r.ok
          /\ due' = TRUE
          /\ selection' = At(result.newCaret, seen.selection.column)
          /\ nibble' = result.newNibble
          /\ typed' = IF nibble' = "low" THEN [digit |-> digit, at |-> result.newCaret] ELSE Null
       \/ /\ ~r.ok
          /\ UNCHANGED <<selection, nibble, due, typed>>
    /\ UNCHANGED <<insertMode, dragging, seen, tree>>

TypeHex(digit) == seen.selection.column = "hex" /\ ApplyEdit(TypeHexDigit(digit), digit)
TypeChar(byte) == seen.selection.column = "ascii" /\ ApplyEdit(TypeAscii(byte), Null)
PressBackspace == ApplyEdit(Backspace, Null)
PressDelete == ApplyEdit(DeleteForward, Null)

PressInsert ==
    /\ UserEvent
    /\ insertMode' = ~insertMode
    /\ UNCHANGED <<content, selection, nibble, dragging, seen, tree, typed>>

\* Where each navigation key leads.
Target(key, ctrl) ==
    LET row == caret - (caret % Columns)
        page == VisibleRows * Columns IN
    CASE key = "ArrowLeft"  -> Larger(0, caret - 1)
      [] key = "ArrowRight" -> Smaller(seen.length, caret + 1)
      [] key = "ArrowUp"    -> Larger(caret % Columns, caret - Columns)
      [] key = "ArrowDown"  -> Smaller(seen.length, caret + Columns)
      [] key = "Home"       -> IF ctrl THEN 0 ELSE row
      [] key = "End"        -> IF ctrl THEN seen.length ELSE Smaller(seen.length, row + Columns)
      [] key = "PageUp"     -> Larger(0, caret - page)
      [] key = "PageDown"   -> Smaller(seen.length, caret + page)
NavigationKey == {"ArrowLeft", "ArrowRight", "ArrowUp", "ArrowDown", "Home", "End", "PageUp",
                  "PageDown"}

Navigate(moved) ==
    /\ UserEvent
    /\ selection' = moved
    /\ nibble' = "high"
    /\ typed' = Null
    /\ UNCHANGED <<content, insertMode, dragging, seen, tree>>

MoveCaret(key, ctrl, shift) ==
    LET to == Target(key, ctrl) IN
    Navigate([seen.selection EXCEPT !.caret = to, !.anchor = IF shift THEN @ ELSE to])
PressTab == Navigate([seen.selection EXCEPT !.column = IF @ = "hex" THEN "ascii" ELSE "hex"])

-----------------------------------------------------------------------------
(* The pointer.  Rows are filled up with cells beyond the last byte.       *)

Cells == 0 .. (seen.length \div Columns + 1) * Columns - 1

PointerDown(offset, column, shift) ==
    /\ UserEvent
    /\ selection' = [anchor |-> IF shift THEN seen.selection.anchor ELSE offset,
                     caret |-> offset, column |-> column]
    /\ nibble' = "high"
    /\ typed' = Null
    /\ dragging' = TRUE
    /\ UNCHANGED <<content, insertMode, seen, tree>>

PointerMove(offset, column) ==
    /\ Event
    /\ dragging
    /\ offset # caret \/ column # seen.selection.column
    /\ selection' = [seen.selection EXCEPT !.caret = offset, !.column = column]
    /\ UNCHANGED <<content, nibble, insertMode, dragging, seen, due, tree, typed>>

PointerUp ==
    /\ Event
    /\ dragging
    /\ dragging' = FALSE
    /\ UNCHANGED <<content, selection, nibble, insertMode, seen, due, tree, typed>>

-----------------------------------------------------------------------------
(* What the workspace does besides.                                        *)

\* A node of the tree, whose range nothing compares with the buffer: the tree may
\* have been parsed from other bytes.
SelectTreeNode(from, to) ==
    /\ UserEvent
    /\ tree
    /\ selection' = [selection EXCEPT !.anchor = from, !.caret = to]
    /\ typed' = Null
    /\ UNCHANGED <<content, nibble, insertMode, dragging, seen, tree>>

\* A binary has been dropped or read, or a project opened.
Load(bytes) ==
    /\ Event
    /\ content' = bytes
    /\ selection' = At(0, "hex")
    /\ typed' = Null
    /\ UNCHANGED <<nibble, insertMode, dragging, seen, due, tree>>
SetProject ==
    /\ Event
    /\ selection' = At(0, "hex")
    /\ typed' = Null
    /\ UNCHANGED <<content, nibble, insertMode, dragging, seen, due, tree>>

\* A parse succeeds, or fails and leaves no tree.
Parsed ==
    /\ Event
    /\ tree' \in BOOLEAN
    /\ UNCHANGED <<content, selection, nibble, insertMode, dragging, seen, due, typed>>

-----------------------------------------------------------------------------
Init ==
    /\ content = Initial
    /\ selection = At(0, "hex")
    /\ nibble = "high" /\ insertMode = FALSE /\ dragging = FALSE
    /\ seen = Now
    /\ due = FALSE
    /\ tree = FALSE
    /\ events = 0
    /\ typed = Null

Key == \/ \E digit \in Digit : TypeHex(digit)
       \/ \E byte \in Printable : TypeChar(byte)
       \/ PressBackspace \/ PressDelete \/ PressInsert \/ PressTab
       \/ \E key \in NavigationKey, ctrl, shift \in BOOLEAN : MoveCaret(key, ctrl, shift)
Pointer == \/ \E offset \in Cells, column \in {"hex", "ascii"} :
                 PointerMove(offset, column) \/ \E shift \in BOOLEAN : PointerDown(offset, column, shift)
           \/ PointerUp
Workspace == \/ \E from \in 0 .. MaxIndex : \E to \in from .. MaxIndex : SelectTreeNode(from, to)
             \/ \E bytes \in Loads : Load(bytes)
             \/ SetProject \/ Parsed

Next == Render \/ Key \/ Pointer \/ Workspace
Spec == Init /\ [][Next]_vars

-----------------------------------------------------------------------------
(* Properties.                                                             *)

\* Once all is rendered, caret and anchor are in the buffer, whoever set them
\* and however it was replaced.
CaretInBuffer == seen = Now /\ ~due =>
                     selection.caret <= Len(content) /\ selection.anchor <= Len(content)

\* Two digits typed in turn make one byte: when the second one comes, the
\* first is still the high digit of the byte at the caret.
PairMakesByte ==
    nibble = "low" /\ typed # Null /\ selection.anchor = selection.caret =>
        /\ selection.caret = typed.at /\ typed.at < Len(content)
        /\ content[typed.at + 1] \div Base = typed.digit

\* A key edits what the user sees selected, or a byte next to the caret, and
\* nothing before or after, all of it or nothing; and the caret goes along.
EditWhereSeen ==
    content' # content /\ ~(\E bytes \in Loads : Load(bytes)) =>
        LET before == IF selected THEN low ELSE Larger(0, caret - 1)
            after == Len(content) - (IF selected THEN low + count ELSE Smaller(caret + 1, Len(content))) IN
        /\ SubSeq(content', 1, before) = SubSeq(content, 1, before)
        /\ SubSeq(content', Len(content') - after + 1, Len(content'))
               = SubSeq(content, Len(content) - after + 1, Len(content))
        /\ Len(content') - Len(content) + count \in -1 .. 1
        /\ selection'.anchor = selection'.caret
        /\ selection'.caret \in before .. Len(content') - after
EditsWhereSeen == [][EditWhereSeen]_vars
=============================================================================
