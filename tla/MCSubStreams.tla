---------------------------- MODULE MCSubStreams ----------------------------
(***************************************************************************)
(* Small schemas for SubLayout: the root holds a byte ln (a length), a     *)
(* struct x, a byte z and a struct i at a position; x holds a byte xa, y   *)
(* and a field xi at a position; y and i may be structs of one byte.       *)
(***************************************************************************)
EXTENDS SubLayout

CONSTANTS ln, x, z, i, ia, xa, y, ya, xi

Fields == {ln, x, z, i, ia, xa, y, ya, xi}
MCKids == [n \in Fields \cup {Root} |->
             CASE n = Root -> <<ln, x, z>> [] n = x -> <<xa, y>> [] n = y -> <<ya>>
               [] n = i -> <<ia>> [] OTHER -> <<>>]
MCInsts == [n \in Fields \cup {Root} |->
              CASE n = Root -> {i} [] n = x -> {xi} [] OTHER -> {}]
Nothing == {}
Structs == {Root, x, i}

Lit(k) == [how |-> "lit", k |-> k, of |-> Root]
From(n) == [how |-> "field", k |-> 0, of |-> n]
Eos == [how |-> "eos", k |-> 0, of |-> Root]

Byte == [kind |-> "u1", size |-> NoSize]
Blob(size) == [kind |-> "bytes", size |-> size]
User(size) == [kind |-> "user", size |-> size]

Long == <<4, 1, 2, 3, 0, 1, 5>>
Short == <<3, 2, 1>>
Empty == <<0, 2, 1>>

\* The schema where x, y, xi and i are as given; ya is there if y is a struct.
Of(sx, b, inst, si, d) ==
    [kind |-> [n \in Fields \cup {Root} |->
                 CASE n = y -> b.kind [] n = xi -> inst.kind
                   [] n \in Structs -> "user" [] OTHER -> "u1"],
     size |-> [n \in Fields \cup {Root} |->
                 CASE n = x -> sx [] n = y -> b.size [] n = xi -> inst.size
                   [] n = i -> si [] OTHER -> NoSize],
     pos |-> [n \in Fields |-> 1],
     nested |-> b.size = NoSize,
     data |-> d]

\* A struct that takes the rest of its stream is the last in it: y does so only
\* if x has a size.
NestedSchemas ==
    {Of(From(ln), b, Blob(Lit(2)), Lit(3), d) :
       b \in {Byte, Blob(From(xa)), User(NoSize), User(From(xa)), User(Eos)}, d \in {Long, Short}}
    \cup
    {Of(Lit(2), b, Byte, Eos, Long) : b \in {Blob(From(xa)), User(NoSize), User(From(xa))}}
    \cup
    {Of(From(ln), b, Byte, NoSize, Empty) : b \in {Blob(From(xa)), User(From(xa))}}
    \cup
    {Of(From(ln), Byte, Blob(From(z)), NoSize, Long)}
    \cup
    {Of(NoSize, b, Byte, si, d) :
       b \in {Byte, Blob(From(xa)), User(NoSize), User(From(xa))}, si \in {NoSize, Eos},
       d \in {Long, Short}}

Handles == {Root, y}
Replacements == {Short}
=============================================================================
