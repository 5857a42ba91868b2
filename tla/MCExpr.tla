------------------------------- MODULE MCExpr -------------------------------
(***************************************************************************)
(* Expressions of one operator over a field of each width and sign the     *)
(* promotion rule tells apart, and of another over some of them or over a  *)
(* comparison that has to compute first.  A byte has one bit: int and u4   *)
(* are 4 bits wide, int64 and u8 are 8.                                    *)
(***************************************************************************)
EXTENDS ExprPipeline

MCFields == [b |-> "U1", u |-> "U4le", s |-> "S4be", w |-> "U8", d |-> "Bytes"]
MCIdents == {"b", "u", "s", "w", "d", "size", "first", "max", "to_i", "u1", "s4", "u8"}
MCNumValue == [n0 |-> 0, n1 |-> 1, n3 |-> 3, n9 |-> 9]
MCStrValue == [q |-> << 1 >>]

Names(fs) == { IdentNode(f) : f \in fs }
MCLeaves == << Names(DOMAIN MCFields) \cup { IntNode(i) : i \in {0, 3, 9} }
                 \cup { BoolNode(TRUE), ArrayNode(<< IntNode(0), IntNode(1) >>) },
               Names({"s", "d"}) \cup {IntNode(3), BinaryNode("<", MemberNode(IdentNode("d"), "max"), IntNode(3))} >>
MCBinaries == << {"+", "-", "*", "/", "%", "<<", ">>", "&", "^", "<", "==", "and", "or"},
                 {"-", "/", "<<", "<", "|", "and"} >>

Env(b, u, s, w, d) == [b |-> Integer(b), u |-> Integer(u), s |-> Integer(s), w |-> Integer(w), d |-> ByteArray(d)]
MCEnvs == { Env(1, 5, -3, 100, << 0, 1 >>), Env(0, 12, 7, 200, << 1 >>), Env(1, 0, -8, 2, << >>) }
=============================================================================
