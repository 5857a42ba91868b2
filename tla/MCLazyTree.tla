----------------------------- MODULE MCLazyTree -----------------------------
(***************************************************************************)
(* Small schemas for LazyTree: a struct with the seq fields fa, fb, fc     *)
(* and the instances ia, ib.                                               *)
(***************************************************************************)
EXTENDS LazyTree

CONSTANTS fa, fb, fc, ia, ib

Fields == {fa, fb, fc, ia, ib}
Nothing == {}
WholeTree == {Root}
Edited == {fa, ia}

Lit(v) == [lit |-> v, refs |-> <<>>]
One(via, n) == [lit |-> 0, refs |-> <<[via |-> via, node |-> n]>>]
Two(via, m, n) == [lit |-> 0, refs |-> <<[via |-> via, node |-> m],
                                         [via |-> via, node |-> n]>>]
Plain == [kind |-> "u1", cond |-> NoExpr, expr |-> NoExpr]
Sized(e) == [kind |-> "bytes", cond |-> NoExpr, expr |-> e]
Computed(e) == [kind |-> "value", cond |-> NoExpr, expr |-> e]
Instance(e) == [kind |-> "at", cond |-> NoExpr, expr |-> e]
If(e, attr) == [attr EXCEPT !.cond = e]

Long == <<1, 2, 1, 0, 2, 1, 1, 1, 2, 1, 1, 1>>
Short == <<2, 1>>
Zero == <<0, 2, 1, 0, 2, 1, 1, 1, 2, 1, 1, 1>>

Struct(as, bs, cs, is, js, bytes) ==
    {[seq |-> <<fa, fb, fc>>, data |-> d,
      attr |-> [n \in Fields |-> CASE n = fa -> w [] n = fb -> x [] n = fc -> y
                                   [] n = ia -> p [] n = ib -> q]]
       : w \in as, x \in bs, y \in cs, p \in is, q \in js, d \in bytes}

\* Reading: sizes, conditions and values that refer to a field, to a value
\* instance or (cyclically) to one another, and positioned instances.
ReadSchemas ==
    Struct({Plain},
           {Plain, Sized(One("ident", fa)), Sized(One("member", ia)), If(One("ident", fa), Plain)},
           {Plain, Sized(One("member", fa)), If(One("ident", ia), Sized(Lit(1)))},
           {Computed(One("ident", fa)), Computed(Two("member", fa, fb)), Computed(One("member", ib))},
           {Computed(Two("ident", ia, fa)), Instance(One("ident", fa)), Instance(One("ident", ia)),
            Instance(NoExpr), If(One("member", fc), Instance(Lit(3)))},
           {Long, Short})
    \cup Struct({Plain}, {Plain, Sized(One("member", ia)), If(One("ident", fa), Plain)}, {Plain},
                {Computed(One("ident", fa)), Instance(Lit(0))},
                {Instance(NoExpr), Computed(One("member", fc))}, {Long, Zero})
    \cup Struct({Plain, If(Lit(1), Plain)}, {If(One("ident", fa), Plain)}, {Plain},
                {Computed(Two("member", fa, fb))},
                {If(One("member", fc), Instance(Lit(3))), Computed(Two("ident", ia, fa))}, {Long, Zero})

\* Editing: the same shapes with member accesses only.  Where fc is plain, an
\* edit of fa moves the end of fb from under it.
EditSchemas ==
    Struct({Plain},
           {Sized(One("member", fa)), If(One("member", fa), Plain)},
           {Sized(One("member", ia)), Plain},
           {Computed(Two("member", fa, fb))},
           {Computed(Two("member", ia, fa)), Instance(One("member", ia))},
           {Long})

\* The plain field fc behind fb, whose size is fa.
PositionSchemas ==
    Struct({Plain}, {Sized(One("member", fa))}, {Plain}, {Computed(One("member", fb))},
           {Computed(One("member", fc))}, {Long})

\* The size of fb is the sibling fa by its bare name (fa: len, fb: size: len).
IdentSchemas ==
    Struct({Plain},
           {Sized(One("ident", fa))}, {Plain}, {Computed(One("member", fa))},
           {Computed(One("ident", ia))}, {Long})

\* The size of fb is an instance at a literal position.
FooterSchemas ==
    Struct({Plain},
           {Sized(One("ident", ia))}, {Plain}, {Instance(Lit(1))},
           {Computed(One("ident", fa)), Instance(Lit(0))}, {Long, Short})
=============================================================================
