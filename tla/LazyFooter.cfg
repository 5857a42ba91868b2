SPECIFICATION Spec
CONSTANTS
    fa = fa
    fb = fb
    fc = fc
    ia = ia
    ib = ib
    Root = Root
    Field <- Fields
    Schemas <- FooterSchemas
    EditValues = {}
    Dirtiable <- Nothing
    Invalidatable <- Nothing
    MaxEvalDepth = 3
CHECK_DEADLOCK FALSE
INVARIANT
    NoFalseCycle
