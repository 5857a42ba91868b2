SPECIFICATION Spec
CONSTANTS
    fa = fa
    fb = fb
    fc = fc
    ia = ia
    ib = ib
    Root = Root
    Field <- Fields
    Schemas <- PositionSchemas
    EditValues = {2}
    Dirtiable <- Edited
    Invalidatable <- Nothing
    MaxEvalDepth = 3
CHECK_DEADLOCK FALSE
INVARIANT
    FieldsStayContiguous
