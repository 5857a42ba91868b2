SPECIFICATION Spec
CONSTANTS
    fa = fa
    fb = fb
    fc = fc
    ia = ia
    ib = ib
    Root = Root
    Field <- Fields
    Schemas <- EditSchemas
    EditValues = {0, 2}
    Dirtiable <- Edited
    Invalidatable <- WholeTree
    MaxEvalDepth = 2
CHECK_DEADLOCK FALSE
INVARIANTS
    EdgesMirror
    NoStaleDependent
    ReferencesFollowEdits
PROPERTIES
    UnrelatedStayIntact
