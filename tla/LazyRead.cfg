SPECIFICATION Spec
CONSTANTS
    fa = fa
    fb = fb
    fc = fc
    ia = ia
    ib = ib
    Root = Root
    Field <- Fields
    Schemas <- ReadSchemas
    EditValues = {}
    Dirtiable <- Nothing
    Invalidatable <- Nothing
    MaxEvalDepth = 3
CHECK_DEADLOCK FALSE
INVARIANTS
    TypeOK
    StackDiscipline
    Layout
    NoSpuriousError
PROPERTIES
    AnswersAreStable
    Terminates
