SPECIFICATION Spec
CONSTANTS
    ln = ln
    x = x
    z = z
    i = i
    ia = ia
    xa = xa
    y = y
    ya = ya
    xi = xi
    Root = Root
    Field <- Fields
    Kids <- MCKids
    Insts <- MCInsts
    Schemas <- NestedSchemas
    Inputs <- Replacements
    Invalidatable <- Handles
    MaxOffset = 3
CHECK_DEADLOCK FALSE
INVARIANT
    OffsetIsOrigin
    ReadsAsDescribed
    RangesInBuffer
