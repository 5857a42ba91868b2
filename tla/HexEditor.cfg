SPECIFICATION Spec
CONSTANTS
    Base = 2
    Columns = 2
    VisibleRows = 1
    Printable = {1}
    Initial <- InitialBytes
    Loads <- LoadedBytes
    Null = Null
    MaxIndex = 5
    MaxEvents = 6
CHECK_DEADLOCK FALSE
INVARIANTS
    CaretInBuffer
    PairMakesByte
PROPERTY
    EditsWhereSeen
