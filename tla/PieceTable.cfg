SPECIFICATION Spec
CONSTANTS
    Byte = {1, 2, 3, 4, 5, 6}
    Initial <- InitialBytes
    Inserts <- InsertedBytes
    MaxVersion = 4
CHECK_DEADLOCK FALSE
INVARIANT
    TypeOK
PROPERTIES
    HistoryKept
    Implements
