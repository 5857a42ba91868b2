SPECIFICATION Spec
CONSTANTS
    f1 = f1
    f2 = f2
    FileSet <- FileSets
    Parse = Parse
    NoFiles = NoFiles
    Loaded = Loaded
    MaxCalls = 4
    MaxErrors = 1
CHECK_DEADLOCK FALSE
INVARIANTS
    TypeOK
    NoLostPromise
    CallsInOrder
PROPERTIES
    Implements
    CallsSettle
    ReadySettles
