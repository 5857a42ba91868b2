SPECIFICATION Spec
CONSTANTS
    main = main
    lib = lib
    bin = bin
    local0 = local0
    repo = repo
    importing = importing
    broken = broken
    data1 = data1
    data2 = data2
    Vfs = {local0, repo}
    KsyPath <- KsyPaths
    BinPath = {bin}
    Text <- Texts
    PanelText = {broken}
    Contents = {data1, data2}
    NoText = NoText
    Imports <- ImportsOf
    Invalid = {broken}
    Files0 <- FilesOf
    Binary <- Binaries
    Missing = Missing
    Null = Null
    Project0 <- LocalProject
    Projects <- OtherProjects
    Contents0 = data1
    ParseCall = ParseCall
    Loaded = Loaded
    Unanswered = Unanswered
    Failed = Failed
    MaxEvents = 2
CHECK_DEADLOCK FALSE
INVARIANTS
    ShowsPresent
    LoadingIsTrue
    OwnFiles
    MarkedIsLoaded
PROPERTIES
    NoStaleResult
    LoadingEnds
