CONSTANTS
    Edits = {0, 1}
    AutoUpload = {TRUE, FALSE}
    Breaks = {"Failed", "Panicked"}
    MaxForeign = 1
    MaxEvents = 3
    MaxPending = 2
    MaxSessions = 2
    Commands = {"a", "b"}
    MaxTrouble = 3
    Lengths = {2, 3, 4}
    MaxVersions = 2
    MaxAttempts = 3
    Tolerance = 1
    LastPart = 3
    MaxUploads = 3
    MaxFaults = 4
    MaxDepth = 1
    MaxResults = 2
    MaxKeys = 3
    Hosts = {"h", "g"}
    Keys = {1, 2}
    Words = {1, 2}
    MaxConnects = 2
    MaxChanges = 1
    MaxPresses = 3
SPECIFICATION Spec
INVARIANTS
    OneOwner
    ReplacesWhatWasRead
    QuestionsKept
    InStep
    CopiedWhole
    CompletesOwn
    CallsSafe
    SyncSettles
    NothingReplacedUnasked
    SearchFindsAll
    OneSessionEach
    OnlyAccepted
    PanelTrue
PROPERTIES
    TypedKept
CHECK_DEADLOCK FALSE
