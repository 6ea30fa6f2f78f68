CONSTANTS
    Sessions = {0, 1}
    SessionCap <- OneChannel
    Paths = {"p", "q"}
    Sizes = {0}
    MaxParallel = 2
    MaxAttempts = 2
    Commands = {"Copy", "CancelRow", "CancelAllTransfers", "RetryRow", "Disconnect"}
    Endings = {"Panicked"}
    CopyPlans <- OneFile
    SyncPlans <- NoSyncs
    PartOf <- MCPartOf
    MaxBatches = 2
    MaxScans = 2
SPECIFICATION Spec
INVARIANTS
    OneAnswerEach
    WorkConserving
PROPERTIES
    ImplementsJobLife
