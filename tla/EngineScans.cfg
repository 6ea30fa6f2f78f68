CONSTANTS
    Sessions = {0}
    SessionCap <- NoCap
    Paths = {"p", "q"}
    Sizes = {0}
    MaxParallel = 1
    MaxAttempts = 1
    Commands = {"Copy", "ResolveConflicts", "CancelRow", "CancelAllTransfers", "Disconnect", "StartSync", "RunSync", "CancelSync"}
    Endings = {"Failed", "Panicked"}
    CopyPlans <- AskOrNothing
    SyncPlans <- TwoWays
    PartOf <- MCPartOf
    MaxBatches = 3
    MaxScans = 2
SPECIFICATION LiveSpec
INVARIANTS
    NothingLeftOver
    FrontEndKnows
PROPERTIES
    WorkEnds
    CancelledSyncCopiesNothing
