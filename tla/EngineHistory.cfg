CONSTANTS
    Sessions = {0}
    SessionCap <- NoCap
    Paths = {"p", "q"}
    Sizes = {0}
    MaxParallel = 1
    MaxAttempts = 2
    Commands = {"Copy", "CancelRow", "RetryRow", "ClearFinished", "StartSync", "RunSync", "Shutdown"}
    Endings = {"Failed"}
    CopyPlans <- TwoFilesOrAsk
    SyncPlans <- TwoWays
    PartOf <- MCPartOf
    MaxBatches = 3
    MaxScans = 1
SPECIFICATION Spec
INVARIANTS
    HistoryExact
    ListingsFresh
CHECK_DEADLOCK FALSE
