CONSTANTS
    Sessions = {0}
    SessionCap <- NoCap
    Paths = {"p", "q"}
    Sizes = {0}
    MaxParallel = 1
    MaxAttempts = 1
    Commands = {"Copy", "CancelRow"}
    Endings = {}
    CopyPlans <- OneFile
    SyncPlans <- NoSyncs
    PartOf <- MCPartOf
    MaxScans = 1
    MaxBatches = 1
SPECIFICATION Spec
PROPERTIES
    CancelledScanCopiesNothing
