CONSTANTS
    s1 = s1
    s2 = s2
    Sessions <- MCSessions
    SessionCap <- MCSessionCap
    Paths = {"p"}
    Sizes = {0}
    Inputs <- SlotInputs
    MaxParallel = 2
    MaxAttempts = 1
    MaxJobs = 3
    MaxBatches = 0
    MaxUnread = 0
SPECIFICATION Spec
INVARIANTS
    DestinationsDistinct
    WalkPicksStartable
