CONSTANTS
    s1 = s1
    s2 = s2
    Sessions <- MCSessions
    SessionCap <- MCSessionCap
    Paths = {"p", "q"}
    Sizes = {1}
    Inputs <- RowInputs
    MaxParallel = 1
    MaxAttempts = 2
    MaxJobs = 2
    MaxBatches = 1
    MaxUnread = 2
SPECIFICATION Spec
INVARIANTS
    TypeOK
    IndexesConsistent
    RowsConsistent
    CountersConsistent
    ChangesTellAll
    BytesConsistent
