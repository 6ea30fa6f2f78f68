CONSTANTS
    Paths = {p}
    Callers = {c1, c2}
    InRuntime = {c1}
    MayFail = TRUE
    MaxWrites = 2
    MaxTasks = 2
    MaxAborts = 1
SPECIFICATION Spec
INVARIANTS
    NothingLost
    FlushKept
    OneTask
PROPERTIES
    NeverBack
