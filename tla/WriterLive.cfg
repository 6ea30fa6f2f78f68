CONSTANTS
    Paths = {p}
    Callers = {c1, c2}
    InRuntime = {c1}
    MayFail = FALSE
    MaxWrites = 2
    MaxTasks = 2
    MaxAborts = 1
SPECIFICATION LiveSpec
PROPERTIES
    WritesLand
    CallsReturn
