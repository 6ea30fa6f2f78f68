CONSTANTS
    p = p
    q = q
    g = g
    h = h
    Profiles = {p, q}
    Aliases = {g, h}
    Markers = {"password"}
    Unhappy = {"Failed", "NoKeyring", "StoreFailed", "TimedOut"}
    MaxSecrets = 2
    MaxJobs = 2
    MaxConnects = 1
    a = a
    b = b
    c = c
    d = d
    Calls = {a, b, c, d}
SPECIFICATION Spec
SYMMETRY Names
INVARIANTS
    KeyringAgrees
    MarkersAhead
    ToldAtRest
CHECK_DEADLOCK FALSE
