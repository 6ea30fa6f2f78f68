CONSTANTS
    MaxEvents = 3
    MaxPending = 2
    MaxSessions = 2
SPECIFICATION AppSpec
INVARIANTS
    DeletesWhatItNamed
CHECK_DEADLOCK FALSE
