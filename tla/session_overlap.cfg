SPECIFICATION Spec
CONSTANTS
    MaxRequests = 3
    MaxSessions = 1
    HistoryLength = 2
    SlowStart = FALSE
CHECK_DEADLOCK FALSE
INVARIANTS
    OneWorkerAtATime
