SPECIFICATION FairSpec
CONSTANTS
    MaxRequests = 3
    MaxSessions = 2
    HistoryLength = 2
    SlowStart = FALSE
CHECK_DEADLOCK FALSE
INVARIANTS
    TypeOK
    ClientMatchesServer
    ShownAreRegistered
    PageIsShown
PROPERTIES
    HandledOnce
    UiUnblocks
