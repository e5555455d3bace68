SPECIFICATION Spec
CONSTANTS
    h1 = h1  h2 = h2
    t1 = t1  t2 = t2  t3 = t3  t4 = t4
    c1 = c1  c2 = c2  c3 = c3  c4 = c4  c5 = c5
    NoConnection = NoConnection
    Threads = {h1, h2}
    Transactions = {t1, t2, t3, t4}
    Unisolated = {t3}
    Connections = {c1, c2, c3}
    MaxConnections = 2
    MaxDepth = 1
    MaxWrites = 1
    MaxBreaks = 1
    CommitMayFail = TRUE
SYMMETRY MCSymmetry
CHECK_DEADLOCK FALSE
INVARIANTS
    ExclusiveConnections
    IdleConnectionsAreClean
    AllOrNothing
