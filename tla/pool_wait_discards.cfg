SPECIFICATION FairSpec
CONSTANTS
    h1 = h1  h2 = h2
    t1 = t1  t2 = t2  t3 = t3  t4 = t4
    c1 = c1  c2 = c2  c3 = c3  c4 = c4  c5 = c5
    NoConnection = NoConnection
    Threads = {h1, h2}
    Transactions = {t1, t2}
    Unisolated = {}
    Connections = {c1}
    MaxConnections = 1
    MaxDepth = 1
    MaxWrites = 1
    MaxBreaks = 0
    CommitMayFail = FALSE
CHECK_DEADLOCK FALSE
PROPERTIES
    WaitersAreServed
