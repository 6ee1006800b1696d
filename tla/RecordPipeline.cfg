CONSTANTS
    p = p
    q = q
    Path = {p, q}
    Capacity = 1
    MaxOps = 2
    MaxLen = 2
    MaxSessions = 2
    None = None
    FirstDisks <- MCFirstDisks
SPECIFICATION FairSpec
INVARIANTS
    TypeOK
    NothingForgotten
    InFlightSorted
    SettledAtExit
PROPERTIES
    TakenInOrder
    QueueServed
CHECK_DEADLOCK FALSE
