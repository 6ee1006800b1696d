CONSTANTS
    p = p
    q = q
    Path = {p, q}
    Capacity = 2
    MaxOps = 3
    MaxLen = 2
    MaxSessions = 1
    None = None
    FirstDisks <- MCFirstDisks
SPECIFICATION Spec
PROPERTIES
    TruncationSetsSize
CHECK_DEADLOCK FALSE
