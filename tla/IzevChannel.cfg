CONSTANTS
    p1 = p1
    p2 = p2
    x1 = x1
    x2 = x2
    dev = dev
    main = main
    Project = {p1, p2}
    Channel = {dev, main}
    Main = main
    Change = {x1, x2}
    None = None
    Rank <- MCRank
    PageSize = 2
    Placeholders = 1
SPECIFICATION Spec
INVARIANT ShownIsActive
SYMMETRY Symmetry
CHECK_DEADLOCK FALSE
