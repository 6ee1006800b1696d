CONSTANTS
    p1 = p1
    p2 = p2
    q1 = q1
    q2 = q2
    x1 = x1
    x2 = x2
    dev = dev
    main = main
    a = a
    ab = ab
    Project = {p1, p2}
    Proc = {q1, q2}
    Change = {x1, x2}
    Channel = {main, dev}
    Main = main
    Source = {a, ab}
    Command = {"init", "mount", "create", "switch", "fork", "remove", "export", "status"}
    MaxRuns = 4
    Within <- MCWithin
    None = None
SPECIFICATION Spec
INVARIANT RemovalSparesMounts
SYMMETRY Symmetry
CHECK_DEADLOCK FALSE
