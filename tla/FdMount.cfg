CONSTANTS
    root = root
    i1 = i1
    i2 = i2
    na = na
    nb = nb
    Ino = {root, i1, i2}
    Root = root
    Name = {na, nb}
    MaxFd = 2
    MaxFh = 3
    ReadOnly = FALSE
    None = None
    IgnoredDirs = {}
    Trees <- MCTrees
SPECIFICATION MountSpec
INVARIANTS
    TypeOK
    FdOwnership
    MapLeadsBack
    HandlersStayBelow
    LogNamesSubject
PROPERTIES
    HandleKeepsFile
    DropIn
SYMMETRY Symmetry
CHECK_DEADLOCK FALSE
