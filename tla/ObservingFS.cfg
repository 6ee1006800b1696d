CONSTANTS
    root = root
    i1 = i1
    i2 = i2
    i3 = i3
    na = na
    nb = nb
    Ino = {root, i1, i2, i3}
    Root = root
    Name = {na, nb}
    MaxFh = 2
    ReadOnly = FALSE
    None = None
    IgnoredDirs = {}
    Trees <- MCTrees
SPECIFICATION ObsSpec
INVARIANTS
    TypeOK
    MapLeadsBack
    ReachableIsMapped
    OpcodeNamesSubject
PROPERTIES
    MutationRecorded
    OpensWhatWasAsked
    HandlesStable
SYMMETRY Symmetry
CHECK_DEADLOCK FALSE
