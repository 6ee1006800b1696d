--------------------------- MODULE MCProjectStore ---------------------------
EXTENDS ProjectChannels, TLC

CONSTANTS a, ab, p1, p2, q1, q2, x1, x2, dev, main

\* ab is a directory below a, whose mount line therefore contains the path of a.
MCWithin == [s \in Source |-> IF s = a THEN {a, ab} \cap Source ELSE {s}]

\* Projects, processes and changes are interchangeable.
Symmetry == Permutations(Project) \cup Permutations(Proc) \cup Permutations(Change)
=============================================================================
