------------------------------- MODULE MCIzev -------------------------------
EXTENDS Izev, TLC

CONSTANTS p1, p2, x1, x2, dev, main

MCRank == dev :> 1 @@ main :> 2

\* Projects and changes are interchangeable.
Symmetry == Permutations(Project) \cup Permutations(Change)
=============================================================================
