-------------------------- MODULE MCRecordPipeline --------------------------
EXTENDS RecordPipeline

CONSTANTS p, q

\* An empty directory, and one with a file that was there before `ize init`.
MCFirstDisks ==
    {[x \in Path |-> None]} \cup {[x \in Path |-> IF x = y THEN <<1>> ELSE None] : y \in Path}

Symmetry == Permutations(Path)
=============================================================================
