---------------------------- MODULE MCFdMount ----------------------------
EXTENDS FdMount

CONSTANTS root, i1, i2, na, nb

Empty == [i \in Ino |-> [n \in Name |-> None]]

Others == Ino \ {Root}

\* A directory with a file in it, under any names and numbers; and one file with two
\* names.
MCTrees ==
    {[kind |-> [i \in Ino |-> CASE i \in {Root, d} -> "dir" [] i = f -> "file" [] OTHER -> "free"],
      entry |-> [Empty EXCEPT ![Root][n] = d, ![d][m] = f]] :
         <<d, f>> \in {<<i, j>> \in Others \X Others : i # j}, n \in Name, m \in Name}
    \cup
    {[kind |-> [i \in Ino |-> CASE i = Root -> "dir" [] i = f -> "file" [] OTHER -> "free"],
      entry |-> [Empty EXCEPT ![Root] = [n \in Name |-> f]]] : f \in Others}

\* Inode numbers and names are interchangeable.
Symmetry == Permutations(Others) \cup Permutations(Name)
============================================================================
