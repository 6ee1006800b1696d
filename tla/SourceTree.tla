----------------------------- MODULE SourceTree -----------------------------
(***************************************************************************)
(* What is outside the file systems of ize: the tree of the source         *)
(* directory as its system calls see it (inodes, directory entries, what   *)
(* they refuse), and the dentries by which the kernel addresses a FUSE     *)
(* file system.  Symbolic links and file contents are left out.            *)
(***************************************************************************)
EXTENDS Naturals, FiniteSets, SequencesExt

CONSTANTS Ino,        \* inode numbers of the source file system
          Root,       \* the inode of the source directory (FUSE_ROOT_ID for the kernel)
          Name,       \* names of directory entries
          Trees,      \* the initial source trees: [kind, entry] records
          None        \* no inode, no path, no handle

\* Inodes something still refers to: an entry of e, or an open file.
Live(e, open) ==
    {Root} \cup open \cup {i \in Ino : \E d \in Ino, n \in Name : e[d][n] = i}

\* Kinds k and entries e as a file system keeps them while the files open are open: only
\* directories have entries, none leads to the root, a directory has one parent and one
\* name, and what nothing refers to does not exist.
WellFormed(k, e, open) ==
    /\ k \in [Ino -> {"free", "file", "dir"}]
    /\ e \in [Ino -> [Name -> Ino \cup {None}]]
    /\ k[Root] = "dir"
    /\ open \subseteq {i \in Ino : k[i] = "file"}
    /\ \A d \in Ino, n \in Name : e[d][n] # None => k[d] = "dir" /\ e[d][n] # Root
    /\ \A i, c, d \in Ino, n, m \in Name :
          k[i] = "dir" /\ e[c][n] = i /\ e[d][m] = i => c = d /\ n = m
    /\ \A i \in Ino : k[i] = "free" <=> i \notin Live(e, open)

ASSUME TreeAssumption ==
    /\ Root \in Ino
    /\ None \notin Ino /\ None \notin Seq(Name)
    /\ \A t \in Trees : WellFormed(t.kind, t.entry, {})

VARIABLES kind,       \* what an inode is, "free" when nothing refers to it
          entry,      \* directory entries: entry[d][n] is the inode named n in d
          known       \* inodes the kernel has a dentry for

treeVars == <<kind, entry, known>>

TreeInit ==
    /\ \E t \in Trees : kind = t.kind /\ entry = t.entry
    /\ known = {Root}

IsDir(i) == i \in Ino /\ kind[i] = "dir"
IsFile(i) == i \in Ino /\ kind[i] = "file"

Child(d, n) == IF IsDir(d) THEN entry[d][n] ELSE None

\* The inode at path p below the source directory, None when there is none.
Walk(p) ==
    LET at[k \in 0 .. Len(p)] == IF k = 0 THEN Root ELSE Child(at[k - 1], p[k])
    IN  at[Len(p)]

\* The tree becomes e with kinds k while the files open are open; what nothing refers to
\* any more is freed (its number may be used again), and the kernel, which learns of
\* seen, forgets it.
TreeBecomes(k, e, open, seen) ==
    /\ entry' = e
    /\ kind' = [i \in Ino |-> IF i \in Live(e, open) THEN k[i] ELSE "free"]
    /\ known' = (known \cup seen) \cap Live(e, open)

IsEmpty(d) == \A n \in Name : entry[d][n] = None

\* rename(2): what stands at the new name must be replaceable by what moves there,
\* and a directory cannot move below itself.
CanRename(r, n, s, m, to) ==
    LET i == Child(r, n)
        j == Child(s, m)
    IN  /\ i # None /\ IsDir(s)
        /\ j # None => /\ IsDir(i) <=> IsDir(j)
                       /\ IsDir(j) => j = i \/ IsEmpty(j)
        /\ IsDir(i) => \A k \in 0 .. Len(to) - 1 : Walk(SubSeq(to, 1, k)) # i

\* What the kernel asks about, it has a dentry for.
KnownDir(d) == d \in known /\ IsDir(d)
KnownFile(i) == i \in known /\ IsFile(i)
=============================================================================
