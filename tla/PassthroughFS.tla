--------------------------- MODULE PassthroughFS ---------------------------
(***************************************************************************)
(* filesystems/passthrough.rs: the FUSE handlers that expose a source      *)
(* directory.  The kernel names files by inode number; the handlers turn   *)
(* the number into a path with a map of their own (inode_to_path) and act  *)
(* on the path.  The map is filled by lookup, readdir, create, mkdir and   *)
(* rename, and thinned by unlink and rmdir, so it can be behind the tree.  *)
(*                                                                         *)
(* fuser calls one handler at a time (&mut self): a handler is one step.   *)
(***************************************************************************)
EXTENDS SourceTree

CONSTANTS MaxFh,      \* bound: file handles ever allocated
          ReadOnly    \* new_read_only or new

ASSUME FsAssumption ==
    /\ MaxFh \in Nat
    /\ ReadOnly \in BOOLEAN
    /\ None \notin [node : Ino, file : Ino, write : BOOLEAN]

VARIABLES inodeMap,   \* inode_to_path, None where there is no mapping
          handles,    \* file_handles: the inode the kernel opened, the file really open
          nextFh,     \* next_fh
          effect,     \* the last mutation: its handler, the reply, and what it acted on
          astray      \* history: inodes a removal elsewhere left with no or a wrong path

fsVars == <<kind, entry, inodeMap, handles, nextFh, known, effect, astray>>

Fh == 1 .. MaxFh
----------------------------------------------------------------------------
\* inode_to_path.get, with the root's path built in by every handler.
PathOf(i) == IF i = Root THEN <<>> ELSE inodeMap[i]

\* A system call that leaves the tree e with kinds k, and the handles h.
Becomes(k, e, h, seen) ==
    /\ handles' = h
    /\ TreeBecomes(k, e, {h[f].file : f \in {g \in Fh : h[g] # None}}, seen)

\* Handler op was asked for inode asked, acted on node, and changed directory dir.
Outcome(op, ok, asked, node, dir) ==
    [op |-> op, ok |-> ok, asked |-> asked, node |-> node, dir |-> dir]

Did(op, node, dir) == Outcome(op, TRUE, node, node, dir)
Failed(op) == Outcome(op, FALSE, None, None, None)

\* An error reply: nothing but the outcome changes.
Fail(op) ==
    /\ effect' = Failed(op)
    /\ UNCHANGED <<kind, entry, inodeMap, handles, nextFh, known, astray>>

\* No mutation is under way.
NoEffect == Outcome("none", TRUE, None, None, None)

Init ==
    /\ TreeInit
    /\ inodeMap = [i \in Ino |-> IF i = Root THEN <<>> ELSE None]
    /\ handles = [f \in Fh |-> None]
    /\ nextFh = 1
    /\ effect = NoEffect
    /\ astray = {}
----------------------------------------------------------------------------
\* Mutant: an entry is replied for a name that is not there.
LookupNegative(d, n) ==
    /\ d \in known /\ IsDir(d)
    /\ PathOf(d) # None
    /\ known' = known \cup {Walk(Append(PathOf(d), n))}
    /\ effect' = NoEffect
    /\ UNCHANGED <<kind, entry, inodeMap, handles, nextFh, astray>>

\* lookup: the kernel learns of an inode, and its path is registered.
Lookup(d, n) ==
    /\ d \in known /\ IsDir(d)
    /\ PathOf(d) # None
    /\ LET path == Append(PathOf(d), n)
           i == Walk(path)
       IN  /\ i # None
           /\ inodeMap' = [inodeMap EXCEPT ![i] = path]
           /\ known' = known \cup {i}
           /\ astray' = astray \ {i}
    /\ effect' = NoEffect
    /\ UNCHANGED <<kind, entry, handles, nextFh>>

\* readdir: every child is registered, in directory order: of the names one inode
\* has in the directory, any may come last.
Readdir(d) ==
    /\ d \in known /\ IsDir(d)
    /\ PathOf(d) # None
    /\ LET path == PathOf(d)
           dir == Walk(path)
           children == {Child(dir, n) : n \in Name} \ {None}
       IN  /\ IsDir(dir)
           /\ \E nameOf \in [children -> Name] :
                /\ \A i \in children : Child(dir, nameOf[i]) = i
                /\ inodeMap' = [i \in Ino |-> IF i \in children
                                              THEN Append(path, nameOf[i])
                                              ELSE inodeMap[i]]
           /\ astray' = astray \ children
    /\ effect' = NoEffect
    /\ UNCHANGED <<kind, entry, handles, nextFh, known>>

\* Mutant: the handle is issued under a number that is in use.
OpenReusingFh(i, write) ==
    /\ i \in known /\ IsFile(i)
    /\ nextFh \in Fh
    /\ ~(ReadOnly /\ write)
    /\ PathOf(i) # None
    /\ LET file == Walk(PathOf(i))
       IN  /\ IsFile(file)
           /\ Becomes(kind, entry,
                      [handles EXCEPT ![1] = [node |-> i, file |-> file, write |-> write]],
                      {})
    /\ nextFh' = nextFh + 1
    /\ effect' = NoEffect
    /\ UNCHANGED <<inodeMap, astray>>

\* open: the file at the path registered for i is opened, whatever it is now.
Open(i, write) ==
    /\ i \in known /\ IsFile(i)
    /\ nextFh \in Fh
    /\ ~(ReadOnly /\ write)
    /\ PathOf(i) # None
    /\ LET file == Walk(PathOf(i))
       IN  /\ IsFile(file)
           /\ Becomes(kind, entry,
                      [handles EXCEPT ![nextFh] = [node |-> i, file |-> file,
                                                   write |-> write]], {})
    /\ nextFh' = nextFh + 1
    /\ effect' = NoEffect
    /\ UNCHANGED <<inodeMap, astray>>

\* release: the handle is dropped, which closes the file.
Release(f) ==
    /\ handles[f] # None
    /\ Becomes(kind, entry, [handles EXCEPT ![f] = None], {})
    /\ effect' = NoEffect
    /\ UNCHANGED <<inodeMap, nextFh, astray>>
----------------------------------------------------------------------------
\* write: by handle alone, the inode number plays no part.
Write(f) ==
    IF ReadOnly \/ handles[f] = None
    THEN Fail("write")
    ELSE /\ effect' = Outcome("write", TRUE, handles[f].node, handles[f].file, None)
         /\ UNCHANGED <<kind, entry, inodeMap, handles, nextFh, known, astray>>

\* setattr with a size: through the handle when it is open for writing, else by path.
\* What follows (chmod, chown, utimensat, the attributes read back) goes by path; when it
\* fails the reply is an error although the file has been cut.
Truncate(i, f) ==
    LET byFh == f # None /\ handles[f] # None /\ handles[f].write
        there == IF PathOf(i) = None THEN None ELSE Walk(PathOf(i))
    IN  IF ReadOnly \/ PathOf(i) = None \/ (~byFh /\ ~IsFile(there))
        THEN Fail("truncate")
        ELSE /\ \E ok \in {there # None, FALSE} :
                  effect' = IF byFh
                            THEN Outcome("truncate", ok, i, handles[f].file, None)
                            ELSE Outcome("truncate", ok, there, there, None)
             /\ UNCHANGED <<kind, entry, inodeMap, handles, nextFh, known, astray>>

\* setattr without a size: mode, owner and times, all by path; op tells a setattr of the
\* owner alone, "chown", from the others, "chattr".  A later attribute may be refused, or
\* not be read back, when an earlier one has been changed.
Chattr(i, op) ==
    LET there == IF PathOf(i) = None THEN None ELSE Walk(PathOf(i))
    IN  IF ReadOnly \/ there = None
        THEN Fail(op)
        ELSE /\ \E ok \in BOOLEAN : effect' = Outcome(op, ok, there, there, None)
             /\ UNCHANGED <<kind, entry, inodeMap, handles, nextFh, known, astray>>
----------------------------------------------------------------------------
\* The directory a handler acts in: the one at the parent's registered path.
ParentDir(d) == IF PathOf(d) = None THEN None ELSE Walk(PathOf(d))

\* Mutant: the new inode is not registered.
MakesUnregistered(op, k, r, d, n, i) ==
    /\ kind[i] = "free"
    /\ inodeMap' = [inodeMap EXCEPT ![i] = None]
    /\ astray' = astray \ {i}
    /\ effect' = Did(op, i, r)

\* open(O_CREAT | O_EXCL), or mkdir, gives the new inode i the name n in directory r.
Makes(op, k, r, d, n, i) ==
    /\ kind[i] = "free"
    /\ inodeMap' = [inodeMap EXCEPT ![i] = Append(PathOf(d), n)]
    /\ astray' = astray \ {i}
    /\ effect' = Did(op, i, r)

\* The same when the attributes of what was made cannot be read back: an error is
\* replied, nothing is registered and nothing stays open, but the new entry is there.
MakesUnseen(op, i, r) ==
    /\ kind[i] = "free"
    /\ effect' = Outcome(op, FALSE, i, i, r)
    /\ UNCHANGED <<inodeMap, astray, nextFh>>

\* create: made exclusively, stat'ed, registered and left open for reading and writing.
Create(d, n) ==
    LET r == ParentDir(d)
        Made(i, h, seen) ==
            Becomes([kind EXCEPT ![i] = "file"], [entry EXCEPT ![r][n] = i], h, seen)
    IN  IF ReadOnly \/ ~IsDir(r) \/ Child(r, n) # None
        THEN Fail("create")
        ELSE /\ nextFh \in Fh
             /\ \E i \in Ino :
                  \/ /\ Makes("create", "file", r, d, n, i)
                     /\ Made(i, [handles EXCEPT ![nextFh] = [node |-> i, file |-> i,
                                                             write |-> TRUE]], {i})
                     /\ nextFh' = nextFh + 1
                  \/ MakesUnseen("create", i, r) /\ Made(i, handles, {})

Mkdir(d, n) ==
    LET r == ParentDir(d)
        Made(i, seen) ==
            Becomes([kind EXCEPT ![i] = "dir"], [entry EXCEPT ![r][n] = i], handles, seen)
    IN  IF ReadOnly \/ ~IsDir(r) \/ Child(r, n) # None
        THEN Fail("mkdir")
        ELSE \E i \in Ino :
                \/ Makes("mkdir", "dir", r, d, n, i) /\ Made(i, {i}) /\ UNCHANGED nextFh
                \/ MakesUnseen("mkdir", i, r) /\ Made(i, {})

\* Removing the entry n of r: the mapping of its inode goes, also when the inode has
\* other names and lives on.
Removes(op, r, n) ==
    LET i == Child(r, n)
        e == [entry EXCEPT ![r][n] = None]
    IN  /\ Becomes(kind, e, handles, {})
        /\ inodeMap' = [inodeMap EXCEPT ![i] = None]
        /\ astray' = IF \E d \in Ino, m \in Name : e[d][m] = i
                     THEN astray \cup {i} ELSE astray \ {i}
        /\ effect' = Did(op, i, r)
        /\ UNCHANGED nextFh

\* Mutant: the mapping of the removed file is kept.
UnlinkKeepsMapping(d, n) ==
    LET r == ParentDir(d)
    IN  IF ReadOnly \/ ~IsFile(Child(r, n))
        THEN Fail("unlink")
        ELSE /\ Becomes(kind, [entry EXCEPT ![r][n] = None], handles, {})
             /\ effect' = Did("unlink", Child(r, n), r)
             /\ UNCHANGED <<nextFh, inodeMap, astray>>

Unlink(d, n) ==
    LET r == ParentDir(d)
    IN  IF ReadOnly \/ ~IsFile(Child(r, n))
        THEN Fail("unlink")
        ELSE Removes("unlink", r, n)

Rmdir(d, n) ==
    LET r == ParentDir(d)
    IN  IF ReadOnly \/ ~IsDir(Child(r, n)) \/ ~IsEmpty(Child(r, n))
        THEN Fail("rmdir")
        ELSE Removes("rmdir", r, n)

\* rename: only the moved inode is registered anew.  What was registered below a moved
\* directory, or at the new path, keeps a path that has come to mean something else.
Rename(d, n, b, m) ==
    LET r == ParentDir(d)
        s == ParentDir(b)
        old == Append(PathOf(d), n)
        new == Append(PathOf(b), m)
        i == Child(r, n)
        lost == {j \in Ino \ {i} : /\ inodeMap[j] # None
                                   /\ IsPrefix(old, inodeMap[j]) \/ IsPrefix(new, inodeMap[j])}
    IN  IF ReadOnly \/ PathOf(d) = None \/ PathOf(b) = None \/ ~CanRename(r, n, s, m, new)
        THEN Fail("rename")
        ELSE /\ Becomes(kind,
                        IF Child(s, m) = i THEN entry
                        ELSE [entry EXCEPT ![r][n] = None, ![s][m] = i], handles, {})
             /\ inodeMap' = [inodeMap EXCEPT ![i] = new]
             /\ astray' = (astray \cup lost) \ {i}
             /\ effect' = Did("rename", i, s)
             /\ UNCHANGED nextFh
----------------------------------------------------------------------------
\* Any request, answered; and the reply that ends it.
Step ==
    \/ /\ effect' = NoEffect
       /\ \/ \E d \in Ino, n \in Name : Lookup(d, n)
          \/ \E d \in Ino : Readdir(d)
          \/ \E i \in Ino, write \in BOOLEAN : Open(i, write)
          \/ \E f \in Fh : Release(f)
          \/ UNCHANGED <<kind, entry, inodeMap, handles, nextFh, known, astray>>
    \/ effect'.op = "write" /\ \E f \in Fh : Write(f)
    \/ effect'.op = "truncate" /\ \E i \in Ino, f \in Fh \cup {None} : Truncate(i, f)
    \/ effect'.op \in {"chattr", "chown"} /\ \E i \in Ino : Chattr(i, effect'.op)
    \/ effect'.op = "create" /\ \E d \in Ino, n \in Name : Create(d, n)
    \/ effect'.op = "mkdir" /\ \E d \in Ino, n \in Name : Mkdir(d, n)
    \/ effect'.op = "unlink" /\ \E d \in Ino, n \in Name : Unlink(d, n)
    \/ effect'.op = "rmdir" /\ \E d \in Ino, n \in Name : Rmdir(d, n)
    \/ effect'.op = "rename" /\ \E d, b \in Ino, n, m \in Name : Rename(d, n, b, m)
    \/ Fail(effect'.op)
============================================================================
