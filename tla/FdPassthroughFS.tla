-------------------------- MODULE FdPassthroughFS --------------------------
(***************************************************************************)
(* filesystems/passthrough_fd.rs: PassthroughFS once more, over BackingFs. *)
(* The handle table holds raw descriptors, which nothing closes but        *)
(* release and the error paths.  It means to be a drop-in replacement      *)
(* (passthrough_fd.rs:10-13): DropIn compares the two.                     *)
(*                                                                         *)
(* A handler is one step: fuser calls them one at a time.                  *)
(***************************************************************************)
EXTENDS BackingFs

CONSTANTS MaxFh,      \* bound: file handles ever allocated
          ReadOnly    \* set_read_only

ASSUME FdFsAssumption ==
    /\ MaxFh \in Nat
    /\ ReadOnly \in BOOLEAN
    /\ None \notin [fd : Fd, node : Ino, flags : SUBSET {"write", "create"}]
    /\ None \notin [node : Ino, file : Ino, write : BOOLEAN]

VARIABLES inodeMap,   \* inode_to_path, None where there is no mapping
          openFiles,  \* open_files: the descriptor, the inode asked for, the flags
          nextFh,     \* next_fh
          effect,     \* the last mutation: its handler, the reply, and what it acted on
          astray      \* history: inodes a removal elsewhere left with no or a wrong path

fdVars == <<kind, entry, known, fds, inodeMap, openFiles, nextFh, effect, astray>>

Fh == 1 .. MaxFh

IsOpen(f) == openFiles[f] # None

\* The file a handle reads and writes, and whether it may write.
FileOf(f) == fds[openFiles[f].fd]

Writable(f) == "write" \in openFiles[f].flags

\* What PassthroughFS would hold in the place of the descriptors.  It opens what it
\* creates for reading and writing, whatever the caller asks for (passthrough.rs:881-899);
\* here the caller's access mode is kept.
AsHandles ==
    [f \in Fh |-> IF IsOpen(f)
                  THEN [node |-> openFiles[f].node, file |-> FileOf(f),
                        write |-> Writable(f) \/ "create" \in openFiles[f].flags]
                  ELSE None]

Reference == INSTANCE PassthroughFS WITH handles <- AsHandles

Outcome(op, ok, asked, node, dir) == Reference!Outcome(op, ok, asked, node, dir)
Did(op, node, dir) == Outcome(op, TRUE, node, node, dir)
NoEffect == Outcome("none", TRUE, None, None, None)

\* An error reply: nothing but the outcome changes.
Fail(op) ==
    /\ effect' = Outcome(op, FALSE, None, None, None)
    /\ UNCHANGED <<kind, entry, known, fds, inodeMap, openFiles, nextFh, astray>>

\* System calls that leave the tree e with kinds k, and the descriptors t.
Becomes(k, e, t, seen) ==
    /\ fds' = t
    /\ TreeBecomes(k, e, OpenInodes(t), seen)

\* The next handle is for inode i, under the descriptor that was opened last.
Handle(i, flags) ==
    /\ openFiles' = [openFiles EXCEPT
                        ![nextFh] = [fd |-> NewFd(fds), node |-> i, flags |-> flags]]
    /\ nextFh' = nextFh + 1

FdInit ==
    /\ TreeInit
    /\ fds = [d \in Fd |-> None]
    /\ inodeMap = [i \in Ino |-> IF i = Root THEN <<>> ELSE None]
    /\ openFiles = [f \in Fh |-> None]
    /\ nextFh = 1
    /\ effect = NoEffect
    /\ astray = {}
----------------------------------------------------------------------------
\* Mutant: a lookup that finds nothing is answered all the same.
LookupNegative(d, n) ==
    /\ inodeMap[d] # None
    /\ LET path == Append(inodeMap[d], n)
       IN  /\ inodeMap' = [inodeMap EXCEPT ![Stat(path)] = path]
           /\ known' = known \cup {Stat(path)}
           /\ astray' = astray \ {Stat(path)}
    /\ effect' = NoEffect
    /\ UNCHANGED <<kind, entry, fds, openFiles, nextFh>>

\* lookup: the kernel learns of an inode, and its path is registered.
Lookup(d, n) ==
    /\ inodeMap[d] # None
    /\ LET path == Append(inodeMap[d], n)
       IN  /\ Stat(path) # None
           /\ inodeMap' = [inodeMap EXCEPT ![Stat(path)] = path]
           /\ known' = known \cup {Stat(path)}
           /\ astray' = astray \ {Stat(path)}
    /\ effect' = NoEffect
    /\ UNCHANGED <<kind, entry, fds, openFiles, nextFh>>

\* readdir: every child is registered; of the names one inode has, any may come last.
Readdir(d) ==
    /\ inodeMap[d] # None
    /\ CanReaddir(inodeMap[d])
    /\ LET dir == Stat(inodeMap[d])
           children == {i \in Ino : \E n \in Name : entry[dir][n] = i}
       IN  /\ \E nameOf \in [children -> Name] :
                /\ \A i \in children : entry[dir][nameOf[i]] = i
                /\ inodeMap' = [i \in Ino |-> IF i \in children
                                              THEN Append(inodeMap[d], nameOf[i])
                                              ELSE inodeMap[i]]
           /\ astray' = astray \ children
    /\ effect' = NoEffect
    /\ UNCHANGED <<kind, entry, known, fds, openFiles, nextFh>>

\* open: what is at the path registered for i is opened, whatever it is now.
Open(i, write) ==
    /\ nextFh \in Fh
    /\ ~(ReadOnly /\ write)
    /\ inodeMap[i] # None /\ CanOpen(inodeMap[i])
    /\ Becomes(kind, entry, OpenedOn(fds, Stat(inodeMap[i])), {})
    /\ Handle(i, IF write THEN {"write"} ELSE {})
    /\ effect' = NoEffect
    /\ UNCHANGED <<inodeMap, astray>>

\* Mutant: the descriptor is not closed.
ReleaseKeepsFd(f) ==
    /\ IsOpen(f)
    /\ openFiles' = [openFiles EXCEPT ![f] = None]
    /\ effect' = NoEffect
    /\ UNCHANGED <<kind, entry, known, fds, inodeMap, nextFh, astray>>

\* Mutant: the descriptor is closed, the handle stays in the table.
ReleaseKeepsHandle(f) ==
    /\ IsOpen(f)
    /\ Becomes(kind, entry, Closed(fds, openFiles[f].fd), {})
    /\ effect' = NoEffect
    /\ UNCHANGED <<openFiles, inodeMap, nextFh, astray>>

\* release: out of the table, then closed.
Release(f) ==
    /\ IsOpen(f)
    /\ openFiles' = [openFiles EXCEPT ![f] = None]
    /\ Becomes(kind, entry, Closed(fds, openFiles[f].fd), {})
    /\ effect' = NoEffect
    /\ UNCHANGED <<inodeMap, nextFh, astray>>
----------------------------------------------------------------------------
\* write: by descriptor alone.
Write(f) ==
    IF ReadOnly \/ ~IsOpen(f)
    THEN Fail("write")
    ELSE /\ effect' = Outcome("write", TRUE, openFiles[f].node, FileOf(f), None)
         /\ UNCHANGED <<kind, entry, known, fds, inodeMap, openFiles, nextFh, astray>>

AtPath(i) == IF inodeMap[i] = None THEN None ELSE Stat(inodeMap[i])

\* setattr with a size: by the handle if there is one, and then it must be open for
\* writing; else the file at the path is opened, cut and closed again.  What follows
\* goes by path, and when it fails the reply is an error although the file has been cut.
Truncate(i, f) ==
    LET byFh == f # None /\ IsOpen(f)
        cut == IF byFh THEN FileOf(f) ELSE AtPath(i)
        can == IF byFh THEN Writable(f) ELSE CanOpen(inodeMap[i])
        table == IF byFh THEN fds ELSE Closed(OpenedOn(fds, cut), NewFd(fds))
    IN  IF ReadOnly \/ inodeMap[i] = None \/ ~can
        THEN Fail("truncate")
        ELSE /\ Becomes(kind, entry, table, {})
             /\ \E ok \in {AtPath(i) # None, FALSE} :
                  effect' = Outcome("truncate", ok, IF byFh THEN i ELSE cut, cut, None)
             /\ UNCHANGED <<inodeMap, openFiles, nextFh, astray>>

\* setattr without a size: mode, owner and times, all by path; op as in PassthroughFS.  A
\* later attribute may be refused, or not be read back, when an earlier one has been changed.
Chattr(i, op) ==
    IF ReadOnly \/ AtPath(i) = None
    THEN Fail(op)
    ELSE /\ \E ok \in BOOLEAN : effect' = Outcome(op, ok, AtPath(i), AtPath(i), None)
         /\ UNCHANGED <<kind, entry, known, fds, inodeMap, openFiles, nextFh, astray>>
----------------------------------------------------------------------------
\* create: openat(O_CREAT) with the caller's flags, of which O_EXCL, O_TRUNC and the access
\* mode matter: without O_EXCL, what the path leads to is opened when it is there, and
\* with O_TRUNC it is cut.  Then fstat, which may fail.
CreateMade(i, r, n, path, flags) ==
    LET fresh == kind[i] = "free"
        k == IF fresh THEN [kind EXCEPT ![i] = "file"] ELSE kind
        e == IF fresh THEN [entry EXCEPT ![r][n] = i] ELSE entry
    IN  \/ /\ Becomes(k, e, OpenedOn(fds, i), {i})
           /\ inodeMap' = [inodeMap EXCEPT ![i] = path]
           /\ Handle(i, {"create"} \cup (flags \cap {"write"}))
           /\ astray' = astray \ {i}
           /\ effect' = Did("create", i, r)
        \/ /\ Becomes(k, e, Closed(OpenedOn(fds, i), NewFd(fds)), {})
           /\ effect' = IF fresh \/ "trunc" \in flags
                        THEN Outcome("create", FALSE, i, i, r)
                        ELSE Outcome("create", FALSE, None, None, None)
           /\ UNCHANGED <<inodeMap, openFiles, nextFh, astray>>

Create(d, n, flags) ==
    LET r == AtPath(d)
        c == Child(r, n)
    IN  IF \/ ReadOnly \/ ~IsDir(r) \/ FreeFds(fds) = {}
           \/ IsDir(c) \/ ("excl" \in flags /\ IsFile(c))
        THEN Fail("create")
        ELSE /\ nextFh \in Fh
             /\ \E i \in Ino :
                  /\ IF IsFile(c) THEN i = c ELSE kind[i] = "free"
                  /\ CreateMade(i, r, n, Append(inodeMap[d], n), flags)

\* mkdir: mkdirat, then stat, which may fail.
Mkdir(d, n) ==
    LET r == AtPath(d)
    IN  IF ReadOnly \/ ~IsDir(r) \/ Child(r, n) # None
        THEN Fail("mkdir")
        ELSE \E i \in Ino :
               /\ kind[i] = "free"
               /\ \/ /\ Becomes([kind EXCEPT ![i] = "dir"], [entry EXCEPT ![r][n] = i],
                                fds, {i})
                     /\ inodeMap' = [inodeMap EXCEPT ![i] = Append(inodeMap[d], n)]
                     /\ astray' = astray \ {i}
                     /\ effect' = Did("mkdir", i, r)
                  \/ /\ Becomes([kind EXCEPT ![i] = "dir"], [entry EXCEPT ![r][n] = i],
                                fds, {})
                     /\ effect' = Outcome("mkdir", FALSE, i, i, r)
                     /\ UNCHANGED <<inodeMap, astray>>
               /\ UNCHANGED <<openFiles, nextFh>>

\* Mutant: the mapping of what is removed stays.
RemovesKeepsMapping(op, r, n) ==
    LET i == entry[r][n]
        e == [entry EXCEPT ![r][n] = None]
    IN  /\ Becomes(kind, e, fds, {})
        /\ astray' = IF \E d \in Ino, m \in Name : e[d][m] = i
                     THEN astray \cup {i} ELSE astray \ {i}
        /\ effect' = Did(op, i, r)
        /\ UNCHANGED <<openFiles, nextFh, inodeMap>>

\* Removing the entry n of r: the inode was stat'ed before, its mapping goes.
Removes(op, r, n) ==
    LET i == entry[r][n]
        e == [entry EXCEPT ![r][n] = None]
    IN  /\ Becomes(kind, e, fds, {})
        /\ inodeMap' = [inodeMap EXCEPT ![i] = None]
        /\ astray' = IF \E d \in Ino, m \in Name : e[d][m] = i
                     THEN astray \cup {i} ELSE astray \ {i}
        /\ effect' = Did(op, i, r)
        /\ UNCHANGED <<openFiles, nextFh>>

Unlink(d, n) ==
    LET r == AtPath(d)
    IN  IF ReadOnly \/ ~IsDir(r) \/ ~IsFile(Child(r, n))
        THEN Fail("unlink")
        ELSE Removes("unlink", r, n)

Rmdir(d, n) ==
    LET r == AtPath(d)
    IN  IF ReadOnly \/ ~IsDir(r) \/ ~IsDir(Child(r, n)) \/ ~IsEmpty(Child(r, n))
        THEN Fail("rmdir")
        ELSE Removes("rmdir", r, n)

\* rename: only the moved inode is registered anew.
Rename(d, n, b, m) ==
    LET r == AtPath(d)
        s == AtPath(b)
        old == Append(inodeMap[d], n)
        new == Append(inodeMap[b], m)
        i == Child(r, n)
        lost == {j \in Ino \ {i} : /\ inodeMap[j] # None
                                   /\ IsPrefix(old, inodeMap[j]) \/ IsPrefix(new, inodeMap[j])}
    IN  IF ReadOnly \/ r = None \/ s = None \/ i \notin Ino \/ ~CanRename(r, n, s, m, new)
        THEN Fail("rename")
        ELSE /\ Becomes(kind,
                        IF Child(s, m) = i THEN entry
                        ELSE [entry EXCEPT ![r][n] = None, ![s][m] = i], fds, {})
             /\ inodeMap' = [inodeMap EXCEPT ![i] = new]
             /\ astray' = (astray \cup lost) \ {i}
             /\ effect' = Did("rename", i, s)
             /\ UNCHANGED <<openFiles, nextFh>>
============================================================================
