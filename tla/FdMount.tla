------------------------------ MODULE FdMount ------------------------------
(***************************************************************************)
(* bin/ize_mount_fd.rs: FdPassthroughFS mounted over the very directory it *)
(* reads from, behind ObservingFS, with a DumpObserver when --dump is      *)
(* given.  One thread serves the mount.  A system call of this thread that *)
(* the kernel must ask the mount about is never answered: the thread waits *)
(* for itself.  Two kinds of call may do so, those below base_fd when it   *)
(* refers to the mount, and those by a path below the mount point.         *)
(***************************************************************************)
EXTENDS DumpObserver

ASSUME MountAssumption == None \notin {"tree", "mount", "observer", "handler"}

VARIABLES phase,     \* of the process: "out" when there is none, "opened", "mounted"
          top,       \* what the directory's path leads to: the "tree", the "mount", or one
                     \* that is "dead" for want of a server
          base,      \* what base_fd refers to: None, the "tree" below or the "mount"
          dump,      \* --dump
          waits      \* for what the serving thread waits for itself: None, "observer", "handler"

mountVars == <<fdVars, logged, phase, top, base, dump, waits>>

MountInit ==
    /\ FdInit
    /\ logged = <<>>
    /\ phase = "out"
    /\ top = "tree"
    /\ base = None
    /\ dump = FALSE
    /\ waits = None
----------------------------------------------------------------------------
\* The program is started: canonicalize and is_dir, which fail on a dead mount, then
\* LibcBackingFs::open_dir, which opens what the path leads to.
OpenDir ==
    /\ phase = "out"
    /\ top # "dead"
    /\ phase' = "opened"
    /\ base' = top
    /\ dump' \in BOOLEAN
    /\ UNCHANGED <<fdVars, logged, top, waits>>

\* Mutant: the directory is mounted over whether it has been opened or not.
MountAnyTime ==
    /\ phase \in {"out", "opened"} /\ top # "dead"
    /\ phase' = IF phase = "out" THEN phase ELSE "mounted"
    /\ top' = "mount"
    /\ UNCHANGED <<fdVars, logged, base, dump, waits>>

\* fuser::mount2.
Mount ==
    /\ phase = "opened"
    /\ phase' = "mounted"
    /\ top' = "mount"
    /\ UNCHANGED <<fdVars, logged, base, dump, waits>>

\* The process ends: its tables and descriptors go with it, and the kernel forgets its
\* inodes.  The tables are those of a new process at once.
Ends ==
    /\ phase' = "out"
    /\ base' = None
    /\ openFiles' = [f \in Fh |-> None]
    /\ fds' = [d \in Fd |-> None]
    /\ entry' = entry
    /\ kind' = [i \in Ino |-> IF i \in Live(entry, {}) THEN kind[i] ELSE "free"]
    /\ known' = {Root}
    /\ inodeMap' = [i \in Ino |-> IF i = Root THEN <<>> ELSE None]
    /\ astray' = {}
    /\ nextFh' = 1
    /\ effect' = NoEffect
    /\ LogEntries(<<>>)
    /\ waits' = None
    /\ UNCHANGED dump

\* fusermount -u refuses while the mount is in use (a handle, a request under way, a
\* working directory).
Busy == waits # None \/ effect # NoEffect \/ \E f \in Fh : IsOpen(f)

\* By hand: mount2 returns.
Unmount == phase = "mounted" /\ ~Busy /\ Ends /\ top' = "tree"

\* By the signal handler, which exits the process also when fusermount has refused or
\* cannot be run: the mount is left without a server.
Interrupt ==
    /\ phase = "mounted"
    /\ Ends
    /\ top' = "dead" \/ (~Busy /\ top' = "tree")

\* A signal, or a mount that is refused, before there is a mount.
GivesUp == phase = "opened" /\ Ends /\ UNCHANGED top

\* A dead mount is taken away by hand.
Fusermount ==
    /\ top = "dead"
    /\ top' = "tree"
    /\ UNCHANGED <<fdVars, logged, phase, base, dump, waits>>
----------------------------------------------------------------------------
\* fuser takes the next request when the handler of this one has replied.
Ready == phase = "mounted" /\ waits = None /\ effect = NoEffect

\* The serving thread makes a system call that comes back to the mount.
WaitsForItself(who) ==
    /\ waits' = who
    /\ logged' = <<>>
    /\ UNCHANGED <<fdVars, phase, top, base, dump>>

\* A handler, which makes a system call below base_fd when byBase holds.
Serve(byBase, handler) ==
    IF byBase /\ base = "mount"
    THEN waits' = "handler" /\ UNCHANGED <<fdVars, phase, top, base, dump>>
    ELSE handler /\ UNCHANGED <<phase, top, base, dump, waits>>

\* Queries are delegated without a notification.
Query(byBase, handler) == Ready /\ Serve(byBase, handler) /\ LogEntries(<<>>)

\* Mutations are delegated after the observer has been told; what it calls may also fail
\* for reasons outside the tree.  Without --dump there is no observer.
Mutate(op, callback, byBase, handler) ==
    /\ Ready
    /\ IF dump THEN callback ELSE LogEntries(<<>>)
    /\ Serve(byBase, handler \/ Fail(op))

\* The observer stats a path below the mount point.  The kernel answers it only while it
\* holds the entry and the attributes: for TTL (one second) after they were last replied
\* and until a write through the mount makes them invalid.
Stats(path) == dump /\ Loggable(path) /\ Ready /\ WaitsForItself("observer")
----------------------------------------------------------------------------
FuseWrite(f) ==
    IsOpen(f) /\ Writable(f)
    /\ Mutate("write", OnWrite(openFiles[f].node), FALSE, Write(f))

FuseCreate(d, n, flags) ==
    KnownDir(d) /\ entry[d][n] = None
    /\ Mutate("create", OnCreate(d, n), TRUE, Create(d, n, flags))

FuseMkdir(d, n) ==
    KnownDir(d) /\ entry[d][n] = None
    /\ Mutate("mkdir", OnMkdir(d, n), TRUE, Mkdir(d, n))

FuseUnlink(d, n) ==
    KnownDir(d) /\ KnownFile(entry[d][n])
    /\ \/ Mutate("unlink", OnUnlink(d, n), TRUE, Unlink(d, n))
       \/ Stats(ResolveWithName(d, n))

FuseRmdir(d, n) ==
    KnownDir(d) /\ KnownDir(entry[d][n])
    /\ Mutate("rmdir", OnRmdir(d, n), TRUE, Rmdir(d, n))

FuseRename(d, n, b, m) ==
    KnownDir(d) /\ entry[d][n] \in known /\ KnownDir(b)
    /\ entry[b][m] \in known \cup {None}
    /\ <<d, n>> # <<b, m>>
    /\ \/ Mutate("rename", OnRename(d, n, b, m), TRUE, Rename(d, n, b, m))
       \/ Loggable(ResolveWithName(b, m)) /\ Stats(ResolveWithName(d, n))

\* The kernel passes a handle with a size only when it is open for writing.
FuseTruncate(i, f, more) ==
    KnownFile(i) /\ (f # None => IsOpen(f) /\ openFiles[f].node = i /\ Writable(f))
    /\ Mutate("truncate", OnSetattr(i, {"size"} \cup more), TRUE, Truncate(i, f))

FuseChattr(i, attrs) ==
    LET op == IF attrs = {"owner"} THEN "chown" ELSE "chattr"
    IN  i \in known /\ Mutate(op, OnSetattr(i, attrs), TRUE, Chattr(i, op))

FuseLookup(d, n) == KnownDir(d) /\ Query(TRUE, Lookup(d, n))
FuseReaddir(d) == KnownDir(d) /\ Query(TRUE, Readdir(d))
FuseOpen(i, write) == KnownFile(i) /\ Query(TRUE, Open(i, write))
FuseRelease(f) == IsOpen(f) /\ Query(FALSE, Release(f))

\* What changes nothing: getattr goes by the handle if there is one, access and statfs by
\* base_fd, read, flush and fsync by the handle, opendir and releasedir by neither.
FuseGetattr(f) == Query(f = None, UNCHANGED fdVars)
FuseRead(f) == IsOpen(f) /\ Query(FALSE, UNCHANGED fdVars)
FuseFlush(f) == IsOpen(f) /\ Query(FALSE, UNCHANGED fdVars)
FuseAccess == Query(TRUE, UNCHANGED fdVars)
FuseOpendir == Query(FALSE, UNCHANGED fdVars)

Reply ==
    /\ phase = "mounted" /\ effect # NoEffect
    /\ effect' = NoEffect
    /\ LogEntries(<<>>)
    /\ UNCHANGED <<kind, entry, known, fds, inodeMap, openFiles, nextFh, astray,
                   phase, top, base, dump, waits>>

Attributes == {{"mode"}, {"times"}, {"owner"}}

Mutation ==
    \/ \E f \in Fh : FuseWrite(f)
    \/ \E d \in Ino, n \in Name, flags \in SUBSET {"write", "excl", "trunc"} :
          FuseCreate(d, n, flags)
    \/ \E d \in Ino, n \in Name : FuseMkdir(d, n) \/ FuseUnlink(d, n) \/ FuseRmdir(d, n)
    \/ \E d, b \in Ino, n, m \in Name : FuseRename(d, n, b, m)
    \/ \E i \in Ino, f \in Fh \cup {None}, more \in {{}, {"mode", "times"}} :
          FuseTruncate(i, f, more)
    \/ \E i \in Ino, attrs \in Attributes : FuseChattr(i, attrs)

Queries ==
    \/ \E d \in Ino, n \in Name : FuseLookup(d, n)
    \/ \E d \in Ino : FuseReaddir(d)
    \/ \E i \in Ino, write \in BOOLEAN : FuseOpen(i, write)
    \/ \E f \in Fh : FuseRelease(f)
    \/ \E f \in {g \in Fh : IsOpen(g)} \cup {None} : FuseGetattr(f)
    \/ \E f \in Fh : FuseRead(f) \/ FuseFlush(f)
    \/ FuseAccess \/ FuseOpendir

Main == OpenDir \/ Mount \/ Unmount \/ Interrupt \/ GivesUp \/ Fusermount

MountNext == Main \/ Mutation \/ Queries \/ Reply

MountSpec == MountInit /\ [][MountNext]_mountVars
----------------------------------------------------------------------------
TypeOK ==
    /\ kind \in [Ino -> {"free", "file", "dir"}]
    /\ entry \in [Ino -> [Name -> Ino \cup {None}]]
    /\ known \subseteq Ino
    /\ fds \in [Fd -> Ino \cup {None}]
    /\ \A i \in Ino : inodeMap[i] # None => inodeMap[i] \in Seq(Name)
    /\ openFiles \in [Fh -> [fd : Fd, node : Ino, flags : SUBSET {"write", "create"}] \cup {None}]
    /\ nextFh \in Nat
    /\ astray \subseteq Ino
    /\ phase \in {"out", "opened", "mounted"}
    /\ top \in {"tree", "mount", "dead"}
    /\ base \in {None, "tree", "mount"}
    /\ waits \in {None, "observer", "handler"}

\* Every descriptor that is open belongs to exactly one handle, and every handle has one:
\* none leaks on an error path, and none is used after it was closed, when its number may
\* stand for another file (passthrough_fd.rs:56-62, backing_fs/mod.rs:66-71).
OwnsDescriptor(f) == IsOpen(f) => fds[openFiles[f].fd] # None

NotShared(f, g) == IsOpen(f) /\ IsOpen(g) /\ f # g => openFiles[f].fd # openFiles[g].fd

FdOwnership ==
    /\ \A f \in Fh : OwnsDescriptor(f)
    /\ \A f, g \in Fh : NotShared(f, g)
    /\ \A d \in OpenFds(fds) : \E f \in Fh : IsOpen(f) /\ openFiles[f].fd = d

\* A handle keeps the file it was opened on, whatever is opened and closed beside it.
HandleKeepsFile ==
    [][\A f \in Fh : IsOpen(f) /\ IsOpen(f)' => FileOf(f)' = FileOf(f)]_mountVars

\* The map is right: see ObservingFS.
MapLeadsBack ==
    \A i \in Ino \ astray : inodeMap[i] # None => Walk(inodeMap[i]) = i

\* create has opened a file that was there already: the path of the directory that the
\* kernel asked for has come to mean another one, which the kernel has not looked at.
OpensFound ==
    /\ effect'.op = "create" /\ effect'.node # None
    /\ kind[effect'.node] = "file" /\ UNCHANGED <<kind, entry>>
    /\ \E d \in astray : AtPath(d) = effect'.dir

\* A drop-in replacement for PassthroughFS (passthrough_fd.rs:10-13): every step is one
\* PassthroughFS could make in the same place.  The exceptions are a create without
\* O_EXCL in a directory that has gone astray, which opens the file it finds there, and may
\* cut it, where PassthroughFS refuses; the access mode of what is created (AsHandles); and
\* the end of the process, which closes all.
DropIn == [][Reference!Step \/ OpensFound \/ phase' # phase]_fdVars

\* The handlers never come back to the mount (ize_mount_fd.rs:7-9): whatever run of the
\* program comes after whatever end of another, and whoever unmounts what is left, what
\* base_fd was opened on is what lies below the mount.
HandlersStayBelow == waits # "handler" /\ (phase = "mounted" => base = "tree")

\* The entries of a mutation name the very file that it changed, also when it failed
\* half way.  Where the handler goes by a handle, inodes that are astray are excepted.
Subject(op, path, to) ==
    CASE op \in {"create", "mkdir"} -> Walk(path) = effect.node
      [] op \in {"unlink", "rmdir"} -> Walk(path) = None
      [] op = "rename" -> Walk(to) = effect.node
      [] op = "chattr" -> Walk(path) = effect.node
      [] OTHER -> \/ effect.asked \in astray \/ effect.asked # effect.node
                  \/ Walk(path) = effect.node

LogNamesSubject ==
    effect.node # None =>
        \A k \in 1 .. Len(logged) : Subject(effect.op, logged[k].path, logged[k].to)

\* What passthrough_fd.rs:5-7 and dump_observer.rs:8-9 say without exception: the FUSE
\* layer never re-enters itself.
NeverReenters == waits = None
============================================================================
