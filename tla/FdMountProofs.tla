--------------------------- MODULE FdMountProofs ---------------------------
(***************************************************************************)
(* ize_mount_fd for every tree and every number of descriptors and         *)
(* handles: no descriptor leaks, none is shared, none is closed under the  *)
(* handle that uses it; no handler comes back to the mount; the inode map  *)
(* is right and the log names what a mutation changed.                     *)
(*                                                                         *)
(* There are two invariants.  FdInv is about descriptors: every step keeps *)
(* the table of handles, opens a handle, closes one or ends the process,   *)
(* and what the tree and the inode map hold is not part of it.  MountInv   *)
(* adds that the tree is well formed and the map agrees with it.  With the *)
(* two, each handler is shown to be a drop-in for PassthroughFS's.         *)
(***************************************************************************)
EXTENDS FdMount, SourceTreeProofs

HandleRecord == [fd : Fd, node : Ino, flags : SUBSET {"write", "create"}]

FdTyped ==
    /\ fds \in [Fd -> Ino \cup {None}]
    /\ openFiles \in [Fh -> HandleRecord \cup {None}]
    /\ nextFh \in Nat \ {0}

\* Handles are numbered upwards and never again.
Unused == \A f \in Fh : f >= nextFh => ~IsOpen(f)

\* The path leads to a live mount only while this process serves it, so that a process
\* which opens the directory finds what lies below.
BaseBelow ==
    /\ top \in {"tree", "mount", "dead"}
    /\ top = "mount" => phase = "mounted"
    /\ phase \in {"opened", "mounted"} => base = "tree"
    /\ waits # "handler"

FdInv == FdTyped /\ Unused /\ FdOwnership /\ BaseBelow

KeepsHandles == UNCHANGED <<fds, openFiles, nextFh>>

OpensHandle ==
    \E i, j \in Ino, flags \in SUBSET {"write", "create"} :
        /\ nextFh \in Fh /\ FreeFds(fds) # {}
        /\ fds' = OpenedOn(fds, i)
        /\ Handle(j, flags)

ClosesHandle ==
    \E f \in Fh :
        /\ IsOpen(f)
        /\ fds' = Closed(fds, openFiles[f].fd)
        /\ openFiles' = [openFiles EXCEPT ![f] = None]
        /\ UNCHANGED nextFh
----------------------------------------------------------------------------
\* The lowest free descriptor is one that is free.
LEMMA NewFdIsFree ==
    ASSUME NEW t, FreeFds(t) # {}
    PROVE  NewFd(t) \in Fd /\ t[NewFd(t)] = None
<1>1. FreeFds(t) \subseteq Nat
  BY FdAssumption DEF FreeFds, Fd
<1>2. \E d \in FreeFds(t) : \A c \in FreeFds(t) : d <= c
  BY <1>1, LeastElement
<1>3. NewFd(t) \in FreeFds(t)
  BY <1>2 DEF NewFd
<1>4. QED
  BY <1>3 DEF FreeFds, OpenFds

\* What an error path opens and closes again leaves the table as it was.
LEMMA OpenedAndClosed ==
    ASSUME FdTyped, FreeFds(fds) # {}, NEW i
    PROVE  Closed(OpenedOn(fds, i), NewFd(fds)) = fds
  BY NewFdIsFree DEF FdTyped, Closed, OpenedOn

LEMMA KeepsFdInv ==
    ASSUME FdInv, KeepsHandles, BaseBelow'
    PROVE  FdInv' /\ \A f \in Fh : IsOpen(f) /\ IsOpen(f)' => FileOf(f)' = FileOf(f)
  BY DEF FdInv, KeepsHandles, FdTyped, Unused, FdOwnership, OwnsDescriptor, NotShared, IsOpen,
     FileOf, OpenFds

LEMMA OpensFdInv ==
    ASSUME FdInv, OpensHandle, BaseBelow'
    PROVE  FdInv' /\ \A f \in Fh : IsOpen(f) /\ IsOpen(f)' => FileOf(f)' = FileOf(f)
<1>1. PICK i, j \in Ino, w \in SUBSET {"write", "create"} :
          /\ nextFh \in Fh /\ FreeFds(fds) # {}
          /\ fds' = OpenedOn(fds, i)
          /\ openFiles' = [openFiles EXCEPT ![nextFh] = [fd |-> NewFd(fds), node |-> j, flags |-> w]]
          /\ nextFh' = nextFh + 1
  BY DEF OpensHandle, Handle
<1> DEFINE d == NewFd(fds)
<1>2. d \in Fd /\ fds[d] = None
  BY <1>1, NewFdIsFree
<1> HIDE DEF d
<1>3. FdTyped /\ Unused /\ FdOwnership
  BY DEF FdInv
<1>4. /\ fds' \in [Fd -> Ino \cup {None}] /\ fds'[d] = i /\ i # None
      /\ \A e \in Fd \ {d} : fds'[e] = fds[e]
  BY <1>1, <1>2, <1>3, TreeAssumption DEF OpenedOn, FdTyped, d
<1>5. /\ openFiles' \in [Fh -> HandleRecord \cup {None}]
      /\ openFiles'[nextFh] = [fd |-> d, node |-> j, flags |-> w]
      /\ \A f \in Fh \ {nextFh} : openFiles'[f] = openFiles[f]
  BY <1>1, <1>2, <1>3 DEF FdTyped, HandleRecord, d
<1>6. FdTyped'
  BY <1>1, <1>3, <1>4, <1>5 DEF FdTyped, Fh
<1>7. Unused'
  BY <1>1, <1>3, <1>5, FdFsAssumption DEF Unused, IsOpen, Fh, FdTyped
<1>8. ~IsOpen(nextFh)
  BY <1>1, <1>3, FdFsAssumption DEF Unused, Fh
<1>9. ASSUME NEW f \in Fh, IsOpen(f)
      PROVE  /\ f # nextFh /\ openFiles'[f] = openFiles[f]
             /\ openFiles[f].fd \in Fd /\ openFiles[f].fd # d
             /\ fds'[openFiles[f].fd] = fds[openFiles[f].fd]
  <2>1. f # nextFh /\ openFiles'[f] = openFiles[f]
    BY <1>5, <1>8, <1>9
  <2>2. openFiles[f].fd \in Fd /\ fds[openFiles[f].fd] # None
    BY <1>3, <1>9 DEF FdTyped, HandleRecord, IsOpen, FdOwnership, OwnsDescriptor
  <2>3. QED
    BY <1>2, <1>4, <2>1, <2>2
<1>10. ASSUME NEW f \in Fh, IsOpen(f)'
       PROVE  f = nextFh \/ IsOpen(f)
  BY <1>5, <1>10 DEF IsOpen
<1>11. FdOwnership'
  <2>1. ASSUME NEW f \in Fh PROVE OwnsDescriptor(f)'
    <3>1. CASE f = nextFh
      BY <1>4, <1>5, <3>1 DEF OwnsDescriptor
    <3>2. CASE f # nextFh
      BY <1>3, <1>9, <1>10, <3>2 DEF OwnsDescriptor, FdOwnership
    <3>3. QED
      BY <3>1, <3>2
  <2>2. ASSUME NEW f \in Fh, NEW g \in Fh PROVE NotShared(f, g)'
    <3>1. SUFFICES ASSUME IsOpen(f)', IsOpen(g)', f # g
                   PROVE  openFiles'[f].fd # openFiles'[g].fd
      BY DEF NotShared
    <3>2. CASE f = nextFh
      BY <1>5, <1>9, <1>10, <3>1, <3>2
    <3>3. CASE g = nextFh
      BY <1>5, <1>9, <1>10, <3>1, <3>3
    <3>4. CASE f # nextFh /\ g # nextFh
      BY <1>3, <1>9, <1>10, <3>1, <3>4 DEF FdOwnership, NotShared
    <3>5. QED
      BY <3>2, <3>3, <3>4
  <2>3. ASSUME NEW e \in Fd, fds'[e] # None
        PROVE  \E f \in Fh : IsOpen(f)' /\ openFiles'[f].fd = e
    <3>1. CASE e = d
      <4>1. openFiles'[nextFh] # None
        <5>1. openFiles'[nextFh] \in HandleRecord
          BY <1>2, <1>5 DEF HandleRecord
        <5>2. QED
          BY <5>1, FdFsAssumption DEF HandleRecord
      <4>2. QED
        BY <1>1, <1>5, <3>1, <4>1 DEF IsOpen
    <3>2. CASE e # d
      <4>1. PICK f \in Fh : IsOpen(f) /\ openFiles[f].fd = e
        BY <1>3, <1>4, <2>3, <3>2 DEF FdOwnership, OpenFds
      <4>2. openFiles'[f] = openFiles[f]
        BY <1>9, <4>1
      <4>3. QED
        BY <4>1, <4>2 DEF IsOpen
    <3>3. QED
      BY <3>1, <3>2
  <2>4. QED
    BY <2>1, <2>2, <2>3 DEF FdOwnership, OpenFds
<1>12. ASSUME NEW f \in Fh, IsOpen(f) PROVE FileOf(f)' = FileOf(f)
  BY <1>9, <1>12 DEF FileOf
<1>13. QED
  BY <1>6, <1>7, <1>11, <1>12 DEF FdInv

LEMMA ClosesFdInv ==
    ASSUME FdInv, ClosesHandle, BaseBelow'
    PROVE  FdInv' /\ \A f \in Fh : IsOpen(f) /\ IsOpen(f)' => FileOf(f)' = FileOf(f)
<1>1. PICK h \in Fh :
          /\ IsOpen(h)
          /\ fds' = Closed(fds, openFiles[h].fd)
          /\ openFiles' = [openFiles EXCEPT ![h] = None]
          /\ UNCHANGED nextFh
  BY DEF ClosesHandle
<1> DEFINE d == openFiles[h].fd
<1>2. FdTyped /\ Unused /\ FdOwnership
  BY DEF FdInv
<1>3. d \in Fd
  BY <1>1, <1>2 DEF FdTyped, HandleRecord, IsOpen
<1> HIDE DEF d
<1>4. /\ fds' \in [Fd -> Ino \cup {None}] /\ fds'[d] = None
      /\ \A e \in Fd \ {d} : fds'[e] = fds[e]
  BY <1>1, <1>2, <1>3 DEF Closed, FdTyped, d
<1>5. /\ openFiles' \in [Fh -> HandleRecord \cup {None}]
      /\ openFiles'[h] = None
      /\ \A f \in Fh \ {h} : openFiles'[f] = openFiles[f]
  BY <1>1, <1>2 DEF FdTyped
<1>6. FdTyped'
  BY <1>1, <1>2, <1>4, <1>5 DEF FdTyped
<1>7. Unused'
  BY <1>1, <1>2, <1>5 DEF Unused, IsOpen
<1>8. ASSUME NEW f \in Fh, IsOpen(f)'
      PROVE  /\ IsOpen(f) /\ f # h /\ openFiles'[f] = openFiles[f]
             /\ openFiles[f].fd \in Fd /\ openFiles[f].fd # d
             /\ fds'[openFiles[f].fd] = fds[openFiles[f].fd]
  <2>1. IsOpen(f) /\ f # h /\ openFiles'[f] = openFiles[f]
    BY <1>5, <1>8 DEF IsOpen
  <2>2. openFiles[f].fd \in Fd
    BY <1>2, <2>1 DEF FdTyped, HandleRecord, IsOpen
  <2>3. openFiles[f].fd # d
    BY <1>1, <1>2, <2>1 DEF FdOwnership, NotShared, d
  <2>4. QED
    BY <1>4, <2>1, <2>2, <2>3
<1>9. FdOwnership'
  <2>1. ASSUME NEW f \in Fh PROVE OwnsDescriptor(f)'
    BY <1>2, <1>8 DEF OwnsDescriptor, FdOwnership
  <2>2. ASSUME NEW f \in Fh, NEW g \in Fh PROVE NotShared(f, g)'
    BY <1>2, <1>8 DEF NotShared, FdOwnership
  <2>3. ASSUME NEW e \in Fd, fds'[e] # None
        PROVE  \E f \in Fh : IsOpen(f)' /\ openFiles'[f].fd = e
    <3>1. e # d /\ fds[e] # None
      BY <1>4, <2>3
    <3>2. PICK f \in Fh : IsOpen(f) /\ openFiles[f].fd = e
      BY <1>2, <3>1 DEF FdOwnership, OpenFds
    <3>3. f # h
      BY <3>1, <3>2 DEF d
    <3>4. QED
      BY <1>5, <3>2, <3>3 DEF IsOpen
  <2>4. QED
    BY <2>1, <2>2, <2>3 DEF FdOwnership, OpenFds
<1>10. ASSUME NEW f \in Fh, IsOpen(f)' PROVE FileOf(f)' = FileOf(f)
  BY <1>8, <1>10 DEF FileOf
<1>11. QED
  BY <1>6, <1>7, <1>9, <1>10 DEF FdInv

\* The tables of a process that has ended are empty.
LEMMA EndsFdInv ==
    ASSUME Ends, BaseBelow'
    PROVE  FdInv' /\ \A f \in Fh : ~IsOpen(f)'
<1>1. /\ fds' = [d \in Fd |-> None]
      /\ openFiles' = [f \in Fh |-> None]
      /\ nextFh' = 1
  BY DEF Ends
<1>2. FdTyped' /\ Unused'
  BY <1>1 DEF FdTyped, Unused, IsOpen
<1>3. FdOwnership'
  BY <1>1 DEF FdOwnership, OwnsDescriptor, NotShared, IsOpen, OpenFds
<1>4. QED
  BY <1>1, <1>2, <1>3 DEF FdInv, IsOpen
----------------------------------------------------------------------------
\* What the handlers of FdPassthroughFS do to the table.
LEMMA QueriesOfTable ==
    /\ \A d \in Ino, n \in Name : Lookup(d, n) => KeepsHandles
    /\ \A d \in Ino : Readdir(d) => KeepsHandles
    /\ \A i \in Ino, w \in BOOLEAN : Open(i, w) => OpensHandle
    /\ \A f \in Fh : Release(f) => ClosesHandle
<1>1. ASSUME NEW d \in Ino, NEW n \in Name, Lookup(d, n) PROVE KeepsHandles
  BY <1>1 DEF Lookup, KeepsHandles
<1>2. ASSUME NEW d \in Ino, Readdir(d) PROVE KeepsHandles
  BY <1>2 DEF Readdir, KeepsHandles
<1>3. ASSUME NEW i \in Ino, NEW w \in BOOLEAN, Open(i, w) PROVE OpensHandle
  <2>1. Stat(inodeMap[i]) \in Ino /\ FreeFds(fds) # {}
    BY <1>3 DEF Open, CanOpen, IsFile
  <2>2. /\ nextFh \in Fh
        /\ fds' = OpenedOn(fds, Stat(inodeMap[i]))
        /\ Handle(i, IF w THEN {"write"} ELSE {})
    BY <1>3 DEF Open, Becomes
  <2>3. (IF w THEN {"write"} ELSE {}) \in SUBSET {"write", "create"}
    OBVIOUS
  <2>4. QED
    BY <2>1, <2>2, <2>3 DEF OpensHandle
<1>4. ASSUME NEW f \in Fh, Release(f) PROVE ClosesHandle
  BY <1>4 DEF Release, Becomes, ClosesHandle
<1>5. QED
  BY <1>1, <1>2, <1>3, <1>4

LEMMA FailKeeps ==
    ASSUME NEW op, Fail(op) PROVE KeepsHandles
  BY DEF Fail, KeepsHandles

LEMMA CreateOfTable ==
    ASSUME FdInv, NEW d \in Ino, NEW n \in Name, NEW flags, Create(d, n, flags)
    PROVE  KeepsHandles \/ OpensHandle
<1> DEFINE r == AtPath(d)
           c == Child(r, n)
           path == Append(inodeMap[d], n)
           how == {"create"} \cup (flags \cap {"write"})
<1>1. CASE Fail("create")
  BY <1>1, FailKeeps
<1>2. CASE ~Fail("create")
  <2>1. /\ nextFh \in Fh /\ FreeFds(fds) # {}
        /\ \E i \in Ino : CreateMade(i, r, n, path, flags)
    BY <1>2 DEF Create
  <2>2. PICK i \in Ino : CreateMade(i, r, n, path, flags)
    BY <2>1
  <2>3. \/ fds' = OpenedOn(fds, i) /\ Handle(i, how)
        \/ /\ fds' = Closed(OpenedOn(fds, i), NewFd(fds))
           /\ UNCHANGED <<openFiles, nextFh>>
    BY <2>2 DEF CreateMade, Becomes
  <2>4. CASE fds' = OpenedOn(fds, i) /\ Handle(i, how)
    <3>1. how \in SUBSET {"write", "create"}
      OBVIOUS
    <3> HIDE DEF how
    <3>2. QED
      BY <2>1, <2>4, <3>1 DEF OpensHandle
  <2>5. CASE /\ fds' = Closed(OpenedOn(fds, i), NewFd(fds))
             /\ UNCHANGED <<openFiles, nextFh>>
    BY <2>1, <2>5, OpenedAndClosed DEF FdInv, KeepsHandles
  <2>6. QED
    BY <2>3, <2>4, <2>5
<1>3. QED
  BY <1>1, <1>2

LEMMA TruncateOfTable ==
    ASSUME FdInv, NEW i \in Ino, NEW f \in Fh \cup {None}, Truncate(i, f)
    PROVE  KeepsHandles
<1> DEFINE byFh == f # None /\ IsOpen(f)
           cut == IF byFh THEN FileOf(f) ELSE AtPath(i)
           table == IF byFh THEN fds ELSE Closed(OpenedOn(fds, cut), NewFd(fds))
<1>1. CASE Fail("truncate")
  BY <1>1, FailKeeps
<1>2. CASE ~Fail("truncate")
  <2>1. /\ byFh \/ CanOpen(inodeMap[i])
        /\ fds' = table
        /\ UNCHANGED <<openFiles, nextFh>>
    BY <1>2 DEF Truncate, Becomes
  <2>2. table = fds
    <3> HIDE DEF cut
    <3>1. CASE byFh
      BY <3>1
    <3>2. CASE ~byFh
      BY <2>1, <3>2, OpenedAndClosed DEF CanOpen, FdInv
    <3>3. QED
      BY <3>1, <3>2
  <2>3. QED
    BY <2>1, <2>2 DEF KeepsHandles
<1>3. QED
  BY <1>1, <1>2

LEMMA MutationsOfTable ==
    /\ \A f \in Fh : Write(f) => KeepsHandles
    /\ \A i \in Ino : \A op : Chattr(i, op) => KeepsHandles
    /\ \A d \in Ino, n \in Name :
          /\ Mkdir(d, n) => KeepsHandles
          /\ Unlink(d, n) => KeepsHandles
          /\ Rmdir(d, n) => KeepsHandles
    /\ \A d, b \in Ino, n, m \in Name : Rename(d, n, b, m) => KeepsHandles
<1>1. ASSUME NEW f \in Fh, Write(f) PROVE KeepsHandles
  BY <1>1, FailKeeps DEF Write, KeepsHandles
<1>2. ASSUME NEW i \in Ino, NEW op, Chattr(i, op) PROVE KeepsHandles
  BY <1>2, FailKeeps DEF Chattr, KeepsHandles
<1>3. ASSUME NEW d \in Ino, NEW n \in Name, Mkdir(d, n) PROVE KeepsHandles
  BY <1>3, FailKeeps DEF Mkdir, Becomes, KeepsHandles
<1>4. ASSUME NEW op, NEW r, NEW n, Removes(op, r, n) PROVE KeepsHandles
  BY <1>4 DEF Removes, Becomes, KeepsHandles
<1>5. ASSUME NEW d \in Ino, NEW n \in Name, Unlink(d, n) PROVE KeepsHandles
  BY <1>4, <1>5, FailKeeps DEF Unlink
<1>6. ASSUME NEW d \in Ino, NEW n \in Name, Rmdir(d, n) PROVE KeepsHandles
  BY <1>4, <1>6, FailKeeps DEF Rmdir
<1>7. ASSUME NEW d \in Ino, NEW b \in Ino, NEW n \in Name, NEW m \in Name, Rename(d, n, b, m)
      PROVE  KeepsHandles
  BY <1>7, FailKeeps DEF Rename, Becomes, KeepsHandles
<1>8. QED
  BY <1>1, <1>2, <1>3, <1>5, <1>6, <1>7
----------------------------------------------------------------------------
\* While base_fd refers to what is below the mount, the thread only waits for itself in
\* the observer.
Calm == phase = "mounted" /\ UNCHANGED <<phase, top, base, dump, waits>>

Reenters == KeepsHandles /\ UNCHANGED <<phase, top, base, dump>> /\ waits' = "observer"

LEMMA CalmStays ==
    ASSUME FdInv, Calm \/ Reenters PROVE BaseBelow'
  BY MountAssumption DEF FdInv, BaseBelow, Calm, Reenters

LEMMA ReentersByStat ==
    ASSUME NEW path, Stats(path) PROVE Reenters
  BY DEF Stats, WaitsForItself, Reenters, KeepsHandles, fdVars

LEMMA QueryStep ==
    ASSUME FdInv, Queries
    PROVE  Calm /\ (KeepsHandles \/ OpensHandle \/ ClosesHandle)
<1>1. phase = "mounted" => base # "mount"
  BY DEF FdInv, BaseBelow
<1>2. ASSUME NEW d \in Ino, NEW n \in Name, FuseLookup(d, n) PROVE Calm /\ KeepsHandles
  BY <1>1, <1>2, QueriesOfTable DEF FuseLookup, Query, Ready, Serve, Calm
<1>3. ASSUME NEW d \in Ino, FuseReaddir(d) PROVE Calm /\ KeepsHandles
  BY <1>1, <1>3, QueriesOfTable DEF FuseReaddir, Query, Ready, Serve, Calm
<1>4. ASSUME NEW i \in Ino, NEW w \in BOOLEAN, FuseOpen(i, w) PROVE Calm /\ OpensHandle
  BY <1>1, <1>4, QueriesOfTable DEF FuseOpen, Query, Ready, Serve, Calm
<1>5. ASSUME NEW f \in Fh, FuseRelease(f) PROVE Calm /\ ClosesHandle
  BY <1>1, <1>5, QueriesOfTable DEF FuseRelease, Query, Ready, Serve, Calm
<1>6. ASSUME NEW b, Query(b, UNCHANGED fdVars) PROVE Calm /\ KeepsHandles
  BY <1>1, <1>6 DEF Query, Ready, Serve, Calm, KeepsHandles, fdVars
<1>7. QED
  BY <1>2, <1>3, <1>4, <1>5, <1>6
     DEF Queries, FuseGetattr, FuseRead, FuseFlush, FuseAccess, FuseOpendir

LEMMA MutationStep ==
    ASSUME FdInv, Mutation
    PROVE  (Calm /\ (KeepsHandles \/ OpensHandle)) \/ Reenters
<1>1. phase = "mounted" => base # "mount"
  BY DEF FdInv, BaseBelow
<1> USE DEF Mutate, Ready, Serve, Calm
<1>2. ASSUME NEW f \in Fh, FuseWrite(f) PROVE Calm /\ KeepsHandles
  BY <1>1, <1>2, MutationsOfTable, FailKeeps DEF FuseWrite
<1>3. ASSUME NEW d \in Ino, NEW n \in Name, NEW flags, FuseCreate(d, n, flags)
      PROVE  Calm /\ (KeepsHandles \/ OpensHandle)
  BY <1>1, <1>3, CreateOfTable, FailKeeps DEF FuseCreate
<1>4. ASSUME NEW d \in Ino, NEW n \in Name, FuseMkdir(d, n) PROVE Calm /\ KeepsHandles
  BY <1>1, <1>4, MutationsOfTable, FailKeeps DEF FuseMkdir
<1>5. ASSUME NEW d \in Ino, NEW n \in Name, FuseUnlink(d, n)
      PROVE  (Calm /\ KeepsHandles) \/ Reenters
  BY <1>1, <1>5, MutationsOfTable, FailKeeps, ReentersByStat DEF FuseUnlink
<1>6. ASSUME NEW d \in Ino, NEW n \in Name, FuseRmdir(d, n) PROVE Calm /\ KeepsHandles
  BY <1>1, <1>6, MutationsOfTable, FailKeeps DEF FuseRmdir
<1>7. ASSUME NEW d \in Ino, NEW b \in Ino, NEW n \in Name, NEW m \in Name,
             FuseRename(d, n, b, m)
      PROVE  (Calm /\ KeepsHandles) \/ Reenters
  BY <1>1, <1>7, MutationsOfTable, FailKeeps, ReentersByStat DEF FuseRename
<1>8. ASSUME NEW i \in Ino, NEW f \in Fh \cup {None}, NEW more, FuseTruncate(i, f, more)
      PROVE  Calm /\ KeepsHandles
  BY <1>1, <1>8, TruncateOfTable, FailKeeps DEF FuseTruncate
<1>9. ASSUME NEW i \in Ino, NEW attrs, FuseChattr(i, attrs) PROVE Calm /\ KeepsHandles
  BY <1>1, <1>9, MutationsOfTable, FailKeeps DEF FuseChattr
<1>10. QED
  BY <1>2, <1>3, <1>4, <1>5, <1>6, <1>7, <1>8, <1>9 DEF Mutation

\* Every step keeps the invariant, and no handle is left open on another file.
LEMMA MountStep ==
    ASSUME FdInv, [MountNext]_mountVars
    PROVE  FdInv' /\ \A f \in Fh : IsOpen(f) /\ IsOpen(f)' => FileOf(f)' = FileOf(f)
<1>1. CASE OpenDir
  <2>1. KeepsHandles /\ BaseBelow'
    BY <1>1 DEF OpenDir, KeepsHandles, fdVars, FdInv, BaseBelow
  <2>2. QED
    BY <2>1, KeepsFdInv
<1>2. CASE Mount
  <2>1. KeepsHandles /\ BaseBelow'
    BY <1>2 DEF Mount, KeepsHandles, fdVars, FdInv, BaseBelow
  <2>2. QED
    BY <2>1, KeepsFdInv
<1>3. CASE Unmount \/ Interrupt \/ GivesUp
  <2>1. Ends /\ top' \in {"tree", "dead"}
    BY <1>3 DEF Unmount, Interrupt, GivesUp, FdInv, BaseBelow
  <2>2. BaseBelow'
    BY <2>1, MountAssumption DEF Ends, BaseBelow
  <2>3. QED
    BY <2>1, <2>2, EndsFdInv
<1>9. CASE Fusermount
  <2>1. KeepsHandles /\ BaseBelow'
    BY <1>9 DEF Fusermount, KeepsHandles, fdVars, FdInv, BaseBelow
  <2>2. QED
    BY <2>1, KeepsFdInv
<1>4. CASE Mutation
  BY <1>4, MutationStep, CalmStays, KeepsFdInv, OpensFdInv DEF Reenters
<1>5. CASE Queries
  BY <1>5, QueryStep, CalmStays, KeepsFdInv, OpensFdInv, ClosesFdInv
<1>6. CASE Reply
  <2>1. KeepsHandles /\ Calm
    BY <1>6 DEF Reply, KeepsHandles, Calm
  <2>2. QED
    BY <2>1, CalmStays, KeepsFdInv
<1>7. CASE UNCHANGED mountVars
  <2>1. KeepsHandles /\ BaseBelow'
    BY <1>7 DEF mountVars, fdVars, KeepsHandles, FdInv, BaseBelow
  <2>2. QED
    BY <2>1, KeepsFdInv
<1>8. QED
  BY <1>1, <1>2, <1>3, <1>4, <1>5, <1>6, <1>7, <1>9 DEF MountNext, Main

LEMMA MountStarts ==
    ASSUME MountInit PROVE FdInv
<1>1. FdTyped /\ Unused
  BY DEF MountInit, FdInit, FdTyped, Unused, IsOpen
<1>2. FdOwnership
  BY DEF MountInit, FdInit, FdOwnership, OwnsDescriptor, NotShared, IsOpen, OpenFds
<1>3. BaseBelow
  BY MountAssumption DEF MountInit, BaseBelow
<1>4. QED
  BY <1>1, <1>2, <1>3 DEF FdInv

\* The inductive invariant holds in every state of a mount.
THEOREM FdInvariance == MountSpec => []FdInv
<1>1. MountInit => FdInv
  BY MountStarts
<1>2. FdInv /\ [MountNext]_mountVars => FdInv'
  BY MountStep
<1>3. QED
  BY <1>1, <1>2, PTL DEF MountSpec

\* No descriptor leaks on an error path of create, setattr or open, none is shared by two
\* handles and none is closed under one: whatever the limits on both.
THEOREM DescriptorsOwned == MountSpec => []FdOwnership
<1>1. FdInv => FdOwnership
  BY DEF FdInv
<1>2. QED
  BY <1>1, FdInvariance, PTL

\* No handler of FdPassthroughFS ever waits for the mount it serves: a process opens the
\* directory before it mounts, what it leaves when it ends cannot be opened, and so
\* base_fd refers to what lies below, through any sequence of runs of the program.
THEOREM HandlersNeverWait == MountSpec => []HandlersStayBelow
<1>1. FdInv => HandlersStayBelow
  BY DEF FdInv, BaseBelow, HandlersStayBelow
<1>2. QED
  BY <1>1, FdInvariance, PTL

\* What a handle reads and writes is the file it was opened on until it is released.
THEOREM HandlesKeepFiles == MountSpec => HandleKeepsFile
<1>1. FdInv /\ [MountNext]_mountVars =>
          [\A f \in Fh : IsOpen(f) /\ IsOpen(f)' => FileOf(f)' = FileOf(f)]_mountVars
  BY MountStep
<1>2. QED
  BY <1>1, FdInvariance, PTL DEF MountSpec, HandleKeepsFile
----------------------------------------------------------------------------
\* The second inductive invariant: the map agrees with the tree.
\* Files stay in the tree while a descriptor is open on them.
Opens == OpenInodes(fds)

Mapped == MapInv(kind, entry, Opens, known, inodeMap, astray)

Phases ==
    /\ phase \in {"out", "opened", "mounted"}
    /\ base \in {None, "tree", "mount"}
    /\ waits \in {None, "observer", "handler"}

\* The map is as it should be, and so are the descriptors.
Serving == FdInv /\ Mapped

MountInv == Serving /\ Phases

\* What the handlers rely on.
LEMMA ServingFacts ==
  ASSUME Serving
  PROVE  /\ WellFormed(kind, entry, Opens) /\ FdTyped
         /\ kind \in [Ino -> {"free", "file", "dir"}]
         /\ entry \in [Ino -> [Name -> Ino \cup {None}]]
         /\ inodeMap \in [Ino -> Seq(Name) \cup {None}]
         /\ known \subseteq {i \in Ino : kind[i] # "free"} /\ astray \subseteq Ino
         /\ \A i \in Ino \ astray : inodeMap[i] # None => WalkIn(kind, entry, inodeMap[i]) = i
         /\ \A p \in Seq(Name) : Stat(p) = WalkIn(kind, entry, p) /\ Stat(p) \in Ino \cup {None}
         /\ \A i \in Ino : inodeMap[i] # None =>
               /\ inodeMap[i] \in Seq(Name) /\ AtPath(i) = WalkIn(kind, entry, inodeMap[i])
         /\ \A d, n : Child(d, n) = ChildIn(kind, entry, d, n)
<1>1. MapInv(kind, entry, Opens, known, inodeMap, astray) /\ FdTyped
  BY DEF Serving, Mapped, FdInv
<1>2. /\ WellFormed(kind, entry, Opens)
      /\ inodeMap \in [Ino -> Seq(Name) \cup {None}] /\ inodeMap[Root] = <<>>
      /\ known \subseteq {i \in Ino : kind[i] # "free"} /\ astray \subseteq Ino
      /\ \A i \in Ino \ astray :
            inodeMap[i] # None => WalkIn(kind, entry, inodeMap[i]) = i
  BY <1>1 DEF MapInv
<1>3. /\ kind \in [Ino -> {"free", "file", "dir"}]
      /\ entry \in [Ino -> [Name -> Ino \cup {None}]]
  BY <1>2 DEF WellFormed
<1>4. ASSUME NEW p \in Seq(Name)
      PROVE  Stat(p) = WalkIn(kind, entry, p) /\ Stat(p) \in Ino \cup {None}
  <2>1. Walk(p) = WalkIn(kind, entry, p) /\ WalkIn(kind, entry, p) \in Ino \cup {None}
    BY <1>2, WalkType, WalkIsWalkIn
  <2>2. QED
    BY <2>1, TreeAssumption DEF Stat
<1>5. ASSUME NEW i \in Ino, inodeMap[i] # None
      PROVE  inodeMap[i] \in Seq(Name) /\ AtPath(i) = WalkIn(kind, entry, inodeMap[i])
  BY <1>2, <1>4, <1>5 DEF AtPath
<1>6. QED
  BY <1>1, <1>2, <1>3, <1>4, <1>5, WalkIsWalkIn

LEMMA BecomesTree ==
  ASSUME NEW k, NEW e, NEW t, NEW seen, Becomes(k, e, t, seen)
  PROVE  /\ fds' = t /\ entry' = e
         /\ kind' = Remaining(k, e, Opens')
         /\ known' = (known \cup seen) \cap Live(e, Opens')
  BY DEF Becomes, TreeBecomes, Remaining, Opens

\* The files that are open after a step on the descriptors.
LEMMA OpensAfterOpening ==
  ASSUME FdTyped, FreeFds(fds) # {}, NEW i \in Ino, fds' = OpenedOn(fds, i)
  PROVE  Opens' = Opens \cup {i}
<1>1. NewFd(fds) \in Fd /\ fds[NewFd(fds)] = None /\ i # None
  BY NewFdIsFree, TreeAssumption
<1>2. \A d \in Fd : fds'[d] = IF d = NewFd(fds) THEN i ELSE fds[d]
  BY <1>1 DEF FdTyped, OpenedOn
<1>3. ASSUME NEW x PROVE x \in Opens' <=> x \in Opens \cup {i}
  BY <1>1, <1>2 DEF Opens, OpenInodes, OpenFds
<1>4. QED
  BY <1>3

LEMMA OpensAfterClosing ==
  ASSUME FdTyped, NEW c \in Fd, fds' = Closed(fds, c)
  PROVE  Opens' \subseteq Opens
<1>1. \A d \in Fd : fds'[d] = IF d = c THEN None ELSE fds[d]
  BY DEF FdTyped, Closed
<1>2. QED
  BY <1>1 DEF Opens, OpenInodes, OpenFds

LEMMA OpensAfterBoth ==
  ASSUME FdTyped, FreeFds(fds) # {}, NEW i, fds' = Closed(OpenedOn(fds, i), NewFd(fds))
  PROVE  fds' = fds /\ Opens' = Opens
  BY OpenedAndClosed DEF Opens

LEMMA QuietlyMapped ==
  ASSUME Mapped, UNCHANGED <<kind, entry, fds, known, inodeMap, astray>>
  PROVE  Mapped'
  BY DEF Mapped, Opens

\* Only the descriptors change.
LEMMA ReopenedMapped ==
  ASSUME Serving, NEW t, Becomes(kind, entry, t, {}), UNCHANGED <<inodeMap, astray>>,
         Opens' \subseteq {i \in Ino : kind[i] = "file"}
  PROVE  Mapped' /\ \A p \in Seq(Name) : WalkIn(kind', entry', p) = WalkIn(kind, entry, p)
<1>1. /\ entry' = entry /\ kind' = Remaining(kind, entry, Opens')
      /\ known' = (known \cup {}) \cap Live(entry, Opens')
  BY BecomesTree
<1>2. MapInv(kind', entry, Opens', known', inodeMap, astray)
  BY <1>1, MapWhenReopened DEF Serving, Mapped
<1>3. ASSUME NEW p \in Seq(Name) PROVE WalkIn(kind', entry, p) = WalkIn(kind, entry, p)
  BY <1>1, ServingFacts, WalkWhenReopened
<1>4. QED
  BY <1>1, <1>2, <1>3 DEF Mapped
----------------------------------------------------------------------------
\* Queries.
LEMMA LookupMapped ==
  ASSUME Serving, NEW d \in Ino, NEW n \in Name, Lookup(d, n)
  PROVE  Mapped'
<1> DEFINE path == Append(inodeMap[d], n)
           i == Stat(path)
<1>1. inodeMap[d] \in Seq(Name) /\ path \in Seq(Name)
  <2>1. inodeMap[d] \in Seq(Name)
    BY ServingFacts DEF Lookup
  <2>2. QED
    BY <2>1, AppendProperties
<1>2. /\ i # None /\ inodeMap' = [inodeMap EXCEPT ![i] = path]
      /\ known' = known \cup {i} /\ astray' = astray \ {i}
      /\ UNCHANGED <<kind, entry, fds>>
  BY DEF Lookup
<1>3. i = WalkIn(kind, entry, path)
  BY <1>1, ServingFacts
<1>4. i \in Ino \ {Root}
  <2>1. WellFormed(kind, entry, Opens)
    BY ServingFacts
  <2>2. QED
    BY <1>1, <1>2, <1>3, <2>1, EntryIsNamed
<1> HIDE DEF i, path
<1>5. /\ inodeMap' \in [Ino -> Seq(Name) \cup {None}]
      /\ \A x \in {i} : inodeMap'[x] \in Seq(Name) /\ WalkIn(kind, entry, inodeMap'[x]) = x
      /\ \A x \in Ino \ {i} : inodeMap'[x] = inodeMap[x]
  BY <1>1, <1>2, <1>3, <1>4, ServingFacts
<1>6. MapInv(kind, entry, Opens, known \cup {i}, inodeMap', astray \ {i})
  <2>1. {i} \in SUBSET (Ino \ {Root}) /\ known \subseteq known \cup {i}
    BY <1>4
  <2>2. QED
    BY <1>5, <2>1, MapRegisters DEF Serving, Mapped
<1>7. QED
  BY <1>2, <1>6 DEF Mapped, Opens

LEMMA ReaddirMapped ==
  ASSUME Serving, NEW d \in Ino, Readdir(d)
  PROVE  Mapped'
<1> DEFINE path == inodeMap[d]
           dir == Stat(path)
           children == {i \in Ino : \E n \in Name : entry[dir][n] = i}
<1>1. path \in Seq(Name) /\ dir = WalkIn(kind, entry, path)
  BY ServingFacts DEF Readdir
<1>2. dir \in Ino /\ kind[dir] = "dir"
  BY DEF Readdir, CanReaddir, IsDir
<1>3. PICK nameOf \in [children -> Name] :
         /\ \A x \in children : entry[dir][nameOf[x]] = x
         /\ inodeMap' = [x \in Ino |-> IF x \in children
                                       THEN Append(path, nameOf[x]) ELSE inodeMap[x]]
  BY DEF Readdir
<1>4. astray' = astray \ children /\ UNCHANGED <<kind, entry, fds, known>>
  BY DEF Readdir
<1>5. ASSUME NEW x \in children
      PROVE  /\ x \in Ino \ {Root} /\ Append(path, nameOf[x]) \in Seq(Name)
             /\ WalkIn(kind, entry, Append(path, nameOf[x])) = x
  <2> DEFINE y == nameOf[x]
  <2>1. y \in Name /\ entry[dir][y] = x /\ x \in Ino
    BY <1>3
  <2> HIDE DEF y, path, dir
  <2>2. WalkIn(kind, entry, Append(path, y)) = ChildIn(kind, entry, dir, y)
    <3>1. path \in Seq(Name) /\ dir = WalkIn(kind, entry, path)
      BY <1>1 DEF path, dir
    <3>2. QED
      BY <2>1, <3>1, WalkAppend
  <2>3. WalkIn(kind, entry, Append(path, y)) = x
    BY <1>2, <2>1, <2>2 DEF ChildIn, dir, path
  <2>4. path \in Seq(Name) /\ Append(path, y) \in Seq(Name)
    BY <1>1, <2>1, AppendProperties DEF path
  <2>5. WellFormed(kind, entry, Opens) /\ x # None
    BY <2>1, ServingFacts, TreeAssumption
  <2>6. WalkIn(kind, entry, Append(path, y)) \in Ino \ {Root}
    BY <2>1, <2>3, <2>4, <2>5, EntryIsNamed
  <2>7. QED
    BY <2>3, <2>4, <2>6 DEF y, path
<1> HIDE DEF children, dir, path
<1>6. /\ inodeMap' \in [Ino -> Seq(Name) \cup {None}]
      /\ \A x \in children :
            inodeMap'[x] \in Seq(Name) /\ WalkIn(kind, entry, inodeMap'[x]) = x
      /\ \A x \in Ino \ children : inodeMap'[x] = inodeMap[x]
  BY <1>3, <1>5, ServingFacts
<1>7. MapInv(kind, entry, Opens, known, inodeMap', astray \ children)
  <2>1. children \in SUBSET (Ino \ {Root}) /\ known \subseteq known \cup children
    BY <1>5
  <2>2. QED
    BY <1>6, <2>1, MapRegisters DEF Serving, Mapped
<1>8. QED
  BY <1>4, <1>7 DEF Mapped, Opens

LEMMA OpenMapped ==
  ASSUME Serving, NEW i \in Ino, NEW write \in BOOLEAN, Open(i, write)
  PROVE  Mapped'
<1> DEFINE file == Stat(inodeMap[i])
<1>1. /\ file \in Ino /\ kind[file] = "file" /\ FreeFds(fds) # {}
      /\ Becomes(kind, entry, OpenedOn(fds, file), {})
      /\ UNCHANGED <<inodeMap, astray>>
  BY DEF Open, CanOpen, IsFile
<1> HIDE DEF file
<1>2. Opens' = Opens \cup {file}
  BY <1>1, BecomesTree, OpensAfterOpening DEF Serving, FdInv
<1>3. Opens' \subseteq {x \in Ino : kind[x] = "file"}
  BY <1>1, <1>2, ServingFacts DEF WellFormed
<1>4. QED
  BY <1>1, <1>3, ReopenedMapped

LEMMA ReleaseMapped ==
  ASSUME Serving, NEW f \in Fh, Release(f)
  PROVE  Mapped'
<1>1. /\ IsOpen(f) /\ Becomes(kind, entry, Closed(fds, openFiles[f].fd), {})
      /\ UNCHANGED <<inodeMap, astray>>
  BY DEF Release
<1>2. openFiles[f].fd \in Fd
  BY <1>1 DEF Serving, FdInv, FdTyped, HandleRecord, IsOpen
<1>3. Opens' \subseteq Opens
  BY <1>1, <1>2, BecomesTree, OpensAfterClosing DEF Serving, FdInv
<1>4. Opens' \subseteq {x \in Ino : kind[x] = "file"}
  BY <1>3, ServingFacts DEF WellFormed
<1>5. QED
  BY <1>1, <1>4, ReopenedMapped
----------------------------------------------------------------------------
\* Mutations by a handle or by the path of an inode.  The outcome is about the inode that
\* was asked for or about what is at its path, which is as it was.
Concerns(i) ==
    effect'.node # None =>
        /\ effect'.op \in {"write", "truncate", "chattr", "chown"}
        /\ inodeMap'[i] = inodeMap[i] /\ astray' = astray
        /\ \A p \in Seq(Name) : WalkIn(kind', entry', p) = WalkIn(kind, entry, p)
        /\ \/ effect'.asked = i /\ effect'.op \in {"write", "truncate"}
           \/ inodeMap[i] # None /\ effect'.node = WalkIn(kind, entry, inodeMap[i])

LEMMA FailMapped ==
  ASSUME Serving, NEW op, Fail(op)
  PROVE  Mapped' /\ effect'.node = None /\ effect'.op = op
<1>1. UNCHANGED <<kind, entry, fds, known, inodeMap, astray>>
  BY DEF Fail
<1>2. effect'.node = None /\ effect'.op = op
  BY DEF Fail, Outcome, Reference!Outcome
<1>3. QED
  BY <1>1, <1>2, QuietlyMapped DEF Serving

LEMMA WriteMapped ==
  ASSUME Serving, NEW f \in Fh, Write(f)
  PROVE  Mapped' /\ Concerns(openFiles[f].node)
<1>1. CASE Fail("write")
  BY <1>1, FailMapped DEF Concerns
<1>2. CASE ~Fail("write")
  <2>1. /\ effect' = Outcome("write", TRUE, openFiles[f].node, FileOf(f), None)
        /\ UNCHANGED <<kind, entry, known, fds, inodeMap, astray>>
    BY <1>2 DEF Write
  <2>2. effect'.asked = openFiles[f].node /\ effect'.op = "write"
    BY <2>1 DEF Outcome, Reference!Outcome
  <2>3. QED
    BY <2>1, <2>2, QuietlyMapped DEF Serving, Concerns
<1>3. QED
  BY <1>1, <1>2

LEMMA TruncateMapped ==
  ASSUME Serving, NEW i \in Ino, NEW f \in Fh \cup {None}, Truncate(i, f)
  PROVE  Mapped' /\ Concerns(i)
<1> DEFINE byFh == f # None /\ IsOpen(f)
           cut == IF byFh THEN FileOf(f) ELSE AtPath(i)
           table == IF byFh THEN fds ELSE Closed(OpenedOn(fds, cut), NewFd(fds))
<1>1. CASE Fail("truncate")
  BY <1>1, FailMapped DEF Concerns
<1>2. CASE ~Fail("truncate")
  <2>1. /\ inodeMap[i] # None /\ Becomes(kind, entry, table, {})
        /\ UNCHANGED <<inodeMap, astray>>
        /\ \E ok : effect' = Outcome("truncate", ok, IF byFh THEN i ELSE cut, cut, None)
    BY <1>2 DEF Truncate
  <2>2. fds' = fds
    BY TruncateOfTable DEF Serving, KeepsHandles
  <2>3. Opens' \subseteq {x \in Ino : kind[x] = "file"}
    BY <2>2, ServingFacts DEF WellFormed, Opens
  <2>4. effect'.op = "truncate" /\ (effect'.asked = i \/ effect'.node = AtPath(i))
    <3> HIDE DEF byFh, cut
    <3>1. PICK ok : effect' = Outcome("truncate", ok, IF byFh THEN i ELSE cut, cut, None)
      BY <2>1
    <3>2. CASE byFh
      <4>1. effect' = Outcome("truncate", ok, i, cut, None)
        BY <3>1, <3>2
      <4>2. QED
        BY <4>1 DEF Outcome, Reference!Outcome
    <3>3. CASE ~byFh
      <4>1. cut = AtPath(i)
        BY <3>3 DEF cut
      <4>2. QED
        BY <3>1, <3>3, <4>1 DEF Outcome, Reference!Outcome
    <3>4. QED
      BY <3>2, <3>3
  <2>5. AtPath(i) = WalkIn(kind, entry, inodeMap[i])
    BY <2>1, ServingFacts
  <2> HIDE DEF table
  <2>6. Mapped' /\ \A p \in Seq(Name) : WalkIn(kind', entry', p) = WalkIn(kind, entry, p)
    BY <2>1, <2>3, ReopenedMapped
  <2>7. QED
    BY <2>1, <2>4, <2>5, <2>6 DEF Concerns
<1>3. QED
  BY <1>1, <1>2

LEMMA ChattrMapped ==
  ASSUME Serving, NEW i \in Ino, NEW op \in {"chattr", "chown"}, Chattr(i, op)
  PROVE  Mapped' /\ Concerns(i)
<1>1. CASE Fail(op)
  BY <1>1, FailMapped DEF Concerns
<1>2. CASE ~Fail(op)
  <2>1. /\ AtPath(i) # None
        /\ \E ok : effect' = Outcome(op, ok, AtPath(i), AtPath(i), None)
        /\ UNCHANGED <<kind, entry, known, fds, inodeMap, astray>>
    BY <1>2 DEF Chattr
  <2>2. inodeMap[i] # None /\ AtPath(i) = WalkIn(kind, entry, inodeMap[i])
    <3>1. inodeMap[i] # None
      BY <2>1 DEF AtPath
    <3>2. QED
      BY <3>1, ServingFacts
  <2>3. effect'.node = AtPath(i) /\ effect'.op = op
    BY <2>1 DEF Outcome, Reference!Outcome
  <2>4. QED
    BY <2>1, <2>2, <2>3, QuietlyMapped DEF Serving, Concerns
<1>3. QED
  BY <1>1, <1>2
----------------------------------------------------------------------------
\* Mutations of entries.  What was made, if anything, stands under the name n in the
\* directory at the path of d.
MadeAt(d, n) ==
    effect'.node # None =>
        /\ inodeMap[d] \in Seq(Name)
        /\ WalkIn(kind', entry', Append(inodeMap[d], n)) = effect'.node

\* The part of create and mkdir that touches the tree.
AddsIn(d, n, r, i, t, table, seen) ==
    /\ r = AtPath(d) /\ IsDir(r) /\ Child(r, n) = None /\ kind[i] = "free"
    /\ Becomes([kind EXCEPT ![i] = t], [entry EXCEPT ![r][n] = i], table, seen)
    /\ Opens' = Opens \/ (Opens' = Opens \cup {i} /\ t = "file")

Added(d, n, i, seen) ==
    /\ inodeMap[d] \in Seq(Name)
    /\ MapInv(kind', entry', Opens', StillKnown(known, {i}, entry', Opens'),
              Registering(inodeMap, i, Append(inodeMap[d], n)), astray \ {i})
    /\ MapInv(kind', entry', Opens', StillKnown(known, {}, entry', Opens'), inodeMap, astray)
    /\ WalkIn(kind', entry', Append(inodeMap[d], n)) = i
    /\ known' = StillKnown(known, seen, entry', Opens')

LEMMA AddsEntry ==
  ASSUME Serving, NEW d \in known, NEW n \in Name, NEW i \in Ino, NEW t \in {"file", "dir"},
         NEW r, NEW table, NEW seen, AddsIn(d, n, r, i, t, table, seen)
  PROVE  Added(d, n, i, seen)
<1>1. /\ r = AtPath(d) /\ IsDir(r) /\ Child(r, n) = None /\ kind[i] = "free"
      /\ Becomes([kind EXCEPT ![i] = t], [entry EXCEPT ![r][n] = i], table, seen)
      /\ Opens' = Opens \/ (Opens' = Opens \cup {i} /\ t = "file")
  BY DEF AddsIn
<1>2. d \in Ino /\ r \in Ino /\ kind[r] = "dir"
  BY <1>1, ServingFacts DEF IsDir
<1>3. inodeMap[d] # None
  BY <1>1, <1>2, TreeAssumption DEF AtPath
<1>4. /\ inodeMap[d] \in Seq(Name) /\ WalkIn(kind, entry, inodeMap[d]) = r
      /\ ChildIn(kind, entry, r, n) = None
  BY <1>1, <1>2, <1>3, ServingFacts
<1>5. /\ entry' = WithEntry(entry, r, n, i)
      /\ kind' = Remaining(WithKind(kind, i, t), entry', Opens')
      /\ known' = StillKnown(known, seen, entry', Opens')
  BY <1>1, BecomesTree DEF WithEntry, WithKind, StillKnown
<1>6. MapInv(kind, entry, Opens, known, inodeMap, astray)
  BY DEF Serving, Mapped
<1>7. Adds(kind, entry, Opens, inodeMap, d, r, n, i, t, kind', entry', Opens')
  BY <1>1, <1>2, <1>3, <1>4, <1>5 DEF Adds
<1>8. MapInv(kind', entry', Opens', StillKnown(known, {i}, entry', Opens'),
             Registering(inodeMap, i, Append(inodeMap[d], n)), astray \ {i})
  BY ONLY <1>6, <1>7, MapWhenAdded
<1>9. MapInv(kind', entry', Opens', StillKnown(known, {}, entry', Opens'), inodeMap, astray)
  BY ONLY <1>6, <1>7, MapWhenAdded
<1>10. StandsAt(known, inodeMap, d, n, i, kind', entry', Opens')
  BY ONLY <1>6, <1>7, MapWhenAdded
<1>11. QED
  BY <1>4, <1>5, <1>8, <1>9, <1>10 DEF StandsAt, Added

\* It is made and registered, or made and then its attributes cannot be read.
LEMMA RegisteredMapped ==
  ASSUME Serving, NEW d \in known, NEW n \in Name, NEW i \in Ino, NEW t \in {"file", "dir"},
         NEW r, NEW table, AddsIn(d, n, r, i, t, table, {i}),
         inodeMap' = [inodeMap EXCEPT ![i] = Append(inodeMap[d], n)],
         astray' = astray \ {i}, effect'.node = i
  PROVE  Mapped' /\ MadeAt(d, n)
<1>1. Added(d, n, i, {i})
  BY AddsEntry
<1>2. QED
  BY <1>1 DEF Added, Mapped, MadeAt, Registering

LEMMA UnseenMapped ==
  ASSUME Serving, NEW d \in known, NEW n \in Name, NEW i \in Ino, NEW t \in {"file", "dir"},
         NEW r, NEW table, AddsIn(d, n, r, i, t, table, {}),
         UNCHANGED <<inodeMap, astray>>, effect'.node = i
  PROVE  Mapped' /\ MadeAt(d, n)
<1>1. Added(d, n, i, {})
  BY AddsEntry
<1>2. QED
  BY <1>1 DEF Added, Mapped, MadeAt

LEMMA MkdirMapped ==
  ASSUME Serving, NEW d \in known, NEW n \in Name, Mkdir(d, n)
  PROVE  Mapped' /\ MadeAt(d, n) /\ effect'.op = "mkdir"
<1> DEFINE r == AtPath(d)
<1>1. CASE Fail("mkdir")
  BY <1>1, FailMapped DEF MadeAt
<1>2. CASE ~Fail("mkdir")
  <2>1. IsDir(r) /\ Child(r, n) = None /\ r = AtPath(d)
    BY <1>2 DEF Mkdir
  <2>2. PICK i \in Ino :
          /\ kind[i] = "free"
          /\ \/ /\ Becomes([kind EXCEPT ![i] = "dir"], [entry EXCEPT ![r][n] = i], fds, {i})
                /\ inodeMap' = [inodeMap EXCEPT ![i] = Append(inodeMap[d], n)]
                /\ astray' = astray \ {i}
                /\ effect' = Did("mkdir", i, r)
             \/ /\ Becomes([kind EXCEPT ![i] = "dir"], [entry EXCEPT ![r][n] = i], fds, {})
                /\ effect' = Outcome("mkdir", FALSE, i, i, r)
                /\ UNCHANGED <<inodeMap, astray>>
    BY <1>2 DEF Mkdir
  <2> HIDE DEF r
  <2>3. effect'.op = "mkdir" /\ effect'.node = i
    BY <2>2 DEF Did, Outcome, Reference!Outcome
  <2>4. CASE /\ Becomes([kind EXCEPT ![i] = "dir"], [entry EXCEPT ![r][n] = i], fds, {i})
             /\ inodeMap' = [inodeMap EXCEPT ![i] = Append(inodeMap[d], n)]
             /\ astray' = astray \ {i}
    <3>1. Opens' = Opens
      BY <2>4, BecomesTree DEF Opens
    <3>2. AddsIn(d, n, r, i, "dir", fds, {i})
      BY <2>1, <2>2, <2>4, <3>1 DEF AddsIn
    <3>3. QED
      BY <2>3, <2>4, <3>2, RegisteredMapped
  <2>5. CASE /\ Becomes([kind EXCEPT ![i] = "dir"], [entry EXCEPT ![r][n] = i], fds, {})
             /\ UNCHANGED <<inodeMap, astray>>
    <3>1. Opens' = Opens
      BY <2>5, BecomesTree DEF Opens
    <3>2. AddsIn(d, n, r, i, "dir", fds, {})
      BY <2>1, <2>2, <2>5, <3>1 DEF AddsIn
    <3>3. QED
      BY <2>3, <2>5, <3>2, UnseenMapped
  <2>6. QED
    BY <2>2, <2>4, <2>5
<1>3. QED
  BY <1>1, <1>2

\* openat finds a file.
LEMMA FoundAtPath ==
  ASSUME Serving, NEW d \in known, NEW n \in Name, NEW i \in Ino, IsFile(i),
         i = Child(AtPath(d), n)
  PROVE  /\ inodeMap[d] # None /\ inodeMap[d] \in Seq(Name)
         /\ Append(inodeMap[d], n) \in Seq(Name) /\ i \in Ino \ {Root}
         /\ WalkIn(kind, entry, Append(inodeMap[d], n)) = i
<1> DEFINE r == AtPath(d)
           path == Append(inodeMap[d], n)
<1>1. d \in Ino /\ r \in Ino /\ kind[r] = "dir" /\ ChildIn(kind, entry, r, n) = i /\ i # None
  BY ServingFacts, TreeAssumption DEF Child, IsDir
<1>2. inodeMap[d] # None /\ inodeMap[d] \in Seq(Name) /\ WalkIn(kind, entry, inodeMap[d]) = r
  <2>1. inodeMap[d] # None
    BY <1>1, TreeAssumption DEF AtPath
  <2>2. QED
    BY <1>1, <2>1, ServingFacts
<1>3. path \in Seq(Name) /\ WalkIn(kind, entry, path) = i
  <2> HIDE DEF r
  <2>1. WalkIn(kind, entry, path) = ChildIn(kind, entry, r, n)
    BY <1>2, WalkAppend
  <2>2. QED
    BY <1>1, <1>2, <2>1, AppendProperties
<1>4. i \in Ino \ {Root}
  BY <1>1, <1>2, <1>3, ServingFacts, EntryIsNamed
<1>5. QED
  BY <1>2, <1>3, <1>4

\* It is opened and registered.
LEMMA FoundMapped ==
  ASSUME Serving, NEW d \in known, NEW n \in Name, NEW i \in Ino, IsFile(i),
         i = Child(AtPath(d), n), FreeFds(fds) # {}, Becomes(kind, entry, OpenedOn(fds, i), {i}),
         inodeMap' = [inodeMap EXCEPT ![i] = Append(inodeMap[d], n)],
         astray' = astray \ {i}, effect'.node = i
  PROVE  Mapped' /\ MadeAt(d, n)
<1> DEFINE path == Append(inodeMap[d], n)
<1>2. inodeMap[d] \in Seq(Name)
  BY FoundAtPath
<1>3. path \in Seq(Name) /\ WalkIn(kind, entry, path) = i
  BY FoundAtPath
<1>4. i \in Ino \ {Root}
  BY FoundAtPath
<1> HIDE DEF path
<1>5. /\ entry' = entry /\ kind' = Remaining(kind, entry, Opens')
      /\ known' = (known \cup {i}) \cap Live(entry, Opens') /\ Opens' = Opens \cup {i}
  BY BecomesTree, OpensAfterOpening DEF Serving, FdInv
<1>6. Opens' \subseteq {x \in Ino : kind[x] = "file"}
  BY <1>5, ServingFacts DEF WellFormed, IsFile
<1> DEFINE L == (known \cup {}) \cap Live(entry, Opens')
<1>7. /\ MapInv(kind', entry, Opens', L, inodeMap, astray)
      /\ \A p \in Seq(Name) : WalkIn(kind', entry, p) = WalkIn(kind, entry, p)
  <2>1. MapInv(kind, entry, Opens, known, inodeMap, astray)
    BY DEF Serving, Mapped
  <2>2. kind' = Remaining(kind, entry, Opens') /\ L = (known \cup {}) \cap Live(entry, Opens')
    BY <1>5
  <2> HIDE DEF L
  <2>3. QED
    BY ONLY <1>6, <2>1, <2>2, MapWhenReopened
<1>8. WalkIn(kind', entry, path) = i
  BY <1>3, <1>7
<1>9. L \subseteq known' /\ known' \subseteq L \cup {i}
  BY <1>5
<1> HIDE DEF L
<1>10. /\ inodeMap' \in [Ino -> Seq(Name) \cup {None}]
       /\ \A x \in {i} : inodeMap'[x] \in Seq(Name) /\ WalkIn(kind', entry, inodeMap'[x]) = x
       /\ \A x \in Ino \ {i} : inodeMap'[x] = inodeMap[x]
  BY <1>3, <1>4, <1>8, ServingFacts DEF path
<1>11. MapInv(kind', entry, Opens', known', inodeMap', astray \ {i})
  <2>1. {i} \in SUBSET (Ino \ {Root})
    BY <1>4
  <2>2. QED
    BY <1>7, <1>9, <1>10, <2>1, MapRegisters
<1>12. QED
  BY <1>2, <1>5, <1>8, <1>11 DEF Mapped, MadeAt, path

LEMMA CreateMadeFresh ==
  ASSUME Serving, NEW d \in known, NEW n \in Name, NEW i \in Ino, NEW r,
         r = AtPath(d), IsDir(r), Child(r, n) = None, kind[i] = "free", FreeFds(fds) # {},
         NEW flags, CreateMade(i, r, n, Append(inodeMap[d], n), flags)
  PROVE  Mapped' /\ MadeAt(d, n) /\ effect'.op = "create"
<1> DEFINE k == [kind EXCEPT ![i] = "file"]
           e == [entry EXCEPT ![r][n] = i]
<1>1. \/ /\ Becomes(k, e, OpenedOn(fds, i), {i})
         /\ inodeMap' = [inodeMap EXCEPT ![i] = Append(inodeMap[d], n)]
         /\ astray' = astray \ {i}
         /\ effect' = Did("create", i, r)
      \/ /\ Becomes(k, e, Closed(OpenedOn(fds, i), NewFd(fds)), {})
         /\ effect' = Outcome("create", FALSE, i, i, r)
         /\ UNCHANGED <<inodeMap, astray>>
  BY DEF CreateMade
<1>2. effect'.op = "create" /\ effect'.node = i
  BY <1>1 DEF Did, Outcome, Reference!Outcome
<1>3. CASE /\ Becomes(k, e, OpenedOn(fds, i), {i})
           /\ inodeMap' = [inodeMap EXCEPT ![i] = Append(inodeMap[d], n)]
           /\ astray' = astray \ {i}
  <2>1. Opens' = Opens \cup {i}
    <3>1. fds' = OpenedOn(fds, i)
      BY <1>3, BecomesTree
    <3>2. QED
      BY <3>1, OpensAfterOpening DEF Serving, FdInv
  <2>2. AddsIn(d, n, r, i, "file", OpenedOn(fds, i), {i})
    BY <1>3, <2>1 DEF AddsIn
  <2>3. QED
    BY <1>2, <1>3, <2>2, RegisteredMapped
<1>4. CASE /\ Becomes(k, e, Closed(OpenedOn(fds, i), NewFd(fds)), {})
           /\ UNCHANGED <<inodeMap, astray>>
  <2>1. Opens' = Opens
    <3>1. fds' = Closed(OpenedOn(fds, i), NewFd(fds))
      BY <1>4, BecomesTree
    <3>2. QED
      BY <3>1, OpensAfterBoth DEF Serving, FdInv
  <2>2. AddsIn(d, n, r, i, "file", Closed(OpenedOn(fds, i), NewFd(fds)), {})
    BY <1>4, <2>1 DEF AddsIn
  <2>3. QED
    BY <1>2, <1>4, <2>2, UnseenMapped
<1>5. QED
  BY <1>1, <1>2, <1>3, <1>4

LEMMA CreateMadeFound ==
  ASSUME Serving, NEW d \in known, NEW n \in Name, NEW i \in Ino, NEW r,
         r = AtPath(d), i = Child(r, n), IsFile(i), FreeFds(fds) # {},
         NEW flags, CreateMade(i, r, n, Append(inodeMap[d], n), flags)
  PROVE  Mapped' /\ MadeAt(d, n) /\ effect'.op = "create"
<1>1. kind[i] # "free"
  BY DEF IsFile
<1>2. \/ /\ Becomes(kind, entry, OpenedOn(fds, i), {i})
         /\ inodeMap' = [inodeMap EXCEPT ![i] = Append(inodeMap[d], n)]
         /\ astray' = astray \ {i}
         /\ effect' = Did("create", i, r)
      \/ /\ Becomes(kind, entry, Closed(OpenedOn(fds, i), NewFd(fds)), {})
         /\ \E node \in {None, i} : \E dir :
               effect' = Outcome("create", FALSE, node, node, dir)
         /\ UNCHANGED <<inodeMap, astray>>
  BY <1>1 DEF CreateMade
<1>3. CASE /\ Becomes(kind, entry, OpenedOn(fds, i), {i})
           /\ inodeMap' = [inodeMap EXCEPT ![i] = Append(inodeMap[d], n)]
           /\ astray' = astray \ {i}
           /\ effect' = Did("create", i, r)
  <2>1. effect'.op = "create" /\ effect'.node = i
    BY <1>3 DEF Did, Outcome, Reference!Outcome
  <2>2. QED
    BY <1>3, <2>1, FoundMapped
<1>4. CASE /\ Becomes(kind, entry, Closed(OpenedOn(fds, i), NewFd(fds)), {})
           /\ \E node \in {None, i} : \E dir :
                 effect' = Outcome("create", FALSE, node, node, dir)
           /\ UNCHANGED <<inodeMap, astray>>
  <2>1. effect'.op = "create" /\ effect'.node \in {None, i}
    BY <1>4 DEF Outcome, Reference!Outcome
  <2>2. Opens' = Opens
    <3>1. fds' = Closed(OpenedOn(fds, i), NewFd(fds))
      BY <1>4, BecomesTree
    <3>2. QED
      BY <3>1, OpensAfterBoth DEF Serving, FdInv
  <2>3. Opens' \subseteq {x \in Ino : kind[x] = "file"}
    BY <2>2, ServingFacts DEF WellFormed
  <2>4. Mapped' /\ \A p \in Seq(Name) : WalkIn(kind', entry', p) = WalkIn(kind, entry, p)
    BY <1>4, <2>3, ReopenedMapped
  <2>5. inodeMap[d] \in Seq(Name) /\ WalkIn(kind, entry, Append(inodeMap[d], n)) = i
    BY FoundAtPath
  <2>6. MadeAt(d, n)
    BY <2>1, <2>4, <2>5, AppendProperties DEF MadeAt
  <2>7. QED
    BY <2>1, <2>4, <2>6
<1>5. QED
  BY <1>2, <1>3, <1>4

LEMMA CreateMapped ==
  ASSUME Serving, NEW d \in known, NEW n \in Name, NEW flags, Create(d, n, flags)
  PROVE  Mapped' /\ MadeAt(d, n) /\ effect'.op = "create"
<1> DEFINE r == AtPath(d)
           c == Child(r, n)
<1>1. CASE Fail("create")
  BY <1>1, FailMapped DEF MadeAt
<1>2. CASE ~Fail("create")
  <2>1. IsDir(r) /\ FreeFds(fds) # {} /\ ~IsDir(c)
    BY <1>2 DEF Create
  <2>2. PICK i \in Ino :
          /\ IF IsFile(c) THEN i = c ELSE kind[i] = "free"
          /\ CreateMade(i, r, n, Append(inodeMap[d], n), flags)
    BY <1>2 DEF Create
  <2>3. r = AtPath(d) /\ c = Child(r, n)
    OBVIOUS
  <2> HIDE DEF r, c
  <2>4. CASE IsFile(c)
    BY <2>1, <2>2, <2>3, <2>4, CreateMadeFound
  <2>5. CASE ~IsFile(c)
    <3>1. c = entry[r][n] /\ r \in Ino
      BY <2>1, <2>3 DEF Child, IsDir
    <3>2. c \in Ino => kind[c] # "free"
      BY <3>1, ServingFacts DEF WellFormed, Live
    <3>3. c = None
      BY <2>1, <2>5, <3>1, <3>2, ServingFacts DEF IsDir, IsFile
    <3>4. QED
      BY <2>1, <2>2, <2>3, <2>5, <3>3, CreateMadeFresh
  <2>6. QED
    BY <2>4, <2>5
<1>3. QED
  BY <1>1, <1>2

\* What was removed is no longer found under the name n in the directory at the path of d.
GoneFrom(d, n) ==
    effect'.node # None =>
        /\ inodeMap[d] \in Seq(Name)
        /\ WalkIn(kind', entry', Append(inodeMap[d], n)) = None

LEMMA RemovesMapped ==
  ASSUME Serving, NEW d \in known, NEW n \in Name, NEW r, r = AtPath(d), IsDir(r),
         NEW i \in Ino, i = entry[r][n], \A m \in Name : entry[i][m] = None,
         NEW op, Removes(op, r, n)
  PROVE  Mapped' /\ GoneFrom(d, n) /\ effect'.op = op
<1>1. /\ Becomes(kind, [entry EXCEPT ![r][n] = None], fds, {})
      /\ inodeMap' = [inodeMap EXCEPT ![i] = None]
      /\ astray' = IF \E x \in Ino, y \in Name : [entry EXCEPT ![r][n] = None][x][y] = i
                   THEN astray \cup {i} ELSE astray \ {i}
      /\ effect' = Did(op, i, r)
  BY DEF Removes
<1>2. /\ fds' = fds /\ entry' = [entry EXCEPT ![r][n] = None]
      /\ kind' = Remaining(kind, entry', Opens')
      /\ known' = (known \cup {}) \cap Live(entry', Opens')
  BY <1>1, BecomesTree
<1>3. Opens' = Opens
  BY <1>2 DEF Opens
<1>4. astray' = IF \E x \in Ino, y \in Name : entry'[x][y] = i
                THEN astray \cup {i} ELSE astray \ {i}
  BY <1>1, <1>2
<1>5. d \in Ino /\ r \in Ino /\ ChildIn(kind, entry, r, n) = i
  BY ServingFacts DEF ChildIn, IsDir
<1>6. inodeMap[d] \in Seq(Name) /\ WalkIn(kind, entry, inodeMap[d]) = r
  <2>1. inodeMap[d] # None
    BY <1>5, TreeAssumption DEF AtPath
  <2>2. QED
    BY <1>5, <2>1, ServingFacts
<1>7. entry' = WithEntry(entry, r, n, None)
  BY <1>2 DEF WithEntry
<1>8. Takes(kind, entry, Opens, r, n, i, kind', entry')
  BY <1>2, <1>3, <1>5, <1>7 DEF Takes
<1>9. MapInv(kind, entry, Opens, known, inodeMap, astray)
  BY DEF Serving, Mapped
<1>10. MapInv(kind', entry', Opens, known', inodeMap', astray')
  <2>1. Forgets(known, inodeMap, astray, Opens, i, entry', known', inodeMap', astray')
    BY <1>1, <1>2, <1>3, <1>4 DEF Forgets
  <2>2. QED
    BY ONLY <1>8, <1>9, <2>1, MapWhenRemoved
<1>11. WalkIn(kind', entry', Append(inodeMap[d], n)) = None
  BY ONLY <1>6, <1>8, <1>9, NameGone
<1>12. effect'.op = op
  BY <1>1 DEF Did, Outcome, Reference!Outcome
<1>13. QED
  BY <1>3, <1>6, <1>10, <1>11, <1>12 DEF Mapped, GoneFrom

LEMMA UnlinkMapped ==
  ASSUME Serving, NEW d \in known, NEW n \in Name, Unlink(d, n)
  PROVE  Mapped' /\ GoneFrom(d, n) /\ effect'.op = "unlink"
<1> DEFINE r == AtPath(d)
           i == entry[r][n]
<1>1. CASE Fail("unlink")
  BY <1>1, FailMapped DEF GoneFrom
<1>2. CASE ~Fail("unlink")
  <2>1. IsDir(r) /\ IsFile(Child(r, n)) /\ Removes("unlink", r, n)
    BY <1>2 DEF Unlink
  <2>2. r = AtPath(d) /\ i = entry[r][n]
    OBVIOUS
  <2> HIDE DEF r, i
  <2>3. IsFile(i)
    BY <2>1, <2>2 DEF Child
  <2>4. i \in Ino /\ \A m \in Name : entry[i][m] = None
    BY <2>3, ServingFacts DEF IsFile, WellFormed
  <2>5. QED
    BY <2>1, <2>2, <2>4, RemovesMapped
<1>3. QED
  BY <1>1, <1>2

LEMMA RmdirMapped ==
  ASSUME Serving, NEW d \in known, NEW n \in Name, Rmdir(d, n)
  PROVE  Mapped' /\ GoneFrom(d, n) /\ effect'.op = "rmdir"
<1> DEFINE r == AtPath(d)
           i == entry[r][n]
<1>1. CASE Fail("rmdir")
  BY <1>1, FailMapped DEF GoneFrom
<1>2. CASE ~Fail("rmdir")
  <2>1. /\ IsDir(r) /\ IsDir(Child(r, n)) /\ IsEmpty(Child(r, n))
        /\ Removes("rmdir", r, n)
    BY <1>2 DEF Rmdir
  <2>2. r = AtPath(d) /\ i = entry[r][n]
    OBVIOUS
  <2> HIDE DEF r, i
  <2>3. IsDir(i) /\ IsEmpty(i)
    BY <2>1, <2>2 DEF Child
  <2>4. i \in Ino /\ \A m \in Name : entry[i][m] = None
    BY <2>3 DEF IsDir, IsEmpty
  <2>5. QED
    BY <2>1, <2>2, <2>4, RemovesMapped
<1>3. QED
  BY <1>1, <1>2

\* What was moved stands under the name m in the directory at the path of b.
MovedTo(b, m) ==
    effect'.node # None =>
        /\ inodeMap[b] \in Seq(Name)
        /\ WalkIn(kind', entry', Append(inodeMap[b], m)) = effect'.node

LEMMA RenameMapped ==
  ASSUME Serving, NEW d \in known, NEW n \in Name, NEW b \in known, NEW m \in Name,
         Rename(d, n, b, m)
  PROVE  Mapped' /\ MovedTo(b, m) /\ effect'.op = "rename"
<1> DEFINE r == AtPath(d)
           s == AtPath(b)
           old == Append(inodeMap[d], n)
           new == Append(inodeMap[b], m)
           i == Child(r, n)
           j == Child(s, m)
           e2 == IF j = i THEN entry ELSE [entry EXCEPT ![r][n] = None, ![s][m] = i]
           lost == {x \in Ino \ {i} : /\ inodeMap[x] # None
                                      /\ IsPrefix(old, inodeMap[x])
                                         \/ IsPrefix(new, inodeMap[x])}
<1>1. CASE Fail("rename")
  BY <1>1, FailMapped DEF MovedTo
<1>2. CASE ~Fail("rename")
  <2>1. /\ r # None /\ s # None /\ i \in Ino /\ CanRename(r, n, s, m, new)
        /\ Becomes(kind, e2, fds, {})
        /\ inodeMap' = [inodeMap EXCEPT ![i] = new]
        /\ astray' = (astray \cup lost) \ {i}
        /\ effect' = Did("rename", i, s)
    BY <1>2 DEF Rename
  <2>2. /\ i # None /\ IsDir(s)
        /\ j # None => /\ IsDir(i) <=> IsDir(j)
                       /\ IsDir(j) => j = i \/ IsEmpty(j)
        /\ IsDir(i) => \A l \in 0 .. Len(new) - 1 : Walk(SubSeq(new, 1, l)) # i
    BY <2>1 DEF CanRename
  <2>3. /\ r = AtPath(d) /\ s = AtPath(b)
        /\ old = Append(inodeMap[d], n) /\ new = Append(inodeMap[b], m)
    OBVIOUS
  <2>4. Child(r, n) = i /\ Child(s, m) = j
    OBVIOUS
  <2> HIDE DEF r, s, old, new, i, j
  <2>5. lost = Misled(inodeMap, old, new, i)
    BY DEF Misled
  <2> HIDE DEF lost
  <2>6. d \in Ino /\ b \in Ino /\ inodeMap[d] # None /\ inodeMap[b] # None
    BY <2>1, <2>3, ServingFacts DEF AtPath
  <2>7. /\ inodeMap[d] \in Seq(Name) /\ inodeMap[b] \in Seq(Name)
        /\ WalkIn(kind, entry, inodeMap[d]) = r /\ WalkIn(kind, entry, inodeMap[b]) = s
        /\ ChildIn(kind, entry, r, n) = i /\ ChildIn(kind, entry, s, m) = j
    BY <2>3, <2>4, <2>6, ServingFacts
  <2>8. r \in Ino /\ s \in Ino /\ kind[s] = "dir" /\ j \in Ino \cup {None}
    <3>1. s \in Ino /\ kind[s] = "dir" /\ j = entry[s][m]
      BY <2>2, <2>4 DEF Child, IsDir
    <3>2. r \in Ino
      BY <2>2, <2>4 DEF Child, IsDir
    <3>3. QED
      BY <3>1, <3>2, ServingFacts
  <2>9. j = i \/ Replaceable(kind, entry, i, j)
    BY <2>1, <2>2, <2>8 DEF Replaceable, IsDir, IsEmpty
  <2>10. kind[i] = "dir" =>
           \A l \in 0 .. Len(inodeMap[b]) :
             WalkIn(kind, entry, SubSeq(Append(inodeMap[b], m), 1, l)) # i
    <3>1. Len(new) - 1 = Len(inodeMap[b])
      BY <2>3, <2>7, AppendProperties, LenProperties
    <3>2. QED
      BY <2>1, <2>2, <2>3, <3>1, WalkIsWalkIn DEF IsDir
  <2>11. e2 = IF j = i THEN entry ELSE WithEntry(WithEntry(entry, r, n, None), s, m, i)
    BY DEF WithEntry
  <2> HIDE DEF e2
  <2>12. /\ fds' = fds /\ entry' = e2 /\ kind' = Remaining(kind, e2, Opens')
         /\ known' = (known \cup {}) \cap Live(e2, Opens')
    BY <2>1, BecomesTree
  <2>13. Opens' = Opens
    BY <2>12 DEF Opens
  <2>14. MovesTo(kind, entry, Opens, inodeMap, d, r, n, b, s, m, i, kind', entry')
    BY <2>1, <2>6, <2>7, <2>8, <2>9, <2>10, <2>11, <2>12, <2>13 DEF MovesTo
  <2>15. Renames(known, inodeMap, astray, Opens, i, Append(inodeMap[d], n),
                 Append(inodeMap[b], m), entry', known', inodeMap', astray')
    BY <2>1, <2>3, <2>5, <2>12, <2>13 DEF Renames
  <2>16. /\ MapInv(kind', entry', Opens, known', inodeMap', astray')
         /\ WalkIn(kind', entry', Append(inodeMap[b], m)) = i
    <3>1. MapInv(kind, entry, Opens, known, inodeMap, astray)
      BY DEF Serving, Mapped
    <3>2. QED
      BY ONLY <2>14, <2>15, <3>1, MapWhenMoved
  <2>17. effect'.op = "rename" /\ effect'.node = i
    BY <2>1 DEF Did, Outcome, Reference!Outcome
  <2>18. QED
    BY <2>7, <2>13, <2>16, <2>17 DEF Mapped, MovedTo
<1>3. QED
  BY <1>1, <1>2
----------------------------------------------------------------------------
\* LogNamesSubject of a tree, an outcome and the entries of a notification.
NamesIn(k, e, x, A, entries) ==
    x.node # None =>
        \A j \in 1 .. Len(entries) : SubjectIn(k, e, x, A, entries[j].path, entries[j].to)

LEMMA NamesIs ==
    /\ LogNamesSubject <=> NamesIn(kind, entry, effect, astray, logged)
    /\ LogNamesSubject' <=> NamesIn(kind', entry', effect', astray', logged')
  BY DEF LogNamesSubject, Subject, NamesIn, SubjectIn, Walk, WalkIn, Child, ChildIn, IsDir

Names == NamesIn(kind', entry', effect', astray', logged')

\* Whatever is logged is under this path.
Told(path, to) ==
    \A j \in 1 .. Len(logged') :
        logged'[j].path = path /\ logged'[j].to = to /\ path # None

LEMMA NothingTold ==
  ASSUME NEW path, NEW to, logged' = <<>>
  PROVE  Told(path, to) /\ Names
  BY DEF Told, Names, NamesIn

LEMMA OneTold ==
  ASSUME NEW type, NEW path, NEW to, NEW c \in BOOLEAN, c => path # None,
         logged' = One(c, Entry(type, path, to))
  PROVE  Told(path, to)
<1>1. CASE c
  <2>1. logged' = <<Entry(type, path, to)>>
    BY <1>1 DEF One
  <2>2. Len(logged') = 1 /\ logged'[1] = Entry(type, path, to)
    BY <2>1
  <2>3. Entry(type, path, to).path = path /\ Entry(type, path, to).to = to
    BY DEF Entry
  <2>4. path # None
    BY <1>1
  <2>5. QED
    BY <2>2, <2>3, <2>4 DEF Told
<1>2. CASE ~c
  BY <1>2 DEF One, Told
<1>3. QED
  BY <1>1, <1>2

LEMMA NamedTold ==
  ASSUME NEW type, NEW d, NEW n, OnNamed(type, d, n)
  PROVE  Told(ResolveWithName(d, n), None)
<1> DEFINE path == ResolveWithName(d, n)
           c == Loggable(path)
<1>1. logged' = One(c, Entry(type, path, None))
  BY DEF OnNamed, LogEntries
<1>2. c \in BOOLEAN /\ (c => path # None)
  BY DEF Loggable
<1> HIDE DEF path, c
<1>3. Told(path, None)
  BY <1>1, <1>2, OneTold
<1>4. QED
  BY <1>3 DEF path

LEMMA WriteTold ==
  ASSUME NEW i, OnWrite(i)
  PROVE  Told(inodeMap[i], None)
<1> DEFINE path == inodeMap[i]
           c == Loggable(path)
<1>1. logged' = One(c, Entry("FileWrite", path, None))
  BY DEF OnWrite, LogEntries, ResolveInode
<1>2. c \in BOOLEAN /\ (c => path # None)
  BY DEF Loggable
<1> HIDE DEF path, c
<1>3. Told(path, None)
  BY <1>1, <1>2, OneTold
<1>4. QED
  BY <1>3 DEF path

LEMMA RenameTold ==
  ASSUME NEW d, NEW n, NEW b, NEW m, OnRename(d, n, b, m)
  PROVE  /\ Told(ResolveWithName(d, n), ResolveWithName(b, m))
         /\ logged' # <<>> => ResolveWithName(b, m) # None
<1> DEFINE path == ResolveWithName(d, n)
           to == ResolveWithName(b, m)
           type == IF IsDir(Stat(path)) THEN "DirRename" ELSE "FileRename"
           c == Loggable(path) /\ Loggable(to)
<1>1. logged' = One(c, Entry(type, path, to))
  BY DEF OnRename, LogEntries
<1>2. c \in BOOLEAN /\ (c => path # None /\ to # None)
  BY DEF Loggable
<1> HIDE DEF path, to, type, c
<1>3. Told(path, to)
  BY <1>1, <1>2, OneTold
<1>4. logged' # <<>> => to # None
  BY <1>1, <1>2 DEF One
<1>5. QED
  BY <1>3, <1>4 DEF path, to

LEMMA SetattrTold ==
  ASSUME NEW i, NEW attrs, OnSetattr(i, attrs)
  PROVE  Told(inodeMap[i], None)
<1> DEFINE path == inodeMap[i]
           Given(attr, type) == IF attr \in attrs THEN <<Entry(type, path, None)>> ELSE <<>>
           Entries == {Entry(type, path, None) :
                         type \in {"FileTruncate", "SetPermissions", "SetTimestamps"}}
           g1 == Given("size", "FileTruncate")
           g2 == Given("mode", "SetPermissions")
           g3 == Given("times", "SetTimestamps")
<1>1. logged' = IF Loggable(path) THEN g1 \o g2 \o g3 ELSE <<>>
  BY DEF OnSetattr, LogEntries, ResolveInode
<1>2. g1 \in Seq(Entries) /\ g2 \in Seq(Entries) /\ g3 \in Seq(Entries)
  <2>1. ASSUME NEW e \in Entries, NEW cond
        PROVE  (IF cond THEN <<e>> ELSE <<>>) \in Seq(Entries)
    <3> HIDE DEF Entries
    <3> QED OBVIOUS
  <2>2. /\ Entry("FileTruncate", path, None) \in Entries
        /\ Entry("SetPermissions", path, None) \in Entries
        /\ Entry("SetTimestamps", path, None) \in Entries
    OBVIOUS
  <2> HIDE DEF Entries
  <2>3. QED
    BY <2>1, <2>2
<1>3. \A e \in Entries : e.path = path /\ e.to = None
  BY DEF Entry
<1> HIDE DEF g1, g2, g3, Entries, path
<1>4. g1 \o g2 \o g3 \in Seq(Entries)
  BY <1>2, ConcatProperties
<1>5. CASE Loggable(path)
  <2>1. logged' \in Seq(Entries)
    BY <1>1, <1>4, <1>5
  <2>2. \A j \in 1 .. Len(logged') : logged'[j] \in Entries
    BY <2>1, ElementOfSeq
  <2>3. QED
    BY <1>3, <1>5, <2>2 DEF Told, Loggable, path
<1>6. CASE ~Loggable(path)
  BY <1>1, <1>6 DEF Told, path
<1>7. QED
  BY <1>5, <1>6
----------------------------------------------------------------------------
\* The observer and the handler have read the same map.
LEMMA MadeNamed ==
  ASSUME NEW d, NEW n, MadeAt(d, n), effect'.op \in {"create", "mkdir"},
         Told(ResolveWithName(d, n), None)
  PROVE  Names
<1>1. SUFFICES ASSUME effect'.node # None PROVE Names
  BY DEF Names, NamesIn
<1>2. inodeMap[d] # None /\ WalkIn(kind', entry', Append(inodeMap[d], n)) = effect'.node
  BY <1>1, TreeAssumption DEF MadeAt
<1>3. ResolveWithName(d, n) = Append(inodeMap[d], n)
  BY <1>2 DEF ResolveWithName
<1>4. QED
  BY <1>2, <1>3 DEF Names, NamesIn, SubjectIn, Told

LEMMA GoneNamed ==
  ASSUME NEW d, NEW n, GoneFrom(d, n), effect'.op \in {"unlink", "rmdir"},
         Told(ResolveWithName(d, n), None)
  PROVE  Names
<1>1. SUFFICES ASSUME effect'.node # None PROVE Names
  BY DEF Names, NamesIn
<1>2. inodeMap[d] # None /\ WalkIn(kind', entry', Append(inodeMap[d], n)) = None
  BY <1>1, TreeAssumption DEF GoneFrom
<1>3. ResolveWithName(d, n) = Append(inodeMap[d], n)
  BY <1>2 DEF ResolveWithName
<1>4. QED
  BY <1>2, <1>3 DEF Names, NamesIn, SubjectIn, Told

LEMMA MovedNamed ==
  ASSUME NEW d, NEW n, NEW b, NEW m, MovedTo(b, m), effect'.op = "rename",
         Told(ResolveWithName(d, n), ResolveWithName(b, m))
  PROVE  Names
<1>1. SUFFICES ASSUME effect'.node # None PROVE Names
  BY DEF Names, NamesIn
<1>2. inodeMap[b] # None /\ WalkIn(kind', entry', Append(inodeMap[b], m)) = effect'.node
  BY <1>1, TreeAssumption DEF MovedTo
<1>3. ResolveWithName(b, m) = Append(inodeMap[b], m)
  BY <1>2 DEF ResolveWithName
<1>4. QED
  BY <1>2, <1>3 DEF Names, NamesIn, SubjectIn, Told

LEMMA ByInodeNamed ==
  ASSUME Serving, NEW i \in Ino, Concerns(i), Told(inodeMap[i], None)
  PROVE  Names
<1>1. SUFFICES ASSUME effect'.node # None PROVE Names
  BY DEF Names, NamesIn
<1>2. SUFFICES ASSUME NEW j \in 1 .. Len(logged')
               PROVE  SubjectIn(kind', entry', effect', astray', logged'[j].path,
                                logged'[j].to)
  BY DEF Names, NamesIn
<1>3. logged'[j].path = inodeMap[i] /\ inodeMap[i] # None
  BY DEF Told
<1>4. inodeMap[i] \in Seq(Name) /\ (i \notin astray => WalkIn(kind, entry, inodeMap[i]) = i)
  BY <1>3, ServingFacts
<1>5. /\ effect'.op \in {"write", "truncate", "chattr", "chown"} /\ astray' = astray
      /\ WalkIn(kind', entry', inodeMap[i]) = WalkIn(kind, entry, inodeMap[i])
      /\ \/ effect'.asked = i /\ effect'.op \in {"write", "truncate"}
         \/ effect'.node = WalkIn(kind, entry, inodeMap[i])
  BY <1>1, <1>4 DEF Concerns
<1>6. CASE effect'.asked = i /\ effect'.op \in {"write", "truncate"}
  BY <1>3, <1>4, <1>5, <1>6 DEF SubjectIn
<1>7. CASE effect'.node = WalkIn(kind, entry, inodeMap[i])
  BY <1>3, <1>5, <1>7 DEF SubjectIn
<1>8. QED
  BY <1>5, <1>6, <1>7
----------------------------------------------------------------------------
\* A handler leaves a right map and entries that name what it changed.
Good == Mapped' /\ Names

LEMMA FailGood == ASSUME Serving, NEW op, Fail(op) PROVE Good
  BY FailMapped DEF Good, Names, NamesIn

LEMMA QuietGood ==
  ASSUME Serving, UNCHANGED <<kind, entry, fds, known, inodeMap, astray>>, logged' = <<>>
  PROVE  Good
  BY QuietlyMapped, NothingTold DEF Good, Serving

LEMMA QueryGood == ASSUME Serving, Queries PROVE Good
<1>1. phase = "mounted" => base # "mount"
  BY DEF Serving, FdInv, BaseBelow
<1>2. logged' = <<>>
  BY DEF Queries, FuseLookup, FuseReaddir, FuseOpen, FuseRelease, FuseGetattr, FuseRead,
         FuseFlush, FuseAccess, FuseOpendir, Query, LogEntries
<1>3. Names
  BY <1>2, NothingTold
<1>4. ASSUME NEW d \in Ino, NEW n \in Name, FuseLookup(d, n) PROVE Mapped'
  BY <1>1, <1>4, LookupMapped DEF FuseLookup, Query, Ready, Serve
<1>5. ASSUME NEW d \in Ino, FuseReaddir(d) PROVE Mapped'
  BY <1>1, <1>5, ReaddirMapped DEF FuseReaddir, Query, Ready, Serve
<1>6. ASSUME NEW i \in Ino, NEW write \in BOOLEAN, FuseOpen(i, write) PROVE Mapped'
  BY <1>1, <1>6, OpenMapped DEF FuseOpen, Query, Ready, Serve
<1>7. ASSUME NEW f \in Fh, FuseRelease(f) PROVE Mapped'
  BY <1>1, <1>7, ReleaseMapped DEF FuseRelease, Query, Ready, Serve
<1>8. ASSUME NEW byBase, Query(byBase, UNCHANGED fdVars) PROVE Mapped'
  BY <1>1, <1>8, QuietlyMapped DEF Serving, Query, Ready, Serve, fdVars
<1>9. QED
  BY <1>3, <1>4, <1>5, <1>6, <1>7, <1>8
     DEF Good, Queries, FuseGetattr, FuseRead, FuseFlush, FuseAccess, FuseOpendir

LEMMA StatsGood == ASSUME Serving, NEW path, Stats(path) PROVE Good
  BY QuietGood DEF Stats, WaitsForItself, fdVars

\* Mutations: with an observer, or without one and nothing logged.
LEMMA WriteGood == ASSUME Serving, NEW f \in Fh, FuseWrite(f) PROVE Good
<1> DEFINE i == openFiles[f].node
<1>1. /\ IsOpen(f) /\ (OnWrite(i) \/ logged' = <<>>)
      /\ Write(f) \/ Fail("write")
  BY DEF FuseWrite, Mutate, Serve, LogEntries
<1>2. i \in Ino
  BY <1>1 DEF Serving, FdInv, FdTyped, HandleRecord, IsOpen
<1>3. CASE Write(f)
  <2>1. Mapped' /\ Concerns(i)
    BY <1>3, WriteMapped
  <2> HIDE DEF i
  <2>2. Told(inodeMap[i], None)
    BY <1>1, WriteTold, NothingTold
  <2>3. QED
    BY <1>2, <2>1, <2>2, ByInodeNamed DEF Good
<1>4. QED
  BY <1>1, <1>3, FailGood

LEMMA CreateGood ==
  ASSUME Serving, NEW d \in Ino, NEW n \in Name, NEW flags, FuseCreate(d, n, flags)
  PROVE  Good
<1>1. phase = "mounted" => base # "mount"
  BY DEF Serving, FdInv, BaseBelow
<1>2. /\ d \in known /\ (OnNamed("FileCreate", d, n) \/ logged' = <<>>)
      /\ Create(d, n, flags) \/ Fail("create")
  BY <1>1 DEF FuseCreate, Mutate, Ready, Serve, LogEntries, KnownDir, OnCreate
<1>3. Told(ResolveWithName(d, n), None)
  BY <1>2, NamedTold, NothingTold
<1>4. CASE Create(d, n, flags)
  <2>1. Mapped' /\ MadeAt(d, n) /\ effect'.op = "create"
    BY <1>2, <1>4, CreateMapped
  <2>2. QED
    BY <1>3, <2>1, MadeNamed DEF Good
<1>5. QED
  BY <1>2, <1>4, FailGood

LEMMA MkdirGood ==
  ASSUME Serving, NEW d \in Ino, NEW n \in Name, FuseMkdir(d, n)
  PROVE  Good
<1>1. phase = "mounted" => base # "mount"
  BY DEF Serving, FdInv, BaseBelow
<1>2. /\ d \in known /\ (OnNamed("DirCreate", d, n) \/ logged' = <<>>)
      /\ Mkdir(d, n) \/ Fail("mkdir")
  BY <1>1 DEF FuseMkdir, Mutate, Ready, Serve, LogEntries, KnownDir, OnMkdir
<1>3. Told(ResolveWithName(d, n), None)
  BY <1>2, NamedTold, NothingTold
<1>4. CASE Mkdir(d, n)
  <2>1. Mapped' /\ MadeAt(d, n) /\ effect'.op = "mkdir"
    BY <1>2, <1>4, MkdirMapped
  <2>2. QED
    BY <1>3, <2>1, MadeNamed DEF Good
<1>5. QED
  BY <1>2, <1>4, FailGood

LEMMA UnlinkGood ==
  ASSUME Serving, NEW d \in Ino, NEW n \in Name, FuseUnlink(d, n)
  PROVE  Good
<1>1. phase = "mounted" => base # "mount"
  BY DEF Serving, FdInv, BaseBelow
<1>2. CASE Stats(ResolveWithName(d, n))
  BY <1>2, StatsGood
<1>3. CASE ~Stats(ResolveWithName(d, n))
  <2>1. /\ d \in known /\ (OnNamed("FileDelete", d, n) \/ logged' = <<>>)
        /\ Unlink(d, n) \/ Fail("unlink")
    BY <1>1, <1>3 DEF FuseUnlink, Mutate, Ready, Serve, LogEntries, KnownDir, OnUnlink
  <2>2. Told(ResolveWithName(d, n), None)
    BY <2>1, NamedTold, NothingTold
  <2>3. CASE Unlink(d, n)
    <3>1. Mapped' /\ GoneFrom(d, n) /\ effect'.op = "unlink"
      BY <2>1, <2>3, UnlinkMapped
    <3>2. QED
      BY <2>2, <3>1, GoneNamed DEF Good
  <2>4. QED
    BY <2>1, <2>3, FailGood
<1>4. QED
  BY <1>2, <1>3

LEMMA RmdirGood ==
  ASSUME Serving, NEW d \in Ino, NEW n \in Name, FuseRmdir(d, n)
  PROVE  Good
<1>1. phase = "mounted" => base # "mount"
  BY DEF Serving, FdInv, BaseBelow
<1>2. /\ d \in known /\ (OnNamed("DirDelete", d, n) \/ logged' = <<>>)
      /\ Rmdir(d, n) \/ Fail("rmdir")
  BY <1>1 DEF FuseRmdir, Mutate, Ready, Serve, LogEntries, KnownDir, OnRmdir
<1>3. Told(ResolveWithName(d, n), None)
  BY <1>2, NamedTold, NothingTold
<1>4. CASE Rmdir(d, n)
  <2>1. Mapped' /\ GoneFrom(d, n) /\ effect'.op = "rmdir"
    BY <1>2, <1>4, RmdirMapped
  <2>2. QED
    BY <1>3, <2>1, GoneNamed DEF Good
<1>5. QED
  BY <1>2, <1>4, FailGood

LEMMA RenameGood ==
  ASSUME Serving, NEW d \in Ino, NEW n \in Name, NEW b \in Ino, NEW m \in Name,
         FuseRename(d, n, b, m)
  PROVE  Good
<1>1. phase = "mounted" => base # "mount"
  BY DEF Serving, FdInv, BaseBelow
<1>2. CASE Stats(ResolveWithName(d, n))
  BY <1>2, StatsGood
<1>3. CASE ~Stats(ResolveWithName(d, n))
  <2>1. /\ d \in known /\ b \in known /\ (OnRename(d, n, b, m) \/ logged' = <<>>)
        /\ Rename(d, n, b, m) \/ Fail("rename")
    BY <1>1, <1>3 DEF FuseRename, Mutate, Ready, Serve, LogEntries, KnownDir
  <2>2. Told(ResolveWithName(d, n), ResolveWithName(b, m))
    BY <2>1, RenameTold, NothingTold
  <2>3. CASE Rename(d, n, b, m)
    <3>1. Mapped' /\ MovedTo(b, m) /\ effect'.op = "rename"
      BY <2>1, <2>3, RenameMapped
    <3>2. QED
      BY <2>2, <3>1, MovedNamed DEF Good
  <2>4. QED
    BY <2>1, <2>3, FailGood
<1>4. QED
  BY <1>2, <1>3

LEMMA TruncateGood ==
  ASSUME Serving, NEW i \in Ino, NEW f \in Fh \cup {None}, NEW more, FuseTruncate(i, f, more)
  PROVE  Good
<1>1. phase = "mounted" => base # "mount"
  BY DEF Serving, FdInv, BaseBelow
<1>2. /\ OnSetattr(i, {"size"} \cup more) \/ logged' = <<>>
      /\ Truncate(i, f) \/ Fail("truncate")
  BY <1>1 DEF FuseTruncate, Mutate, Ready, Serve, LogEntries
<1>3. Told(inodeMap[i], None)
  BY <1>2, SetattrTold, NothingTold
<1>4. CASE Truncate(i, f)
  BY <1>3, <1>4, TruncateMapped, ByInodeNamed DEF Good
<1>5. QED
  BY <1>2, <1>4, FailGood

LEMMA ChattrGood ==
  ASSUME Serving, NEW i \in Ino, NEW attrs, FuseChattr(i, attrs)
  PROVE  Good
<1>1. phase = "mounted" => base # "mount"
  BY DEF Serving, FdInv, BaseBelow
<1> DEFINE op == IF attrs = {"owner"} THEN "chown" ELSE "chattr"
<1>2. /\ OnSetattr(i, attrs) \/ logged' = <<>>
      /\ Chattr(i, op) \/ Fail(op)
  BY <1>1 DEF FuseChattr, Mutate, Ready, Serve, LogEntries
<1>6. op \in {"chattr", "chown"}
  OBVIOUS
<1> HIDE DEF op
<1>3. Told(inodeMap[i], None)
  BY <1>2, SetattrTold, NothingTold
<1>4. CASE Chattr(i, op)
  BY <1>3, <1>4, <1>6, ChattrMapped, ByInodeNamed DEF Good
<1>5. QED
  BY <1>2, <1>4, FailGood

LEMMA MutationGood == ASSUME Serving, Mutation PROVE Good
<1>1. ASSUME NEW f \in Fh, FuseWrite(f) PROVE Good
  BY <1>1, WriteGood
<1>2. ASSUME NEW d \in Ino, NEW n \in Name, NEW flags, FuseCreate(d, n, flags)
      PROVE  Good
  BY <1>2, CreateGood
<1>3. ASSUME NEW d \in Ino, NEW n \in Name,
             FuseMkdir(d, n) \/ FuseUnlink(d, n) \/ FuseRmdir(d, n)
      PROVE  Good
  BY <1>3, MkdirGood, UnlinkGood, RmdirGood
<1>4. ASSUME NEW d \in Ino, NEW b \in Ino, NEW n \in Name, NEW m \in Name,
             FuseRename(d, n, b, m)
      PROVE  Good
  BY <1>4, RenameGood
<1>5. ASSUME NEW i \in Ino, NEW f \in Fh \cup {None}, NEW more, FuseTruncate(i, f, more)
      PROVE  Good
  BY <1>5, TruncateGood
<1>6. ASSUME NEW i \in Ino, NEW attrs, FuseChattr(i, attrs) PROVE Good
  BY <1>6, ChattrGood
<1>7. QED
  BY <1>1, <1>2, <1>3, <1>4, <1>5, <1>6 DEF Mutation
----------------------------------------------------------------------------
\* The map of a process that starts holds the root.
LEMMA FreshMap ==
  ASSUME NEW k, NEW e, WellFormed(k, e, {})
  PROVE  MapInv(k, e, {}, {Root}, [i \in Ino |-> IF i = Root THEN <<>> ELSE None], {})
<1> DEFINE fresh == [i \in Ino |-> IF i = Root THEN <<>> ELSE None]
<1>1. <<>> \in Seq(Name) /\ <<>> # None /\ WalkIn(k, e, <<>>) = Root /\ Root \in Ino
  BY EmptySeq, TreeAssumption, WalkSteps
<1>2. /\ fresh \in [Ino -> Seq(Name) \cup {None}] /\ fresh[Root] = <<>>
      /\ \A i \in Ino : fresh[i] # None => i = Root
  BY <1>1
<1>3. k[Root] # "free"
  BY DEF WellFormed
<1> HIDE DEF fresh
<1>4. MapInv(k, e, {}, {Root}, fresh, {})
  BY <1>1, <1>2, <1>3 DEF MapInv
<1>5. QED
  BY <1>4 DEF fresh

\* When a process has ended nothing is open in the tree that it leaves, and the next one
\* starts with the map of its root.
LEMMA EndsMapped ==
  ASSUME Serving, Ends
  PROVE  Mapped' /\ Names
<1>1. /\ fds' = [d \in Fd |-> None] /\ entry' = entry
      /\ kind' = [i \in Ino |-> IF i \in Live(entry, {}) THEN kind[i] ELSE "free"]
      /\ known' = {Root} /\ astray' = {} /\ logged' = <<>>
      /\ inodeMap' = [i \in Ino |-> IF i = Root THEN <<>> ELSE None]
  BY DEF Ends, LogEntries
<1>2. Opens' = {}
  <2>1. \A d \in Fd : fds'[d] = None
    BY <1>1
  <2>2. QED
    BY <2>1 DEF Opens, OpenInodes, OpenFds
<1>3. WellFormed(kind', entry, {})
  <2> DEFINE L == (known \cup {}) \cap Live(entry, {})
  <2>1. MapInv(kind, entry, Opens, known, inodeMap, astray)
    BY DEF Serving, Mapped
  <2>2. kind' = Remaining(kind, entry, {})
    BY <1>1 DEF Remaining
  <2>3. MapInv(kind', entry, {}, L, inodeMap, astray)
    BY ONLY <2>1, <2>2, MapWhenReopened
  <2>4. QED
    BY <2>3 DEF MapInv
<1>4. MapInv(kind', entry, {}, {Root}, [i \in Ino |-> IF i = Root THEN <<>> ELSE None], {})
  BY ONLY <1>3, FreshMap
<1>5. Mapped'
  BY <1>1, <1>2, <1>4 DEF Mapped
<1>6. QED
  BY <1>1, <1>5, NothingTold

\* Every step keeps the invariant, and what is logged names what was changed.
LEMMA MountInvStep ==
  ASSUME MountInv, LogNamesSubject, [MountNext]_mountVars
  PROVE  MountInv' /\ LogNamesSubject'
<1>1. Serving /\ Phases /\ FdInv'
  BY MountStep DEF MountInv, Serving
<1>2. CASE UNCHANGED mountVars
  <2>1. /\ UNCHANGED <<kind, entry, fds, known, inodeMap, astray, effect, logged>>
        /\ Phases'
    BY <1>1, <1>2 DEF mountVars, fdVars, Phases
  <2>2. QED
    BY <1>1, <2>1, QuietlyMapped, NamesIs DEF MountInv, Serving
<1>3. CASE OpenDir \/ Mount \/ Fusermount
  <2>1. UNCHANGED <<kind, entry, fds, known, inodeMap, astray, effect, logged>>
    BY <1>3 DEF OpenDir, Mount, Fusermount, fdVars
  <2>2. Phases'
    BY <1>1, <1>3 DEF OpenDir, Mount, Fusermount, Phases, Serving, FdInv, BaseBelow
  <2>3. QED
    BY <1>1, <2>1, <2>2, QuietlyMapped, NamesIs DEF MountInv, Serving
<1>4. CASE Unmount \/ Interrupt \/ GivesUp
  <2>1. Ends
    BY <1>4 DEF Unmount, Interrupt, GivesUp
  <2>2. Phases'
    BY <2>1 DEF Ends, Phases
  <2>3. Mapped' /\ Names
    BY <1>1, <2>1, EndsMapped
  <2>4. QED
    BY <1>1, <2>2, <2>3, NamesIs DEF MountInv, Serving, Names
<1>5. CASE Mutation \/ Queries
  <2>1. Calm \/ Reenters
    BY <1>1, <1>5, MutationStep, QueryStep DEF Serving
  <2>2. Phases'
    BY <1>1, <2>1 DEF Phases, Calm, Reenters
  <2>3. Good
    BY <1>1, <1>5, MutationGood, QueryGood
  <2>4. QED
    BY <1>1, <2>2, <2>3, NamesIs DEF MountInv, Serving, Good, Names
<1>6. CASE Reply
  <2>1. /\ UNCHANGED <<kind, entry, fds, known, inodeMap, astray>> /\ logged' = <<>>
        /\ Phases'
    BY <1>1, <1>6 DEF Reply, LogEntries, Phases
  <2>2. Names
    BY <2>1, NothingTold
  <2>3. QED
    BY <1>1, <2>1, <2>2, QuietlyMapped, NamesIs DEF Names, MountInv, Serving
<1>7. QED
  BY <1>2, <1>3, <1>4, <1>5, <1>6 DEF MountNext, Main

LEMMA MountInvStarts ==
  ASSUME MountInit PROVE MountInv /\ LogNamesSubject
<1>1. /\ known = {Root} /\ inodeMap = [i \in Ino |-> IF i = Root THEN <<>> ELSE None]
      /\ fds = [d \in Fd |-> None] /\ astray = {} /\ effect = NoEffect
      /\ phase = "out" /\ base = None /\ waits = None
  BY DEF MountInit, FdInit, TreeInit
<1>2. WellFormed(kind, entry, {})
  <2>1. PICK t \in Trees : kind = t.kind /\ entry = t.entry
    BY DEF MountInit, FdInit, TreeInit
  <2>2. QED
    BY <2>1, TreeAssumption
<1>3. Opens = {}
  <2>1. \A d \in Fd : fds[d] = None
    BY <1>1
  <2>2. QED
    BY <2>1 DEF Opens, OpenInodes, OpenFds
<1>4. Mapped
  BY <1>1, <1>2, <1>3, FreshMap DEF Mapped
<1>5. Phases
  BY <1>1 DEF Phases
<1>6. effect.node = None
  BY <1>1 DEF NoEffect, Outcome, Reference!Outcome
<1>7. QED
  BY <1>4, <1>5, <1>6, MountStarts DEF MountInv, Serving, LogNamesSubject

\* The invariant of the whole mount, for every source tree, any number of inodes, names,
\* descriptors and handles, with an observer and without, and through any number of runs of
\* the program: the map agrees with the tree.
THEOREM MountInvariance == MountSpec => []MountInv
<1>1. MountInit => MountInv /\ LogNamesSubject
  BY MountInvStarts
<1>2. MountInv /\ LogNamesSubject /\ [MountNext]_mountVars => (MountInv /\ LogNamesSubject)'
  BY MountInvStep
<1>3. QED
  BY <1>1, <1>2, PTL DEF MountSpec

\* Type correctness.
THEOREM TypeInvariance == MountSpec => []TypeOK
<1>1. MountInv => TypeOK
  <2>1. ASSUME MountInv PROVE TypeOK
    <3>1. /\ openFiles \in
                [Fh -> [fd : Fd, node : Ino, flags : SUBSET {"write", "create"}] \cup {None}]
          /\ fds \in [Fd -> Ino \cup {None}] /\ nextFh \in Nat
      BY <2>1 DEF MountInv, Serving, FdInv, FdTyped, HandleRecord
    <3>2. WellFormed(kind, entry, Opens) /\ known \subseteq Ino /\ astray \subseteq Ino
      BY <2>1 DEF MountInv, Serving, Mapped, MapInv
    <3>3. \A i \in Ino : inodeMap[i] # None => inodeMap[i] \in Seq(Name)
      BY <2>1 DEF MountInv, Serving, Mapped, MapInv
    <3>4. QED
      BY <2>1, <3>1, <3>2, <3>3
         DEF TypeOK, WellFormed, MountInv, Serving, FdInv, BaseBelow, Phases
  <2>2. QED
    BY <2>1
<1>2. QED
  BY <1>1, MountInvariance, PTL

\* The path registered for an inode leads to it, unless it is astray: through the
\* descriptor-based handlers as through PassthroughFS.
THEOREM MapIsRight == MountSpec => []MapLeadsBack
<1>1. MountInv => MapLeadsBack
  <2>1. ASSUME MountInv, NEW i \in Ino \ astray, inodeMap[i] # None
        PROVE  WalkIn(kind, entry, inodeMap[i]) = i
    BY <2>1 DEF MountInv, Serving, Mapped, MapInv
  <2>2. QED
    BY <2>1, WalkIsWalkIn DEF MapLeadsBack
<1>2. QED
  BY <1>1, MountInvariance, PTL

\* The entries of the dump name the file that the handler changed, also when the handler
\* failed half way: the observer reads the map that the handler is about to use.
THEOREM EntriesAreNamed == MountSpec => []LogNamesSubject
<1>1. MountInit => MountInv /\ LogNamesSubject
  BY MountInvStarts
<1>2. MountInv /\ LogNamesSubject /\ [MountNext]_mountVars => (MountInv /\ LogNamesSubject)'
  BY MountInvStep
<1>3. QED
  BY <1>1, <1>2, PTL DEF MountSpec
----------------------------------------------------------------------------
(***************************************************************************)
(* The refinement.  Reference is PassthroughFS on the same tree and the    *)
(* same map, with the handles that AsHandles makes of the descriptors.     *)
(***************************************************************************)
LEMMA SameTree ==
    /\ \A p : Reference!Walk(p) = Walk(p)
    /\ \A i : (Reference!IsDir(i) <=> IsDir(i)) /\ (Reference!IsFile(i) <=> IsFile(i))
    /\ \A d, n : Reference!Child(d, n) = Child(d, n)
    /\ \A d : Reference!IsEmpty(d) <=> IsEmpty(d)
    /\ Reference!Fh = Fh
  BY DEF Reference!Walk, Walk, Reference!IsDir, IsDir, Reference!IsFile, IsFile,
     Reference!Child, Child, Reference!IsEmpty, IsEmpty, Reference!Fh, Fh

LEMMA SameRename ==
  ASSUME NEW r, NEW n, NEW s, NEW m, NEW to
  PROVE  Reference!CanRename(r, n, s, m, to) <=> CanRename(r, n, s, m, to)
  BY SameTree DEF Reference!CanRename, CanRename

LEMMA SameOutcome ==
    /\ Reference!NoEffect = NoEffect
    /\ \A op, node, dir : Reference!Did(op, node, dir) = Did(op, node, dir)
    /\ \A op, ok, asked, node, dir :
          Outcome(op, ok, asked, node, dir) =
             [op |-> op, ok |-> ok, asked |-> asked, node |-> node, dir |-> dir]
  BY DEF Reference!NoEffect, NoEffect, Outcome, Reference!Outcome, Reference!Did, Did

\* A handle seen through its descriptor.
LEMMA HandleSeen ==
  ASSUME FdInv, NEW f \in Fh
  PROVE  /\ (AsHandles[f] = None) <=> ~IsOpen(f)
         /\ IsOpen(f) => /\ AsHandles[f].node = openFiles[f].node
                         /\ AsHandles[f].file = FileOf(f)
                         /\ Writable(f) => AsHandles[f].write
                         /\ FileOf(f) \in Ino /\ openFiles[f].node \in Ino
<1>1. CASE IsOpen(f)
  <2> DEFINE w == Writable(f) \/ "create" \in openFiles[f].flags
  <2>1. AsHandles[f] = [node |-> openFiles[f].node, file |-> FileOf(f), write |-> w]
    BY <1>1 DEF AsHandles
  <2>2. openFiles[f] \in HandleRecord /\ FileOf(f) \in Ino
    BY <1>1 DEF FdInv, FdTyped, FdOwnership, OwnsDescriptor, IsOpen, FileOf, HandleRecord
  <2>3. openFiles[f].node \in Ino /\ w \in BOOLEAN
    BY <2>2 DEF HandleRecord, Writable
  <2>7. Writable(f) => w
    OBVIOUS
  <2> HIDE DEF w
  <2>4. AsHandles[f] \in [node : Ino, file : Ino, write : BOOLEAN]
    BY <2>1, <2>2, <2>3
  <2>5. AsHandles[f] # None
    BY <2>4, FdFsAssumption
  <2>6. QED
    BY <1>1, <2>1, <2>2, <2>3, <2>5, <2>7
<1>2. CASE ~IsOpen(f)
  BY <1>2 DEF AsHandles
<1>3. QED
  BY <1>1, <1>2

\* The files that handles hold are those that descriptors keep.
LEMMA SameFiles ==
  ASSUME FdInv
  PROVE  {AsHandles[f].file : f \in {g \in Fh : AsHandles[g] # None}} = OpenInodes(fds)
<1>1. ASSUME NEW f \in Fh, IsOpen(f) PROVE AsHandles[f].file \in OpenInodes(fds)
  <2>1. AsHandles[f].file = fds[openFiles[f].fd] /\ openFiles[f].fd \in Fd
    BY <1>1, HandleSeen DEF FileOf, FdInv, FdTyped, IsOpen, HandleRecord
  <2>2. fds[openFiles[f].fd] # None
    BY <1>1 DEF FdInv, FdOwnership, OwnsDescriptor
  <2>3. QED
    BY <2>1, <2>2 DEF OpenInodes, OpenFds
<1>2. ASSUME NEW d \in OpenFds(fds)
      PROVE  \E f \in Fh : IsOpen(f) /\ AsHandles[f].file = fds[d]
  <2>1. PICK f \in Fh : IsOpen(f) /\ openFiles[f].fd = d
    BY <1>2 DEF FdInv, FdOwnership
  <2>2. QED
    BY <2>1, HandleSeen DEF FileOf
<1>3. \A f \in Fh : AsHandles[f] # None <=> IsOpen(f)
  BY HandleSeen
<1>4. QED
  BY <1>1, <1>2, <1>3 DEF OpenInodes

LEMMA NextSameFiles ==
    FdInv' => {AsHandles'[f].file : f \in {g \in Fh : AsHandles'[g] # None}} = OpenInodes(fds')
<1>1. FdInv => {AsHandles[f].file : f \in {g \in Fh : AsHandles[g] # None}} = OpenInodes(fds)
  BY SameFiles
<1>2. (FdInv =>
         {AsHandles[f].file : f \in {g \in Fh : AsHandles[g] # None}} = OpenInodes(fds))'
  BY <1>1, PTL
<1>3. QED
  BY <1>2 DEF OpenInodes, OpenFds

LEMMA BecomesSeen ==
  ASSUME FdInv', NEW k, NEW e, NEW t, NEW h, NEW seen, Becomes(k, e, t, seen), AsHandles' = h
  PROVE  Reference!Becomes(k, e, h, seen)
<1>1. TreeBecomes(k, e, OpenInodes(fds'), seen)
  BY DEF Becomes
<1>2. {h[f].file : f \in {g \in Fh : h[g] # None}} = OpenInodes(fds')
  BY NextSameFiles
<1>3. QED
  BY <1>1, <1>2, SameTree
  DEF Reference!Becomes, TreeBecomes, Reference!TreeBecomes, Live, Reference!Live

\* The three things that a handler does to the table of handles.
LEMMA HandlesKept ==
  ASSUME UNCHANGED <<openFiles, fds>>
  PROVE  AsHandles' = AsHandles
  BY DEF AsHandles, IsOpen, FileOf, Writable

LEMMA HandlesOpened ==
  ASSUME FdInv, nextFh \in Fh, FreeFds(fds) # {}, NEW i \in Ino, fds' = OpenedOn(fds, i),
         NEW j \in Ino, NEW how \in SUBSET {"write", "create"}, Handle(j, how),
         NEW w, w = ("write" \in how \/ "create" \in how)
  PROVE  AsHandles' = [AsHandles EXCEPT ![nextFh] = [node |-> j, file |-> i, write |-> w]]
<1> DEFINE c == NewFd(fds)
           x == [fd |-> c, node |-> j, flags |-> how]
<1>1. c \in Fd /\ fds[c] = None
  BY NewFdIsFree
<1>2. /\ openFiles' = [openFiles EXCEPT ![nextFh] = x]
      /\ fds' = [fds EXCEPT ![c] = i]
  BY DEF Handle, OpenedOn
<1>3. /\ fds \in [Fd -> Ino \cup {None}] /\ openFiles \in [Fh -> HandleRecord \cup {None}]
      /\ ~IsOpen(nextFh)
  BY DEF FdInv, FdTyped, Unused, Fh
<1>4. ASSUME NEW f \in Fh, IsOpen(f) PROVE openFiles[f].fd \in Fd /\ openFiles[f].fd # c
  BY <1>1, <1>3, <1>4 DEF FdInv, FdOwnership, OwnsDescriptor, IsOpen, HandleRecord
<1>5. x # None
  <2>1. x \in [fd : Fd, node : Ino, flags : SUBSET {"write", "create"}]
    BY <1>1
  <2>2. QED
    BY <2>1, FdFsAssumption
<1>6. x.fd = c /\ x.node = j /\ x.flags = how
  OBVIOUS
<1> HIDE DEF x, c
<1> DEFINE seen(f) == [node |-> openFiles[f].node, file |-> FileOf(f),
                       write |-> Writable(f) \/ "create" \in openFiles[f].flags]
           new == [node |-> j, file |-> i, write |-> w]
           h == [AsHandles EXCEPT ![nextFh] = new]
<1>7. AsHandles' = [f \in Fh |-> IF IsOpen(f)' THEN seen(f)' ELSE None]
  BY DEF AsHandles
<1>8. h = [f \in Fh |-> IF f = nextFh THEN new ELSE IF IsOpen(f) THEN seen(f) ELSE None]
  BY DEF AsHandles
<1>9. ASSUME NEW f \in Fh
      PROVE  (IF IsOpen(f)' THEN seen(f)' ELSE None)
                = IF f = nextFh THEN new ELSE IF IsOpen(f) THEN seen(f) ELSE None
  <2>1. CASE f = nextFh
    <3>1. openFiles'[f] = x
      BY <1>2, <1>3, <2>1
    <3>2. fds'[c] = i
      BY <1>1, <1>2, <1>3
    <3>3. IsOpen(f)' /\ seen(f)' = new
      BY <1>5, <1>6, <3>1, <3>2 DEF IsOpen, FileOf, Writable
    <3>4. QED
      BY <2>1, <3>3
  <2>2. CASE f # nextFh
    <3>1. openFiles'[f] = openFiles[f]
      BY <1>2, <1>3, <2>2
    <3>2. IsOpen(f) => fds'[openFiles[f].fd] = fds[openFiles[f].fd]
      BY <1>1, <1>2, <1>3, <1>4
    <3>3. (IsOpen(f)' <=> IsOpen(f)) /\ (IsOpen(f) => seen(f)' = seen(f))
      BY <3>1, <3>2 DEF IsOpen, FileOf, Writable
    <3>4. QED
      BY <2>2, <3>3
  <2>3. QED
    BY <2>1, <2>2
<1>10. QED
  <2> HIDE DEF seen, new
  <2>1. AsHandles' = h
    BY <1>7, <1>8, <1>9
  <2>2. QED
    BY <2>1 DEF new

LEMMA HandlesClosed ==
  ASSUME FdInv, NEW f \in Fh, IsOpen(f), fds' = Closed(fds, openFiles[f].fd),
         openFiles' = [openFiles EXCEPT ![f] = None]
  PROVE  AsHandles' = [AsHandles EXCEPT ![f] = None]
<1> DEFINE c == openFiles[f].fd
           seen(g) == [node |-> openFiles[g].node, file |-> FileOf(g),
                       write |-> Writable(g) \/ "create" \in openFiles[g].flags]
           h == [AsHandles EXCEPT ![f] = None]
<1>1. /\ fds \in [Fd -> Ino \cup {None}] /\ openFiles \in [Fh -> HandleRecord \cup {None}]
      /\ fds' = [fds EXCEPT ![c] = None]
  BY DEF FdInv, FdTyped, Closed
<1>2. ASSUME NEW g \in Fh, IsOpen(g), g # f
      PROVE  openFiles[g].fd \in Fd /\ openFiles[g].fd # c
  BY <1>1, <1>2 DEF FdInv, FdOwnership, NotShared, IsOpen, HandleRecord
<1> HIDE DEF c
<1>3. AsHandles' = [g \in Fh |-> IF IsOpen(g)' THEN seen(g)' ELSE None]
  BY DEF AsHandles
<1>4. h = [g \in Fh |-> IF g = f THEN None ELSE IF IsOpen(g) THEN seen(g) ELSE None]
  BY DEF AsHandles
<1>5. ASSUME NEW g \in Fh
      PROVE  (IF IsOpen(g)' THEN seen(g)' ELSE None)
                = IF g = f THEN None ELSE IF IsOpen(g) THEN seen(g) ELSE None
  <2>1. CASE g = f
    BY <1>1, <2>1 DEF IsOpen
  <2>2. CASE g # f
    <3>1. openFiles'[g] = openFiles[g]
      BY <1>1, <2>2
    <3>2. IsOpen(g) => fds'[openFiles[g].fd] = fds[openFiles[g].fd]
      BY <1>1, <1>2, <2>2
    <3>3. (IsOpen(g)' <=> IsOpen(g)) /\ (IsOpen(g) => seen(g)' = seen(g))
      BY <3>1, <3>2 DEF IsOpen, FileOf, Writable
    <3>4. QED
      BY <2>2, <3>3
  <2>3. QED
    BY <2>1, <2>2
<1>6. QED
  <2> HIDE DEF seen
  <2>1. QED
    BY <1>3, <1>4, <1>5

\* A tree that nothing changes stays, its files and the kernel's dentries included.
LEMMA TreeKept ==
  ASSUME Serving, Becomes(kind, entry, fds, {})
  PROVE  UNCHANGED <<kind, entry, known, fds>>
<1>1. /\ fds' = fds /\ entry' = entry /\ kind' = Remaining(kind, entry, Opens')
      /\ known' = (known \cup {}) \cap Live(entry, Opens')
  BY BecomesTree
<1>2. Opens' = Opens
  BY <1>1 DEF Opens
<1>3. /\ kind \in [Ino -> {"free", "file", "dir"}]
      /\ \A i \in Ino : kind[i] = "free" <=> i \notin Live(entry, Opens)
      /\ known \subseteq {i \in Ino : kind[i] # "free"}
  BY ServingFacts DEF WellFormed
<1>4. Remaining(kind, entry, Opens) = kind
  BY <1>3 DEF Remaining
<1>5. known \cap Live(entry, Opens) = known
  BY <1>3
<1>6. QED
  BY <1>1, <1>2, <1>4, <1>5
----------------------------------------------------------------------------
\* Both go by the same paths, and find the same behind them.
LEMMA SamePaths ==
  ASSUME Serving, NEW i \in Ino
  PROVE  /\ Reference!PathOf(i) = inodeMap[i]
         /\ Reference!ParentDir(i) = AtPath(i)
         /\ inodeMap[i] # None =>
               /\ Reference!Walk(inodeMap[i]) = Stat(inodeMap[i])
               /\ \A n \in Name :
                     Reference!Walk(Append(inodeMap[i], n)) = Stat(Append(inodeMap[i], n))
<1>1. Reference!PathOf(i) = inodeMap[i]
  BY DEF Reference!PathOf, Serving, Mapped, MapInv
<1>2. ASSUME NEW p \in Seq(Name) PROVE Reference!Walk(p) = Stat(p)
  BY ServingFacts, SameTree, WalkIsWalkIn
<1>3. ASSUME inodeMap[i] # None, NEW n \in Name
      PROVE  inodeMap[i] \in Seq(Name) /\ Append(inodeMap[i], n) \in Seq(Name)
  BY <1>3, ServingFacts, AppendProperties
<1>4. inodeMap[i] # None => inodeMap[i] \in Seq(Name)
  BY ServingFacts
<1>5. Reference!ParentDir(i) = AtPath(i)
  BY <1>1, <1>2, <1>4 DEF Reference!ParentDir, AtPath
<1>6. QED
  BY <1>1, <1>2, <1>3, <1>4, <1>5

LEMMA FailSame ==
  ASSUME NEW op, Fail(op)
  PROVE  Reference!Step
<1>1. effect' = Reference!Failed(op) /\ effect'.op = op
  BY DEF Fail, Outcome, Reference!Outcome, Reference!Failed
<1>2. AsHandles' = AsHandles
  BY HandlesKept DEF Fail
<1>3. Reference!Fail(op)
  BY <1>1, <1>2 DEF Fail, Reference!Fail
<1>4. QED
  BY <1>1, <1>3 DEF Reference!Step

LEMMA LookupSame ==
  ASSUME Serving, NEW d \in Ino, KnownDir(d), NEW n \in Name, Lookup(d, n)
  PROVE  Reference!Step
<1> DEFINE path == Append(inodeMap[d], n)
<1>1. /\ inodeMap[d] # None /\ Stat(path) # None
      /\ inodeMap' = [inodeMap EXCEPT ![Stat(path)] = path]
      /\ known' = known \cup {Stat(path)} /\ astray' = astray \ {Stat(path)}
      /\ effect' = NoEffect /\ UNCHANGED <<kind, entry, fds, openFiles, nextFh>>
  BY DEF Lookup
<1>2. Reference!PathOf(d) = inodeMap[d] /\ Reference!Walk(path) = Stat(path)
  BY <1>1, SamePaths
<1>3. AsHandles' = AsHandles
  BY <1>1, HandlesKept
<1>4. d \in known /\ Reference!IsDir(d) /\ effect' = Reference!NoEffect
  BY <1>1, SameTree, SameOutcome DEF KnownDir
<1>5. Reference!Lookup(d, n)
  BY <1>1, <1>2, <1>3, <1>4 DEF Reference!Lookup
<1>6. QED
  BY <1>4, <1>5 DEF Reference!Step

LEMMA ReaddirSame ==
  ASSUME Serving, NEW d \in Ino, KnownDir(d), Readdir(d)
  PROVE  Reference!Step
<1> DEFINE path == inodeMap[d]
           dir == Stat(path)
           children == {i \in Ino : \E n \in Name : entry[dir][n] = i}
           listed == {Reference!Child(Reference!Walk(Reference!PathOf(d)), n) : n \in Name}
                     \ {None}
<1>1. /\ path # None /\ IsDir(dir)
      /\ \E nameOf \in [children -> Name] :
            /\ \A i \in children : entry[dir][nameOf[i]] = i
            /\ inodeMap' = [i \in Ino |-> IF i \in children THEN Append(path, nameOf[i])
                                          ELSE inodeMap[i]]
      /\ astray' = astray \ children
      /\ effect' = NoEffect /\ UNCHANGED <<kind, entry, known, fds, openFiles, nextFh>>
  BY DEF Readdir, CanReaddir
<1>2. Reference!PathOf(d) = path /\ Reference!Walk(path) = dir
  BY <1>1, SamePaths
<1>3. \A n : Reference!Child(dir, n) = entry[dir][n]
  BY <1>1, SameTree DEF Child
<1>4. listed = children
  <2>1. \A n \in Name : entry[dir][n] \in Ino \cup {None}
    BY <1>1, ServingFacts DEF IsDir
  <2>2. QED
    BY <1>2, <1>3, <2>1, TreeAssumption
<1>5. AsHandles' = AsHandles
  BY <1>1, HandlesKept
<1>6. d \in known /\ Reference!IsDir(d) /\ effect' = Reference!NoEffect /\ Reference!IsDir(dir)
  BY <1>1, SameTree, SameOutcome DEF KnownDir
<1> HIDE DEF path, dir, children
<1>7. \E nameOf \in [children -> Name] :
         /\ \A i \in children : Reference!Child(dir, nameOf[i]) = i
         /\ inodeMap' = [i \in Ino |-> IF i \in children THEN Append(path, nameOf[i])
                                       ELSE inodeMap[i]]
  BY <1>1, <1>3
<1>8. Reference!Readdir(d)
  <2> HIDE DEF listed
  <2>1. /\ \E nameOf \in [listed -> Name] :
             /\ \A i \in listed : Reference!Child(Reference!Walk(Reference!PathOf(d)), nameOf[i]) = i
             /\ inodeMap' = [i \in Ino |-> IF i \in listed
                                           THEN Append(Reference!PathOf(d), nameOf[i])
                                           ELSE inodeMap[i]]
        /\ astray' = astray \ listed
    BY <1>1, <1>2, <1>4, <1>7
  <2>2. /\ d \in known /\ Reference!IsDir(d) /\ Reference!PathOf(d) # None
        /\ Reference!IsDir(Reference!Walk(Reference!PathOf(d)))
        /\ effect' = Reference!NoEffect
        /\ UNCHANGED <<kind, entry, nextFh, known>> /\ AsHandles' = AsHandles
    BY <1>1, <1>2, <1>5, <1>6
  <2>3. QED
    BY <2>1, <2>2 DEF Reference!Readdir, listed
<1>9. QED
  BY <1>6, <1>8 DEF Reference!Step

LEMMA OpenSame ==
  ASSUME Serving, FdInv', NEW i \in Ino, KnownFile(i), NEW w \in BOOLEAN, Open(i, w)
  PROVE  Reference!Step
<1> DEFINE file == Stat(inodeMap[i])
           h == [AsHandles EXCEPT ![nextFh] = [node |-> i, file |-> file, write |-> w]]
           how == IF w THEN {"write"} ELSE {}
<1>1. /\ nextFh \in Fh /\ ~(ReadOnly /\ w) /\ inodeMap[i] # None
      /\ IsFile(file) /\ FreeFds(fds) # {}
      /\ Becomes(kind, entry, OpenedOn(fds, file), {}) /\ Handle(i, how)
      /\ effect' = NoEffect /\ UNCHANGED <<inodeMap, astray>>
  BY DEF Open, CanOpen
<1>2. Reference!PathOf(i) = inodeMap[i] /\ Reference!Walk(inodeMap[i]) = file
  BY <1>1, SamePaths
<1> HIDE DEF file
<1>3. AsHandles' = h
  <2>1. fds' = OpenedOn(fds, file) /\ file \in Ino
    BY <1>1 DEF Becomes, IsFile
  <2>2. how \in SUBSET {"write", "create"} /\ w = ("write" \in how \/ "create" \in how)
    OBVIOUS
  <2> HIDE DEF how
  <2>3. QED
    BY <1>1, <2>1, <2>2, HandlesOpened DEF Serving
<1>4. Reference!Becomes(kind, entry, h, {})
  <2> HIDE DEF h
  <2>1. QED
    BY <1>1, <1>3, BecomesSeen
<1>5. /\ i \in known /\ Reference!IsFile(i) /\ Reference!IsFile(file)
      /\ effect' = Reference!NoEffect /\ nextFh' = nextFh + 1 /\ nextFh \in Reference!Fh
  BY <1>1, SameTree, SameOutcome DEF KnownFile, Handle
<1>6. Reference!Open(i, w)
  BY <1>1, <1>2, <1>4, <1>5 DEF Reference!Open
<1>7. QED
  BY <1>5, <1>6 DEF Reference!Step

LEMMA ReleaseSame ==
  ASSUME Serving, FdInv', NEW f \in Fh, Release(f)
  PROVE  Reference!Step
<1> DEFINE h == [AsHandles EXCEPT ![f] = None]
<1>1. /\ IsOpen(f) /\ openFiles' = [openFiles EXCEPT ![f] = None]
      /\ Becomes(kind, entry, Closed(fds, openFiles[f].fd), {})
      /\ effect' = NoEffect /\ UNCHANGED <<inodeMap, nextFh, astray>>
  BY DEF Release
<1>2. AsHandles' = h
  <2>1. fds' = Closed(fds, openFiles[f].fd)
    BY <1>1 DEF Becomes
  <2>2. QED
    BY <1>1, <2>1, HandlesClosed DEF Serving
<1>3. Reference!Becomes(kind, entry, h, {})
  <2> HIDE DEF h
  <2>1. QED
    BY <1>1, <1>2, BecomesSeen
<1>4. AsHandles[f] # None /\ effect' = Reference!NoEffect /\ f \in Reference!Fh
  BY <1>1, HandleSeen, SameOutcome, SameTree DEF Serving
<1>5. Reference!Release(f)
  BY <1>1, <1>3, <1>4 DEF Reference!Release
<1>6. QED
  BY <1>4, <1>5 DEF Reference!Step

\* Mutations.  The kernel writes through handles that are open.
LEMMA WriteSame ==
  ASSUME Serving, NEW f \in Fh, IsOpen(f), Write(f)
  PROVE  Reference!Step
<1>1. CASE Fail("write")
  BY <1>1, FailSame
<1>2. CASE ~Fail("write")
  <2>1. /\ ~ReadOnly /\ effect' = Outcome("write", TRUE, openFiles[f].node, FileOf(f), None)
        /\ UNCHANGED <<kind, entry, known, fds, inodeMap, openFiles, nextFh, astray>>
    BY <1>2 DEF Write
  <2>2. /\ AsHandles[f] # None /\ AsHandles[f].node = openFiles[f].node
        /\ AsHandles[f].file = FileOf(f)
    BY HandleSeen DEF Serving
  <2>3. effect' = Reference!Outcome("write", TRUE, AsHandles[f].node, AsHandles[f].file, None)
    BY <2>1, <2>2 DEF Outcome
  <2>4. AsHandles' = AsHandles
    BY <2>1, HandlesKept
  <2>5. Reference!Write(f)
    BY <2>1, <2>2, <2>3, <2>4 DEF Reference!Write
  <2>6. effect'.op = "write" /\ f \in Reference!Fh
    BY <2>1, SameOutcome, SameTree
  <2>7. QED
    BY <2>5, <2>6 DEF Reference!Step
<1>3. QED
  BY <1>1, <1>2

\* A handle that comes with a size is open for writing, so that both cut what it holds;
\* without one both cut the file at the path.
LEMMA TruncateSame ==
  ASSUME Serving, NEW i \in Ino, NEW f \in Fh \cup {None}, Truncate(i, f),
         f # None => IsOpen(f) /\ openFiles[f].node = i /\ Writable(f)
  PROVE  Reference!Step
<1> DEFINE cut == IF f # None THEN FileOf(f) ELSE AtPath(i)
           table == IF f # None THEN fds ELSE Closed(OpenedOn(fds, cut), NewFd(fds))
           asked == IF f # None THEN i ELSE cut
<1>1. CASE Fail("truncate")
  BY <1>1, FailSame
<1>2. CASE ~Fail("truncate")
  <2>1. (f # None /\ IsOpen(f)) <=> f # None
    OBVIOUS
  <2>2. /\ ~ReadOnly /\ inodeMap[i] # None
        /\ f = None => CanOpen(inodeMap[i])
        /\ Becomes(kind, entry, table, {})
        /\ \E ok \in {AtPath(i) # None, FALSE} :
              effect' = Outcome("truncate", ok, asked, cut, None)
        /\ UNCHANGED <<inodeMap, openFiles, nextFh, astray>>
    BY <1>2, <2>1 DEF Truncate
  <2>3. Reference!PathOf(i) # None /\ Reference!Walk(Reference!PathOf(i)) = AtPath(i)
    BY <2>2, SamePaths DEF AtPath
  <2>4. f = None => Reference!IsFile(AtPath(i)) /\ FreeFds(fds) # {}
    BY <2>2, SameTree DEF CanOpen, AtPath
  <2>5. table = fds
    BY <2>4, OpenedAndClosed DEF Serving, FdInv
  <2> HIDE DEF table
  <2>6. UNCHANGED <<kind, entry, known, fds>> /\ AsHandles' = AsHandles
    <3>1. UNCHANGED <<kind, entry, known, fds>>
      BY <2>2, <2>5, TreeKept
    <3>2. QED
      BY <2>2, <3>1, HandlesKept
  <2>7. f # None => AsHandles[f] # None /\ AsHandles[f].write /\ AsHandles[f].file = FileOf(f)
    <3>1. ASSUME f # None
          PROVE  AsHandles[f] # None /\ AsHandles[f].write /\ AsHandles[f].file = FileOf(f)
      <4>1. f \in Fh /\ IsOpen(f) /\ Writable(f)
        BY <3>1
      <4>2. QED
        BY <4>1, HandleSeen DEF Serving
    <3>2. QED
      BY <3>1
  <2>8. PICK ok \in {AtPath(i) # None, FALSE} :
           effect' = Outcome("truncate", ok, asked, cut, None)
    BY <2>2
  <2>9. effect'.op = "truncate"
    <3> HIDE DEF asked, cut
    <3>1. QED
      BY <2>8, SameOutcome
  <2>10. Reference!Truncate(i, f)
    <3> DEFINE there == IF Reference!PathOf(i) = None THEN None
                        ELSE Reference!Walk(Reference!PathOf(i))
    <3>1. there = AtPath(i)
      BY <2>3
    <3> HIDE DEF there
    <3>2. CASE f # None
      <4>1. effect' = Reference!Outcome("truncate", ok, i, AsHandles[f].file, None)
        BY <2>7, <2>8, <3>2 DEF Outcome
      <4>2. ok \in {there # None, FALSE}
        BY <3>1
      <4>3. QED
        BY <2>2, <2>3, <2>6, <2>7, <3>1, <3>2, <4>1, <4>2 DEF Reference!Truncate, there
    <3>3. CASE f = None
      <4>1. effect' = Reference!Outcome("truncate", ok, there, there, None)
        BY <2>8, <3>1, <3>3 DEF Outcome
      <4>2. ok \in {there # None, FALSE}
        BY <3>1
      <4>3. Reference!IsFile(there)
        BY <2>4, <3>1, <3>3
      <4>4. QED
        BY <2>2, <2>3, <2>6, <3>3, <4>1, <4>2, <4>3 DEF Reference!Truncate, there
    <3>4. QED
      BY <3>2, <3>3
  <2>11. QED
    BY <2>9, <2>10, SameTree DEF Reference!Step
<1>3. QED
  BY <1>1, <1>2

LEMMA ChattrSame ==
  ASSUME Serving, NEW i \in Ino, NEW op \in {"chattr", "chown"}, Chattr(i, op)
  PROVE  Reference!Step
<1>1. CASE Fail(op)
  BY <1>1, FailSame
<1>2. CASE ~Fail(op)
  <2>1. /\ ~ReadOnly /\ AtPath(i) # None
        /\ \E ok \in BOOLEAN : effect' = Outcome(op, ok, AtPath(i), AtPath(i), None)
        /\ UNCHANGED <<kind, entry, known, fds, inodeMap, openFiles, nextFh, astray>>
    BY <1>2 DEF Chattr
  <2>2. /\ Reference!PathOf(i) # None
        /\ Reference!Walk(Reference!PathOf(i)) = AtPath(i)
    BY <2>1, SamePaths DEF AtPath
  <2>3. AsHandles' = AsHandles
    BY <2>1, HandlesKept
  <2>4. /\ \E ok \in BOOLEAN :
             effect' = Reference!Outcome(op, ok, AtPath(i), AtPath(i), None)
        /\ effect'.op = op
    BY <2>1 DEF Outcome, Reference!Outcome
  <2>5. Reference!Chattr(i, op)
    BY <2>1, <2>2, <2>3, <2>4 DEF Reference!Chattr
  <2>6. QED
    BY <2>4, <2>5 DEF Reference!Step
<1>3. QED
  BY <1>1, <1>2

\* create, where there is no entry of that name: both make it.
LEMMA CreateMadeSame ==
  ASSUME Serving, FdInv', NEW d \in Ino, NEW n \in Name, NEW i \in Ino, NEW flags,
         ~ReadOnly, IsDir(AtPath(d)), Child(AtPath(d), n) = None, kind[i] = "free",
         FreeFds(fds) # {}, nextFh \in Fh,
         CreateMade(i, AtPath(d), n, Append(inodeMap[d], n), flags)
  PROVE  Reference!Step
<1> DEFINE r == AtPath(d)
           k == [kind EXCEPT ![i] = "file"]
           e == [entry EXCEPT ![r][n] = i]
           how == {"create"} \cup (flags \cap {"write"})
<1>1. inodeMap[d] # None
  BY TreeAssumption DEF AtPath, IsDir
<1>2. /\ Reference!PathOf(d) = inodeMap[d] /\ Reference!ParentDir(d) = r
      /\ Reference!IsDir(r) /\ Reference!Child(r, n) = None /\ nextFh \in Reference!Fh
  BY SamePaths, SameTree
<1>3. \/ /\ Becomes(k, e, OpenedOn(fds, i), {i})
         /\ inodeMap' = [inodeMap EXCEPT ![i] = Append(inodeMap[d], n)]
         /\ Handle(i, how)
         /\ astray' = astray \ {i}
         /\ effect' = Did("create", i, r)
      \/ /\ Becomes(k, e, Closed(OpenedOn(fds, i), NewFd(fds)), {})
         /\ effect' = Outcome("create", FALSE, i, i, r)
         /\ UNCHANGED <<inodeMap, openFiles, nextFh, astray>>
  BY DEF CreateMade
<1> HIDE DEF r
<1>4. effect'.op = "create"
  <2>1. effect' = Did("create", i, r) \/ effect' = Outcome("create", FALSE, i, i, r)
    BY <1>3
  <2>2. QED
    BY <2>1 DEF Did, Outcome, Reference!Outcome
<1>5. CASE /\ Becomes(k, e, OpenedOn(fds, i), {i})
           /\ inodeMap' = [inodeMap EXCEPT ![i] = Append(inodeMap[d], n)]
           /\ Handle(i, how)
           /\ astray' = astray \ {i}
           /\ effect' = Did("create", i, r)
  <2> DEFINE h == [AsHandles EXCEPT ![nextFh] = [node |-> i, file |-> i, write |-> TRUE]]
  <2>1. AsHandles' = h
    <3>1. fds' = OpenedOn(fds, i)
      BY <1>5 DEF Becomes
    <3>2. how \in SUBSET {"write", "create"} /\ TRUE = ("write" \in how \/ "create" \in how)
      OBVIOUS
    <3> HIDE DEF how
    <3>3. QED
      BY <1>5, <3>1, <3>2, HandlesOpened DEF Serving
  <2>2. Reference!Becomes(k, e, h, {i})
    <3> HIDE DEF h, k, e
    <3>1. QED
      BY <1>5, <2>1, BecomesSeen
  <2>3. Reference!Makes("create", "file", r, d, n, i)
    BY <1>2, <1>5, SameOutcome DEF Reference!Makes
  <2>4. nextFh' = nextFh + 1
    BY <1>5 DEF Handle
  <2>5. Reference!Create(d, n)
    BY <1>2, <2>2, <2>3, <2>4 DEF Reference!Create
  <2>6. QED
    BY <1>4, <2>5 DEF Reference!Step
<1>6. CASE /\ Becomes(k, e, Closed(OpenedOn(fds, i), NewFd(fds)), {})
           /\ effect' = Outcome("create", FALSE, i, i, r)
           /\ UNCHANGED <<inodeMap, openFiles, nextFh, astray>>
  <2>1. AsHandles' = AsHandles
    <3>1. fds' = Closed(OpenedOn(fds, i), NewFd(fds))
      BY <1>6 DEF Becomes
    <3>2. fds' = fds
      BY <3>1, OpenedAndClosed DEF Serving, FdInv
    <3>3. QED
      BY <1>6, <3>2, HandlesKept
  <2>2. Reference!Becomes(k, e, AsHandles, {})
    <3> HIDE DEF k, e
    <3>1. QED
      BY <1>6, <2>1, BecomesSeen
  <2>3. Reference!MakesUnseen("create", i, r)
    BY <1>6 DEF Reference!MakesUnseen, Outcome
  <2>4. Reference!Create(d, n)
    BY <1>2, <2>2, <2>3 DEF Reference!Create
  <2>5. QED
    BY <1>4, <2>4 DEF Reference!Step
<1>7. QED
  BY <1>3, <1>5, <1>6

\* create, where openat finds a file although the kernel knows of no entry of that name: the
\* directory at the path of d is not d.
LEMMA CreateFound ==
  ASSUME Serving, NEW d \in Ino, NEW n \in Name, NEW i \in Ino, NEW flags,
         entry[d][n] = None, IsDir(AtPath(d)), i = Child(AtPath(d), n), IsFile(i),
         FreeFds(fds) # {}, CreateMade(i, AtPath(d), n, Append(inodeMap[d], n), flags)
  PROVE  OpensFound \/ Fail("create")
<1> DEFINE r == AtPath(d)
<1>1. kind[i] = "file" /\ i # None /\ Child(r, n) = i
  BY TreeAssumption DEF IsFile
<1>2. d \in astray
  <2>1. inodeMap[d] # None
    BY TreeAssumption DEF AtPath, IsDir
  <2>2. r # d
    BY <1>1 DEF Child
  <2>3. QED
    BY <2>1, <2>2, ServingFacts
<1>3. \/ /\ Becomes(kind, entry, OpenedOn(fds, i), {i})
         /\ effect' = Did("create", i, r)
      \/ /\ Becomes(kind, entry, Closed(OpenedOn(fds, i), NewFd(fds)), {})
         /\ \/ effect' = Outcome("create", FALSE, i, i, r)
            \/ effect' = Outcome("create", FALSE, None, None, None)
         /\ UNCHANGED <<inodeMap, openFiles, nextFh, astray>>
  BY <1>1 DEF CreateMade
<1> HIDE DEF r
<1>4. CASE /\ Becomes(kind, entry, OpenedOn(fds, i), {i})
           /\ effect' = Did("create", i, r)
  <2>1. /\ entry' = entry /\ kind' = Remaining(kind, entry, Opens')
        /\ Opens' = Opens \cup {i}
    BY <1>4, BecomesTree, OpensAfterOpening DEF Serving, FdInv
  <2>2. kind' = kind
    <3>1. /\ kind \in [Ino -> {"free", "file", "dir"}]
          /\ \A x \in Ino : kind[x] = "free" <=> x \notin Live(entry, Opens)
      BY ServingFacts DEF WellFormed
    <3>2. \A x \in Ino : x \in Live(entry, Opens') <=> x \in Live(entry, Opens)
      BY <1>1, <2>1, <3>1 DEF Live
    <3>3. QED
      BY <2>1, <3>1, <3>2 DEF Remaining
  <2>3. effect'.op = "create" /\ effect'.node = i /\ effect'.dir = r
    BY <1>4 DEF Did, Outcome, Reference!Outcome
  <2>4. AtPath(d) = r
    BY DEF r
  <2>5. QED
    BY <1>1, <1>2, <2>1, <2>2, <2>3, <2>4 DEF OpensFound
<1>5. CASE /\ Becomes(kind, entry, Closed(OpenedOn(fds, i), NewFd(fds)), {})
           /\ \/ effect' = Outcome("create", FALSE, i, i, r)
              \/ effect' = Outcome("create", FALSE, None, None, None)
           /\ UNCHANGED <<inodeMap, openFiles, nextFh, astray>>
  <2>1. UNCHANGED <<kind, entry, known, fds>>
    <3>1. Closed(OpenedOn(fds, i), NewFd(fds)) = fds
      BY OpenedAndClosed DEF Serving, FdInv
    <3>2. QED
      BY <1>5, <3>1, TreeKept
  <2>2. CASE effect' = Outcome("create", FALSE, i, i, r)
    <3>1. effect'.op = "create" /\ effect'.node = i /\ effect'.dir = r
      BY <2>2 DEF Outcome, Reference!Outcome
    <3>2. AtPath(d) = r
      BY DEF r
    <3>3. QED
      BY <1>1, <1>2, <2>1, <3>1, <3>2 DEF OpensFound
  <2>3. CASE effect' = Outcome("create", FALSE, None, None, None)
    BY <1>5, <2>1, <2>3 DEF Fail
  <2>4. QED
    BY <1>5, <2>2, <2>3
<1>6. QED
  BY <1>3, <1>4, <1>5

LEMMA CreateSame ==
  ASSUME Serving, FdInv', NEW d \in Ino, NEW n \in Name, NEW flags, entry[d][n] = None,
         Create(d, n, flags)
  PROVE  Reference!Step \/ OpensFound
<1> DEFINE r == AtPath(d)
           c == Child(r, n)
<1>1. CASE Fail("create")
  BY <1>1, FailSame
<1>2. CASE ~Fail("create")
  <2>1. ~ReadOnly /\ IsDir(r) /\ FreeFds(fds) # {} /\ ~IsDir(c) /\ nextFh \in Fh
    BY <1>2 DEF Create
  <2>2. PICK i \in Ino :
          /\ IF IsFile(c) THEN i = c ELSE kind[i] = "free"
          /\ CreateMade(i, r, n, Append(inodeMap[d], n), flags)
    BY <1>2 DEF Create
  <2>3. r = AtPath(d) /\ c = Child(r, n)
    OBVIOUS
  <2> HIDE DEF r, c
  <2>4. CASE IsFile(c)
    <3>1. OpensFound \/ Fail("create")
      BY <2>1, <2>2, <2>3, <2>4, CreateFound
    <3>2. QED
      BY <3>1, FailSame
  <2>5. CASE ~IsFile(c)
    <3>1. c = entry[r][n] /\ r \in Ino
      BY <2>1, <2>3 DEF Child, IsDir
    <3>2. c \in Ino => kind[c] # "free"
      BY <3>1, ServingFacts DEF WellFormed, Live
    <3>3. c = None
      BY <2>1, <2>5, <3>1, <3>2, ServingFacts DEF IsDir, IsFile
    <3>4. QED
      BY <2>1, <2>2, <2>3, <2>5, <3>3, CreateMadeSame
  <2>6. QED
    BY <2>4, <2>5
<1>3. QED
  BY <1>1, <1>2

LEMMA MkdirSame ==
  ASSUME Serving, FdInv', NEW d \in Ino, NEW n \in Name, Mkdir(d, n)
  PROVE  Reference!Step
<1> DEFINE r == AtPath(d)
           e(i) == [entry EXCEPT ![r][n] = i]
           k(i) == [kind EXCEPT ![i] = "dir"]
<1>1. CASE Fail("mkdir")
  BY <1>1, FailSame
<1>2. CASE ~Fail("mkdir")
  <2>1. ~ReadOnly /\ IsDir(r) /\ Child(r, n) = None
    BY <1>2 DEF Mkdir
  <2>2. PICK i \in Ino :
          /\ kind[i] = "free"
          /\ \/ /\ Becomes(k(i), e(i), fds, {i})
                /\ inodeMap' = [inodeMap EXCEPT ![i] = Append(inodeMap[d], n)]
                /\ astray' = astray \ {i}
                /\ effect' = Did("mkdir", i, r)
             \/ /\ Becomes(k(i), e(i), fds, {})
                /\ effect' = Outcome("mkdir", FALSE, i, i, r)
                /\ UNCHANGED <<inodeMap, astray>>
          /\ UNCHANGED <<openFiles, nextFh>>
    BY <1>2 DEF Mkdir
  <2>3. /\ Reference!PathOf(d) = inodeMap[d] /\ Reference!ParentDir(d) = r
        /\ Reference!IsDir(r) /\ Reference!Child(r, n) = None
    BY <2>1, SamePaths, SameTree
  <2> HIDE DEF r
  <2>4. effect'.op = "mkdir"
    BY <2>2 DEF Did, Outcome, Reference!Outcome
  <2>5. AsHandles' = AsHandles
    <3>1. fds' = fds
      BY <2>2 DEF Becomes
    <3>2. QED
      BY <2>2, <3>1, HandlesKept
  <2>6. CASE /\ Becomes(k(i), e(i), fds, {i})
             /\ inodeMap' = [inodeMap EXCEPT ![i] = Append(inodeMap[d], n)]
             /\ astray' = astray \ {i}
             /\ effect' = Did("mkdir", i, r)
    <3>1. Reference!Becomes(k(i), e(i), AsHandles, {i})
      <4> HIDE DEF k, e
      <4>1. QED
        BY <2>5, <2>6, BecomesSeen
    <3>2. Reference!Makes("mkdir", "dir", r, d, n, i)
      BY <2>2, <2>3, <2>6, SameOutcome DEF Reference!Makes
    <3>3. Reference!Mkdir(d, n)
      BY <2>1, <2>2, <2>3, <3>1, <3>2 DEF Reference!Mkdir
    <3>4. QED
      BY <2>4, <3>3 DEF Reference!Step
  <2>7. CASE /\ Becomes(k(i), e(i), fds, {})
             /\ effect' = Outcome("mkdir", FALSE, i, i, r)
             /\ UNCHANGED <<inodeMap, astray>>
    <3>1. Reference!Becomes(k(i), e(i), AsHandles, {})
      <4> HIDE DEF k, e
      <4>1. QED
        BY <2>5, <2>7, BecomesSeen
    <3>2. Reference!MakesUnseen("mkdir", i, r)
      BY <2>2, <2>7 DEF Reference!MakesUnseen, Outcome
    <3>3. Reference!Mkdir(d, n)
      BY <2>1, <2>3, <3>1, <3>2 DEF Reference!Mkdir
    <3>4. QED
      BY <2>4, <3>3 DEF Reference!Step
  <2>8. QED
    BY <2>2, <2>6, <2>7
<1>3. QED
  BY <1>1, <1>2

LEMMA RemovesSame ==
  ASSUME Serving, FdInv', NEW op, NEW r, IsDir(r), NEW n \in Name, Removes(op, r, n)
  PROVE  Reference!Removes(op, r, n) /\ effect'.op = op
<1> DEFINE i == entry[r][n]
           e == [entry EXCEPT ![r][n] = None]
<1>1. /\ Becomes(kind, e, fds, {})
      /\ inodeMap' = [inodeMap EXCEPT ![i] = None]
      /\ astray' = IF \E d \in Ino, m \in Name : e[d][m] = i
                   THEN astray \cup {i} ELSE astray \ {i}
      /\ effect' = Did(op, i, r)
      /\ UNCHANGED <<openFiles, nextFh>>
  BY DEF Removes
<1>2. Reference!Child(r, n) = i
  BY SameTree DEF Child
<1>3. AsHandles' = AsHandles
  <2>1. fds' = fds
    BY <1>1 DEF Becomes
  <2>2. QED
    BY <1>1, <2>1, HandlesKept
<1>4. Reference!Becomes(kind, e, AsHandles, {})
  <2> HIDE DEF e
  <2>1. QED
    BY <1>1, <1>3, BecomesSeen
<1>5. effect' = Reference!Did(op, i, r)
  BY <1>1, SameOutcome
<1>6. effect'.op = op
  BY <1>1 DEF Did, Outcome, Reference!Outcome
<1>7. QED
  BY <1>1, <1>2, <1>4, <1>5, <1>6 DEF Reference!Removes

LEMMA UnlinkSame ==
  ASSUME Serving, FdInv', NEW d \in Ino, NEW n \in Name, Unlink(d, n)
  PROVE  Reference!Step
<1> DEFINE r == AtPath(d)
<1>1. CASE Fail("unlink")
  BY <1>1, FailSame
<1>2. CASE ~Fail("unlink")
  <2>1. ~ReadOnly /\ IsDir(r) /\ IsFile(Child(r, n)) /\ Removes("unlink", r, n)
    BY <1>2 DEF Unlink
  <2>2. Reference!ParentDir(d) = r /\ Reference!IsFile(Reference!Child(r, n))
    BY <2>1, SamePaths, SameTree
  <2> HIDE DEF r
  <2>3. Reference!Removes("unlink", r, n) /\ effect'.op = "unlink"
    BY <2>1, RemovesSame
  <2>4. Reference!Unlink(d, n)
    BY <2>1, <2>2, <2>3 DEF Reference!Unlink
  <2>5. QED
    BY <2>3, <2>4 DEF Reference!Step
<1>3. QED
  BY <1>1, <1>2

LEMMA RmdirSame ==
  ASSUME Serving, FdInv', NEW d \in Ino, NEW n \in Name, Rmdir(d, n)
  PROVE  Reference!Step
<1> DEFINE r == AtPath(d)
<1>1. CASE Fail("rmdir")
  BY <1>1, FailSame
<1>2. CASE ~Fail("rmdir")
  <2>1. /\ ~ReadOnly /\ IsDir(r) /\ IsDir(Child(r, n)) /\ IsEmpty(Child(r, n))
        /\ Removes("rmdir", r, n)
    BY <1>2 DEF Rmdir
  <2>2. /\ Reference!ParentDir(d) = r /\ Reference!IsDir(Reference!Child(r, n))
        /\ Reference!IsEmpty(Reference!Child(r, n))
    BY <2>1, SamePaths, SameTree
  <2> HIDE DEF r
  <2>3. Reference!Removes("rmdir", r, n) /\ effect'.op = "rmdir"
    BY <2>1, RemovesSame
  <2>4. Reference!Rmdir(d, n)
    BY <2>1, <2>2, <2>3 DEF Reference!Rmdir
  <2>5. QED
    BY <2>3, <2>4 DEF Reference!Step
<1>3. QED
  BY <1>1, <1>2

LEMMA RenameSame ==
  ASSUME Serving, FdInv', NEW d \in Ino, NEW n \in Name, NEW b \in Ino, NEW m \in Name,
         Rename(d, n, b, m)
  PROVE  Reference!Step
<1> DEFINE r == AtPath(d)
           s == AtPath(b)
           old == Append(inodeMap[d], n)
           new == Append(inodeMap[b], m)
           i == Child(r, n)
           e2 == IF Child(s, m) = i THEN entry
                 ELSE [entry EXCEPT ![r][n] = None, ![s][m] = i]
           lost == {x \in Ino \ {i} : /\ inodeMap[x] # None
                                      /\ IsPrefix(old, inodeMap[x])
                                         \/ IsPrefix(new, inodeMap[x])}
<1>1. CASE Fail("rename")
  BY <1>1, FailSame
<1>2. CASE ~Fail("rename")
  <2>1. /\ ~ReadOnly /\ r # None /\ s # None /\ CanRename(r, n, s, m, new)
        /\ Becomes(kind, e2, fds, {})
        /\ inodeMap' = [inodeMap EXCEPT ![i] = new]
        /\ astray' = (astray \cup lost) \ {i}
        /\ effect' = Did("rename", i, s)
        /\ UNCHANGED <<openFiles, nextFh>>
    BY <1>2 DEF Rename
  <2>2. inodeMap[d] # None /\ inodeMap[b] # None
    BY <2>1 DEF AtPath
  <2>3. /\ Reference!PathOf(d) = inodeMap[d] /\ Reference!ParentDir(d) = r
        /\ Reference!PathOf(b) = inodeMap[b] /\ Reference!ParentDir(b) = s
        /\ Reference!Child(r, n) = i /\ Reference!Child(s, m) = Child(s, m)
        /\ Reference!CanRename(r, n, s, m, new)
    BY <2>1, SamePaths, SameTree, SameRename
  <2>4. AsHandles' = AsHandles
    <3>1. fds' = fds
      BY <2>1 DEF Becomes
    <3>2. QED
      BY <2>1, <3>1, HandlesKept
  <2>5. Reference!Becomes(kind, e2, AsHandles, {})
    <3> HIDE DEF e2
    <3>1. QED
      BY <2>1, <2>4, BecomesSeen
  <2>6. effect' = Reference!Did("rename", i, s) /\ effect'.op = "rename"
    <3>1. effect' = Reference!Did("rename", i, s)
      BY <2>1, SameOutcome
    <3>2. QED
      BY <3>1 DEF Reference!Did, Reference!Outcome
  <2> DEFINE oldR == Append(Reference!PathOf(d), n)
             newR == Append(Reference!PathOf(b), m)
             iR == Reference!Child(Reference!ParentDir(d), n)
             lostR == {x \in Ino \ {iR} : /\ inodeMap[x] # None
                                          /\ Reference!IsPrefix(oldR, inodeMap[x])
                                             \/ Reference!IsPrefix(newR, inodeMap[x])}
  <2>7. oldR = old /\ newR = new /\ iR = i
    BY <2>3
  <2>8. lostR = lost
    <3> HIDE DEF old, new, i, oldR, newR, iR
    <3>1. \A p, q : Reference!IsPrefix(p, q) <=> IsPrefix(p, q)
      BY DEF Reference!IsPrefix, IsPrefix
    <3>2. QED
      BY <2>7, <3>1
  <2>9. astray' = (astray \cup lostR) \ {iR}
    <3> HIDE DEF lost, lostR, i, iR
    <3>1. QED
      BY <2>1, <2>7, <2>8
  <2> HIDE DEF lost
  <2>10. Reference!Rename(d, n, b, m)
    <3> HIDE DEF r, s, i, new
    <3>1. /\ inodeMap' = [inodeMap EXCEPT ![iR] = newR]
          /\ effect' = Reference!Did("rename", iR, Reference!ParentDir(b))
          /\ Reference!CanRename(Reference!ParentDir(d), n, Reference!ParentDir(b), m, newR)
      BY <2>1, <2>3, <2>6, <2>7
    <3> DEFINE e2R == IF Reference!Child(Reference!ParentDir(b), m) = iR THEN entry
                      ELSE [entry EXCEPT ![Reference!ParentDir(d)][n] = None,
                                         ![Reference!ParentDir(b)][m] = iR]
    <3>2. e2R = e2
      BY <2>3, <2>7
    <3>3. Reference!Becomes(kind, e2R, AsHandles, {})
      <4> HIDE DEF e2, e2R
      <4>1. QED
        BY <2>5, <3>2
    <3> HIDE DEF e2
    <3>4. QED
      BY <2>1, <2>2, <2>3, <2>9, <3>1, <3>3 DEF Reference!Rename
  <2>11. QED
    BY <2>6, <2>10 DEF Reference!Step
<1>3. QED
  BY <1>1, <1>2
----------------------------------------------------------------------------
\* What a step may be: one of PassthroughFS, the exception, or one that changes nothing.
Drops ==
    \/ Reference!Step
    \/ OpensFound
    \/ UNCHANGED fdVars

LEMMA QueryDrops ==
  ASSUME Serving, FdInv', Queries
  PROVE  Drops
<1>1. phase = "mounted" => base # "mount"
  BY DEF Serving, FdInv, BaseBelow
<1>2. ASSUME NEW d \in Ino, NEW n \in Name, FuseLookup(d, n) PROVE Drops
  BY <1>1, <1>2, LookupSame DEF FuseLookup, Query, Ready, Serve, Drops
<1>3. ASSUME NEW d \in Ino, FuseReaddir(d) PROVE Drops
  BY <1>1, <1>3, ReaddirSame DEF FuseReaddir, Query, Ready, Serve, Drops
<1>4. ASSUME NEW i \in Ino, NEW write \in BOOLEAN, FuseOpen(i, write) PROVE Drops
  BY <1>1, <1>4, OpenSame DEF FuseOpen, Query, Ready, Serve, Drops
<1>5. ASSUME NEW f \in Fh, FuseRelease(f) PROVE Drops
  BY <1>1, <1>5, ReleaseSame DEF FuseRelease, Query, Ready, Serve, Drops
<1>6. ASSUME NEW byBase, Query(byBase, UNCHANGED fdVars) PROVE Drops
  BY <1>1, <1>6 DEF Query, Ready, Serve, Drops
<1>7. QED
  BY <1>2, <1>3, <1>4, <1>5, <1>6
     DEF Queries, FuseGetattr, FuseRead, FuseFlush, FuseAccess, FuseOpendir

LEMMA MutationDrops ==
  ASSUME Serving, FdInv', Mutation
  PROVE  Drops
<1>1. phase = "mounted" => base # "mount"
  BY DEF Serving, FdInv, BaseBelow
<1>2. ASSUME NEW op, Fail(op) PROVE Drops
  BY <1>2, FailSame DEF Drops
<1>3. ASSUME NEW path, Stats(path) PROVE Drops
  BY <1>3 DEF Stats, WaitsForItself, Drops
<1>4. ASSUME NEW f \in Fh, FuseWrite(f) PROVE Drops
  BY <1>1, <1>2, <1>4, WriteSame DEF FuseWrite, Mutate, Ready, Serve, Drops
<1>5. ASSUME NEW d \in Ino, NEW n \in Name, NEW flags, FuseCreate(d, n, flags)
      PROVE  Drops
  <2>1. /\ entry[d][n] = None
        /\ Create(d, n, flags) \/ Fail("create")
    BY <1>1, <1>5 DEF FuseCreate, Mutate, Ready, Serve
  <2>2. QED
    BY <1>2, <2>1, CreateSame DEF Drops
<1>6. ASSUME NEW d \in Ino, NEW n \in Name, FuseMkdir(d, n) PROVE Drops
  BY <1>1, <1>2, <1>6, MkdirSame DEF FuseMkdir, Mutate, Ready, Serve, Drops
<1>7. ASSUME NEW d \in Ino, NEW n \in Name, FuseUnlink(d, n) PROVE Drops
  BY <1>1, <1>2, <1>3, <1>7, UnlinkSame DEF FuseUnlink, Mutate, Ready, Serve, Drops
<1>8. ASSUME NEW d \in Ino, NEW n \in Name, FuseRmdir(d, n) PROVE Drops
  BY <1>1, <1>2, <1>8, RmdirSame DEF FuseRmdir, Mutate, Ready, Serve, Drops
<1>9. ASSUME NEW d \in Ino, NEW n \in Name, NEW b \in Ino, NEW m \in Name,
             FuseRename(d, n, b, m)
      PROVE  Drops
  BY <1>1, <1>2, <1>3, <1>9, RenameSame DEF FuseRename, Mutate, Ready, Serve, Drops
<1>10. ASSUME NEW i \in Ino, NEW f \in Fh \cup {None}, NEW more, FuseTruncate(i, f, more)
       PROVE  Drops
  <2>1. /\ f # None => IsOpen(f) /\ openFiles[f].node = i /\ Writable(f)
        /\ Truncate(i, f) \/ Fail("truncate")
    BY <1>1, <1>10 DEF FuseTruncate, Mutate, Ready, Serve
  <2>2. QED
    BY <1>2, <2>1, TruncateSame DEF Drops
<1>11. ASSUME NEW i \in Ino, NEW attrs, FuseChattr(i, attrs) PROVE Drops
  <2> DEFINE op == IF attrs = {"owner"} THEN "chown" ELSE "chattr"
  <2>1. Chattr(i, op) \/ Fail(op)
    BY <1>1, <1>11 DEF FuseChattr, Mutate, Ready, Serve
  <2>2. op \in {"chattr", "chown"}
    OBVIOUS
  <2> HIDE DEF op
  <2>3. QED
    BY <1>2, <2>1, <2>2, ChattrSame DEF Drops
<1>12. QED
  BY <1>4, <1>5, <1>6, <1>7, <1>8, <1>9, <1>10, <1>11 DEF Mutation

LEMMA StepDrops ==
  ASSUME MountInv, FdInv', [MountNext]_mountVars
  PROVE  Drops \/ phase' # phase
<1>1. CASE UNCHANGED mountVars
  BY <1>1 DEF mountVars, Drops
<1>2. CASE OpenDir \/ Mount \/ Fusermount
  BY <1>2 DEF OpenDir, Mount, Fusermount, Drops
<1>3. CASE Unmount \/ Interrupt \/ GivesUp
  BY <1>3 DEF Unmount, Interrupt, GivesUp, Ends
<1>4. CASE Mutation \/ Queries
  BY <1>4, MutationDrops, QueryDrops DEF MountInv
<1>5. CASE Reply
  <2>1. /\ effect' = Reference!NoEffect
        /\ UNCHANGED <<kind, entry, inodeMap, nextFh, known, astray>>
        /\ AsHandles' = AsHandles
    BY <1>5, SameOutcome, HandlesKept DEF Reply
  <2>2. QED
    BY <2>1 DEF Reference!Step, Drops
<1>6. QED
  BY <1>1, <1>2, <1>3, <1>4, <1>5 DEF MountNext, Main

\* DropIn: seen through its descriptors, every handler of FdPassthroughFS does what a
\* handler of PassthroughFS could do with the same tree, map and handles, those that create
\* has opened counting as writable.  One step of create alone is its own: in a directory
\* whose path has gone astray it opens the file that it finds.
THEOREM ReplacesPassthrough == MountSpec => DropIn
<1>1. MountInv /\ FdInv' /\ [MountNext]_mountVars
        => [Reference!Step \/ OpensFound \/ phase' # phase]_fdVars
  BY StepDrops DEF Drops
<1>2. QED
  BY <1>1, MountInvariance, FdInvariance, PTL DEF MountSpec, DropIn
=============================================================================
