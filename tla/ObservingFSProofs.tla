------------------------- MODULE ObservingFSProofs -------------------------
(***************************************************************************)
(* The invariants and action properties of ObservingFS, for every source   *)
(* tree and any number of inodes, names and handles, whatever requests,    *)
(* replies and failures come in whatever order.                            *)
(*                                                                         *)
(* HandleInv is about the numbers of handles alone.  FsInv adds what the   *)
(* map from inodes to paths has to do with the tree (MapInv of             *)
(* SourceTreeProofs).  StepGood says of each handler that it keeps FsInv   *)
(* and that what was recorded of it is true of the tree it leaves.         *)
(***************************************************************************)
EXTENDS ObservingFS, SourceTreeProofs

HandlesType ==
    /\ handles = [f \in Fh |-> handles[f]]
    /\ nextFh \in 1 .. MaxFh + 1

\* The handle numbers in use are below the next one to be given out.
HandlesBelow == \A f \in Fh : handles[f] # None => f < nextFh

HandleInv == HandlesType /\ HandlesBelow

\* The handle table as it is, or with an entry of the next number, or less an entry.
Kept == UNCHANGED <<handles, nextFh>>

Opened ==
    /\ nextFh \in Fh
    /\ \E h : handles' = [handles EXCEPT ![nextFh] = h]
    /\ nextFh' = nextFh + 1

Released == \E f \in Fh : handles' = [handles EXCEPT ![f] = None] /\ UNCHANGED nextFh

HandlesMove == Kept \/ Opened \/ Released

\* Both invariant and property depend on the table alone.
LEMMA MovesKeepHandles ==
  ASSUME HandleInv, HandlesMove
  PROVE  /\ HandleInv'
         /\ \A f \in Fh : handles[f] # None => handles'[f] \in {handles[f], None}
<1> USE FsAssumption DEF HandleInv, HandlesType, HandlesBelow, Fh
<1>1. CASE Kept
  BY <1>1 DEF Kept
<1>2. CASE Opened
  <2>1. PICK h : handles' = [handles EXCEPT ![nextFh] = h]
    BY <1>2 DEF Opened
  <2>2. nextFh \in Fh /\ nextFh' = nextFh + 1
    BY <1>2 DEF Opened
  <2>3. handles' = [f \in Fh |-> IF f = nextFh THEN h ELSE handles[f]]
    BY <2>1
  <2>4. HandlesType'
    BY <2>2, <2>3
  <2>5. HandlesBelow'
    BY <2>2, <2>3
  <2>6. QED
    BY <2>2, <2>3, <2>4, <2>5
<1>3. CASE Released
  <2>1. PICK g \in Fh : handles' = [handles EXCEPT ![g] = None] /\ UNCHANGED nextFh
    BY <1>3 DEF Released
  <2>2. handles' = [f \in Fh |-> IF f = g THEN None ELSE handles[f]]
    BY <2>1
  <2>3. QED
    BY <2>1, <2>2
<1>4. QED
  BY <1>1, <1>2, <1>3 DEF HandlesMove

----------------------------------------------------------------------------
\* What a handler of PassthroughFS does to the table.
LEMMA FailKeeps == ASSUME NEW op, Fail(op) PROVE Kept
  BY DEF Fail, Kept

LEMMA CreateMoves ==
  ASSUME NEW d \in Ino, NEW n \in Name, Create(d, n)
  PROVE  Kept \/ Opened
<1> DEFINE r == ParentDir(d)
<1>1. CASE Fail("create")
  BY <1>1, FailKeeps
<1>2. CASE ~Fail("create")
  <2> DEFINE Made(i, h, seen) ==
        Becomes([kind EXCEPT ![i] = "file"], [entry EXCEPT ![r][n] = i], h, seen)
  <2>1. nextFh \in Fh
    BY <1>2 DEF Create
  <2>2. PICK i \in Ino :
          \/ /\ Made(i, [handles EXCEPT ![nextFh] = [node |-> i, file |-> i,
                                                     write |-> TRUE]], {i})
             /\ nextFh' = nextFh + 1
          \/ MakesUnseen("create", i, r) /\ Made(i, handles, {})
    BY <1>2 DEF Create
  <2>3. QED
    BY <2>1, <2>2 DEF Becomes, MakesUnseen, Kept, Opened
<1>3. QED
  BY <1>1, <1>2

LEMMA MkdirKeeps ==
  ASSUME NEW d \in Ino, NEW n \in Name, Mkdir(d, n)
  PROVE  Kept
  BY FailKeeps DEF Mkdir, Becomes, MakesUnseen, Kept

LEMMA RemovalsKeep ==
  ASSUME NEW d \in Ino, NEW n \in Name, Unlink(d, n) \/ Rmdir(d, n)
  PROVE  Kept
  BY FailKeeps DEF Unlink, Rmdir, Removes, Becomes, Kept

LEMMA RenameKeeps ==
  ASSUME NEW d \in Ino, NEW n \in Name, NEW b \in Ino, NEW m \in Name, Rename(d, n, b, m)
  PROVE  Kept
  BY FailKeeps DEF Rename, Becomes, Kept

LEMMA ChangesKeep ==
  ASSUME \/ \E f \in Fh : Write(f)
         \/ \E i \in Ino, f \in Fh \cup {None} : Truncate(i, f)
         \/ \E i \in Ino, op \in {"chattr", "chown"} : Chattr(i, op)
  PROVE  Kept
<1>1. CASE \E f \in Fh : Write(f)
  BY <1>1, FailKeeps DEF Write, Kept
<1>2. CASE \E i \in Ino, f \in Fh \cup {None} : Truncate(i, f)
  BY <1>2, FailKeeps DEF Truncate, Kept
<1>3. CASE \E i \in Ino, op \in {"chattr", "chown"} : Chattr(i, op)
  BY <1>3, FailKeeps DEF Chattr, Kept
<1>4. QED
  BY <1>1, <1>2, <1>3

LEMMA StepMoves == ASSUME [ObsNext]_obsVars PROVE HandlesMove
<1>1. CASE Mutation
  <2>1. CASE \E f \in Fh : FuseWrite(f)
    BY <2>1, FailKeeps, ChangesKeep DEF FuseWrite, Delegate, HandlesMove
  <2>2. CASE \E d \in Ino, n \in Name : FuseCreate(d, n)
    BY <2>2, FailKeeps, CreateMoves DEF FuseCreate, Delegate, HandlesMove
  <2>3. CASE \E d \in Ino, n \in Name : FuseMkdir(d, n)
    BY <2>3, FailKeeps, MkdirKeeps DEF FuseMkdir, Delegate, HandlesMove
  <2>4. CASE \E d \in Ino, n \in Name : FuseUnlink(d, n) \/ FuseRmdir(d, n)
    BY <2>4, FailKeeps, RemovalsKeep DEF FuseUnlink, FuseRmdir, Delegate, HandlesMove
  <2>5. CASE \E d, b \in Ino, n, m \in Name : FuseRename(d, n, b, m)
    BY <2>5, FailKeeps, RenameKeeps DEF FuseRename, Delegate, HandlesMove
  <2>6. CASE \E i \in Ino, f \in Fh \cup {None}, more \in {{}, {"mode", "times"}} :
               FuseTruncate(i, f, more)
    BY <2>6, FailKeeps, ChangesKeep DEF FuseTruncate, Delegate, HandlesMove
  <2>7. CASE \E i \in Ino, attrs \in Attributes : FuseChattr(i, attrs)
    BY <2>7, FailKeeps, ChangesKeep DEF FuseChattr, Delegate, HandlesMove
  <2>8. QED
    BY <1>1, <2>1, <2>2, <2>3, <2>4, <2>5, <2>6, <2>7 DEF Mutation
<1>2. CASE Query
  <2>1. CASE \E d \in Ino, n \in Name : FuseLookup(d, n)
    BY <2>1 DEF FuseLookup, Lookup, HandlesMove, Kept
  <2>2. CASE \E d \in Ino : FuseReaddir(d)
    BY <2>2 DEF FuseReaddir, Readdir, HandlesMove, Kept
  <2>3. CASE \E i \in Ino, write \in BOOLEAN : FuseOpen(i, write)
    BY <2>3 DEF FuseOpen, Open, Becomes, HandlesMove, Opened
  <2>4. CASE \E f \in Fh : FuseRelease(f)
    BY <2>4 DEF FuseRelease, Release, Becomes, HandlesMove, Released
  <2>5. QED
    BY <1>2, <2>1, <2>2, <2>3, <2>4 DEF Query
<1>3. CASE Reply
  BY <1>3 DEF Reply, HandlesMove, Kept
<1>4. CASE UNCHANGED obsVars
  BY <1>4 DEF obsVars, fsVars, HandlesMove, Kept
<1>5. QED
  BY <1>1, <1>2, <1>3, <1>4 DEF ObsNext
----------------------------------------------------------------------------
\* The inductive invariant: numbers in use are below the next, so that the next is free.
THEOREM HandlesInvariance == ObsSpec => []HandleInv
<1>1. ObsInit => HandleInv
  BY FsAssumption DEF ObsInit, Init, HandleInv, HandlesType, HandlesBelow, Fh
<1>2. HandleInv /\ [ObsNext]_obsVars => HandleInv'
  BY StepMoves, MovesKeepHandles
<1>3. QED
  BY <1>1, <1>2, PTL DEF ObsSpec

\* A handle keeps its file until it is released: no later open, creation or failure puts
\* another under the same number, for every tree and any number of handles.
THEOREM HandlesAreStable == ObsSpec => HandlesStable
<1>1. HandleInv /\ [ObsNext]_obsVars
        => [\A f \in Fh : handles[f] # None => handles'[f] \in {handles[f], None}]_obsVars
  BY StepMoves, MovesKeepHandles
<1>2. QED
  BY <1>1, HandlesInvariance, PTL DEF ObsSpec, HandlesStable
----------------------------------------------------------------------------
\* The inductive invariant: handles and map agree with the tree and with what the kernel
\* knows.  That open files are not forgotten is needed for what is written to a handle.
OpenFiles == {handles[f].file : f \in {g \in Fh : handles[g] # None}}

Handle == [node : Ino, file : Ino, write : BOOLEAN]

HandleRecords == \A f \in Fh : handles[f] # None => handles[f] \in Handle

OpensKnown ==
    \A f \in Fh : handles[f] # None /\ handles[f].node = handles[f].file =>
        handles[f].node \in known

Mapped == MapInv(kind, entry, OpenFiles, known, inodeMap, astray)

FsInv == HandleInv /\ HandleRecords /\ OpensKnown /\ Mapped

\* What the handlers rely on.
LEMMA InvFacts ==
  ASSUME FsInv
  PROVE  /\ WellFormed(kind, entry, OpenFiles)
         /\ kind \in [Ino -> {"free", "file", "dir"}]
         /\ entry \in [Ino -> [Name -> Ino \cup {None}]]
         /\ inodeMap \in [Ino -> Seq(Name) \cup {None}]
         /\ known \subseteq {i \in Ino : kind[i] # "free"} /\ astray \subseteq Ino
         /\ \A i \in Ino : PathOf(i) = inodeMap[i]
         /\ \A i \in Ino \ astray : inodeMap[i] # None => Walk(inodeMap[i]) = i
         /\ \A p \in Seq(Name) : Walk(p) \in Ino \cup {None}
         /\ Root \in Ino /\ None \notin Ino /\ None \notin Seq(Name)
<1>1. MapInv(kind, entry, OpenFiles, known, inodeMap, astray)
  BY DEF FsInv, Mapped
<1>2. /\ WellFormed(kind, entry, OpenFiles)
      /\ inodeMap \in [Ino -> Seq(Name) \cup {None}] /\ inodeMap[Root] = <<>>
      /\ known \subseteq {i \in Ino : kind[i] # "free"} /\ astray \subseteq Ino
      /\ \A i \in Ino \ astray :
            inodeMap[i] # None => WalkIn(kind, entry, inodeMap[i]) = i
  BY <1>1 DEF MapInv
<1>3. /\ kind \in [Ino -> {"free", "file", "dir"}]
      /\ entry \in [Ino -> [Name -> Ino \cup {None}]]
  BY <1>2 DEF WellFormed
<1>4. \A i \in Ino : PathOf(i) = inodeMap[i]
  BY <1>2 DEF PathOf
<1>5. \A p \in Seq(Name) : Walk(p) \in Ino \cup {None}
  BY <1>2, WalkType, WalkIsWalkIn
<1>6. QED
  BY <1>2, <1>3, <1>4, <1>5, WalkIsWalkIn, TreeAssumption

LEMMA BecomesTree ==
  ASSUME NEW k, NEW e, NEW h, NEW seen, Becomes(k, e, h, seen)
  PROVE  /\ handles' = h /\ entry' = e
         /\ kind' = Remaining(k, e, OpenFiles')
         /\ known' = (known \cup seen) \cap Live(e, OpenFiles')
  BY DEF Becomes, TreeBecomes, Remaining, OpenFiles

\* What a step does to the handle records.
LEMMA RecordKept ==
  ASSUME FsInv, handles' = handles
  PROVE  OpenFiles' = OpenFiles /\ HandleRecords'
  BY DEF FsInv, HandleRecords, OpenFiles

LEMMA RecordAdded ==
  ASSUME FsInv, NEW h \in Handle, nextFh \in Fh, handles' = [handles EXCEPT ![nextFh] = h]
  PROVE  /\ OpenFiles' = OpenFiles \cup {h.file} /\ HandleRecords'
         /\ handles[nextFh] = None /\ handles'[nextFh] = h
         /\ \A f \in Fh \ {nextFh} : handles'[f] = handles[f]
<1>1. h # None
  BY FsAssumption DEF Handle
<1>2. handles = [f \in Fh |-> handles[f]] /\ handles[nextFh] = None
  BY FsAssumption DEF FsInv, HandleInv, HandlesType, HandlesBelow, Fh
<1>3. \A f \in Fh : handles'[f] = IF f = nextFh THEN h ELSE handles[f]
  BY <1>2
<1>4. OpenFiles' = OpenFiles \cup {h.file}
  <2>1. ASSUME NEW x PROVE x \in OpenFiles' <=> x \in OpenFiles \cup {h.file}
    BY <1>1, <1>2, <1>3 DEF OpenFiles
  <2>2. QED
    BY <2>1
<1>5. HandleRecords'
  BY <1>3 DEF FsInv, HandleRecords
<1>6. QED
  BY <1>2, <1>3, <1>4, <1>5

LEMMA RecordDropped ==
  ASSUME FsInv, NEW g \in Fh, handles' = [handles EXCEPT ![g] = None]
  PROVE  /\ OpenFiles' \subseteq OpenFiles /\ HandleRecords'
         /\ \A f \in Fh : handles'[f] # None => handles'[f] = handles[f]
<1>1. handles = [f \in Fh |-> handles[f]]
  BY DEF FsInv, HandleInv, HandlesType
<1>2. \A f \in Fh : handles'[f] = IF f = g THEN None ELSE handles[f]
  BY <1>1
<1>3. QED
  BY <1>2 DEF FsInv, HandleRecords, OpenFiles

\* Files that are open are not forgotten.
LEMMA OpensStayKnown ==
  ASSUME FsInv, NEW e, NEW seen, known' = (known \cup seen) \cap Live(e, OpenFiles'),
         \A f \in Fh : handles'[f] # None => handles'[f] = handles[f]
                                             \/ handles'[f].node \in known \cup seen
  PROVE  OpensKnown'
<1>1. ASSUME NEW f \in Fh, handles'[f] # None, handles'[f].node = handles'[f].file
      PROVE  handles'[f].node \in known'
  <2>1. handles'[f].file \in OpenFiles'
    BY <1>1 DEF OpenFiles
  <2>2. handles'[f].node \in Live(e, OpenFiles')
    BY <1>1, <2>1 DEF Live
  <2>3. handles'[f].node \in known \cup seen
    BY <1>1 DEF FsInv, OpensKnown
  <2>4. QED
    BY <2>2, <2>3
<1>2. QED
  BY <1>1 DEF OpensKnown

\* The tree, the map and the handles are as they were.
LEMMA QuietStep ==
  ASSUME FsInv, UNCHANGED <<kind, entry, inodeMap, handles, nextFh, known, astray>>
  PROVE  FsInv'
<1>1. HandleInv' /\ HandleRecords' /\ OpensKnown'
  BY DEF FsInv, HandleInv, HandlesType, HandlesBelow, HandleRecords, OpensKnown
<1>2. Mapped'
  BY DEF FsInv, Mapped, OpenFiles
<1>3. QED
  BY <1>1, <1>2 DEF FsInv

----------------------------------------------------------------------------
\* What is delegated without a notification.
LEMMA LookupKeeps ==
  ASSUME FsInv, NEW d \in Ino, NEW n \in Name, Lookup(d, n)
  PROVE  HandleRecords' /\ OpensKnown' /\ Mapped'
<1> DEFINE path == Append(PathOf(d), n)
           i == Walk(path)
<1>1. /\ inodeMap \in [Ino -> Seq(Name) \cup {None}] /\ WellFormed(kind, entry, OpenFiles)
      /\ \A x \in Ino : PathOf(x) = inodeMap[x]
  BY InvFacts
<1>2. PathOf(d) \in Seq(Name) /\ path \in Seq(Name)
  <2>1. PathOf(d) \in Seq(Name)
    BY <1>1 DEF Lookup
  <2>2. QED
    BY <2>1, AppendProperties
<1>3. /\ i # None /\ inodeMap' = [inodeMap EXCEPT ![i] = path]
      /\ known' = known \cup {i} /\ astray' = astray \ {i}
      /\ UNCHANGED <<kind, entry, handles, nextFh>>
  BY DEF Lookup
<1>4. i = WalkIn(kind, entry, path)
  BY WalkIsWalkIn
<1>5. i \in Ino \ {Root}
  BY <1>1, <1>2, <1>3, <1>4, EntryIsNamed
<1> HIDE DEF i, path
<1>6. /\ inodeMap' \in [Ino -> Seq(Name) \cup {None}]
      /\ \A x \in {i} : inodeMap'[x] \in Seq(Name) /\ WalkIn(kind, entry, inodeMap'[x]) = x
      /\ \A x \in Ino \ {i} : inodeMap'[x] = inodeMap[x]
  BY <1>1, <1>2, <1>3, <1>4, <1>5
<1>7. MapInv(kind, entry, OpenFiles, known \cup {i}, inodeMap', astray \ {i})
  <2>1. {i} \in SUBSET (Ino \ {Root}) /\ known \subseteq known \cup {i}
    BY <1>5
  <2>2. QED
    BY <1>6, <2>1, MapRegisters DEF FsInv, Mapped
<1>8. OpenFiles' = OpenFiles /\ HandleRecords'
  BY <1>3, RecordKept
<1>9. QED
  BY <1>3, <1>7, <1>8 DEF Mapped, FsInv, OpensKnown

LEMMA ReaddirKeeps ==
  ASSUME FsInv, NEW d \in Ino, Readdir(d)
  PROVE  HandleRecords' /\ OpensKnown' /\ Mapped'
<1> DEFINE path == PathOf(d)
           dir == Walk(path)
           children == {Child(dir, n) : n \in Name} \ {None}
<1>1. /\ inodeMap \in [Ino -> Seq(Name) \cup {None}] /\ WellFormed(kind, entry, OpenFiles)
      /\ \A x \in Ino : PathOf(x) = inodeMap[x]
      /\ \A p \in Seq(Name) : Walk(p) \in Ino \cup {None}
  BY InvFacts
<1>2. path \in Seq(Name)
  BY <1>1 DEF Readdir
<1>3. PICK nameOf \in [children -> Name] :
         /\ \A x \in children : Child(dir, nameOf[x]) = x
         /\ inodeMap' = [x \in Ino |-> IF x \in children
                                       THEN Append(path, nameOf[x]) ELSE inodeMap[x]]
  BY DEF Readdir
<1>4. astray' = astray \ children /\ UNCHANGED <<kind, entry, handles, nextFh, known>>
  BY DEF Readdir
<1>5. ASSUME NEW x \in children
      PROVE  /\ x \in Ino \ {Root} /\ Append(path, nameOf[x]) \in Seq(Name)
             /\ WalkIn(kind, entry, Append(path, nameOf[x])) = x
  <2>1. nameOf[x] \in Name
    BY <1>3
  <2>2. WalkIn(kind, entry, Append(path, nameOf[x]))
           = ChildIn(kind, entry, WalkIn(kind, entry, path), nameOf[x])
    <3> DEFINE y == nameOf[x]
    <3> HIDE DEF path, y
    <3>1. y \in Name
      BY <2>1 DEF y
    <3>2. WalkIn(kind, entry, Append(path, y))
             = ChildIn(kind, entry, WalkIn(kind, entry, path), y)
      BY <1>2, <3>1, WalkAppend
    <3>3. QED
      BY <3>2 DEF y
  <2>3. WalkIn(kind, entry, Append(path, nameOf[x])) = x
    BY <1>3, <2>2, WalkIsWalkIn
  <2>4. x # None
    OBVIOUS
  <2>5. Append(path, nameOf[x]) \in Seq(Name)
    BY <1>2, <2>1, AppendProperties
  <2>6. WalkIn(kind, entry, Append(path, nameOf[x])) \in Ino \ {Root}
    BY <1>1, <1>2, <2>1, <2>3, <2>4, EntryIsNamed
  <2>7. QED
    BY <2>3, <2>5, <2>6
<1> HIDE DEF children, dir, path
<1>6. /\ inodeMap' \in [Ino -> Seq(Name) \cup {None}]
      /\ \A x \in children :
            inodeMap'[x] \in Seq(Name) /\ WalkIn(kind, entry, inodeMap'[x]) = x
      /\ \A x \in Ino \ children : inodeMap'[x] = inodeMap[x]
  BY <1>1, <1>3, <1>5
<1>7. MapInv(kind, entry, OpenFiles, known, inodeMap', astray \ children)
  <2>1. children \in SUBSET (Ino \ {Root}) /\ known \subseteq known \cup children
    BY <1>5
  <2>2. QED
    BY <1>6, <2>1, MapRegisters DEF FsInv, Mapped
<1>8. OpenFiles' = OpenFiles /\ HandleRecords'
  BY <1>4, RecordKept
<1>9. QED
  BY <1>4, <1>7, <1>8 DEF Mapped, FsInv, OpensKnown

LEMMA OpenKeeps ==
  ASSUME FsInv, NEW i \in Ino, NEW write \in BOOLEAN, Open(i, write)
  PROVE  /\ HandleRecords' /\ OpensKnown' /\ Mapped'
         /\ nextFh \in Fh /\ \A f \in Fh \ {nextFh} : handles'[f] = handles[f]
         /\ i \notin astray => handles'[nextFh].file = i
         /\ handles'[nextFh].node = i /\ astray' = astray
<1> DEFINE file == Walk(PathOf(i))
           h == [node |-> i, file |-> file, write |-> write]
<1>1. /\ i \in known /\ nextFh \in Fh /\ PathOf(i) # None
      /\ file \in Ino /\ kind[file] = "file"
      /\ Becomes(kind, entry, [handles EXCEPT ![nextFh] = h], {})
      /\ UNCHANGED <<inodeMap, astray>>
  BY DEF Open, IsFile
<1>2. h \in Handle /\ h.file = file /\ h.node = i
  BY <1>1 DEF Handle
<1>3. i \notin astray => file = i
  BY <1>1, InvFacts
<1>4. /\ WellFormed(kind, entry, OpenFiles) /\ OpenFiles \subseteq {x \in Ino : kind[x] = "file"}
  BY InvFacts DEF WellFormed
<1> HIDE DEF h, file
<1>5. /\ handles' = [handles EXCEPT ![nextFh] = h] /\ entry' = entry
      /\ kind' = Remaining(kind, entry, OpenFiles')
      /\ known' = (known \cup {}) \cap Live(entry, OpenFiles')
  BY <1>1, BecomesTree
<1>6. /\ OpenFiles' = OpenFiles \cup {file} /\ HandleRecords'
      /\ handles'[nextFh] = h
      /\ \A f \in Fh \ {nextFh} : handles'[f] = handles[f]
  BY <1>1, <1>2, <1>5, RecordAdded
<1>7. OpenFiles' \subseteq {x \in Ino : kind[x] = "file"}
  BY <1>1, <1>4, <1>6
<1>8. MapInv(kind', entry, OpenFiles', known', inodeMap, astray)
  BY <1>5, <1>7, MapWhenReopened DEF FsInv, Mapped
<1>9. OpensKnown'
  <2>1. \A f \in Fh : handles'[f] # None =>
           handles'[f] = handles[f] \/ handles'[f].node \in known \cup {}
    BY <1>1, <1>2, <1>6
  <2>2. QED
    BY <1>5, <2>1, OpensStayKnown
<1>10. QED
  BY <1>1, <1>2, <1>3, <1>5, <1>6, <1>8, <1>9 DEF Mapped

LEMMA ReleaseKeeps ==
  ASSUME FsInv, NEW f \in Fh, Release(f)
  PROVE  HandleRecords' /\ OpensKnown' /\ Mapped'
<1>1. /\ handles' = [handles EXCEPT ![f] = None] /\ entry' = entry
      /\ kind' = Remaining(kind, entry, OpenFiles')
      /\ known' = (known \cup {}) \cap Live(entry, OpenFiles')
      /\ UNCHANGED <<inodeMap, astray>>
  BY BecomesTree DEF Release
<1>2. /\ OpenFiles' \subseteq OpenFiles /\ HandleRecords'
      /\ \A g \in Fh : handles'[g] # None => handles'[g] = handles[g]
  BY <1>1, RecordDropped
<1>3. OpenFiles' \subseteq {x \in Ino : kind[x] = "file"}
  BY <1>2, InvFacts DEF WellFormed
<1>4. MapInv(kind', entry, OpenFiles', known', inodeMap, astray)
  BY <1>1, <1>3, MapWhenReopened DEF FsInv, Mapped
<1>5. OpensKnown'
  BY <1>1, <1>2, OpensStayKnown
<1>6. QED
  BY <1>1, <1>2, <1>4, <1>5 DEF Mapped

----------------------------------------------------------------------------
\* The part of create and mkdir that touches the tree.
AddsIn(d, n, r, i, t, h, seen) ==
    /\ r = ParentDir(d) /\ IsDir(r) /\ Child(r, n) = None /\ kind[i] = "free"
    /\ Becomes([kind EXCEPT ![i] = t], [entry EXCEPT ![r][n] = i], h, seen)
    /\ OpenFiles' = OpenFiles \/ (OpenFiles' = OpenFiles \cup {i} /\ t = "file")

Added(d, n, i, seen) ==
    /\ inodeMap[d] \in Seq(Name) /\ PathOf(d) = inodeMap[d] /\ i # d
    /\ MapInv(kind', entry', OpenFiles', StillKnown(known, {i}, entry', OpenFiles'),
              Registering(inodeMap, i, Append(PathOf(d), n)), astray \ {i})
    /\ MapInv(kind', entry', OpenFiles', StillKnown(known, {}, entry', OpenFiles'),
              inodeMap, astray)
    /\ WalkIn(kind', entry', Append(inodeMap[d], n)) = i
    /\ known' = StillKnown(known, seen, entry', OpenFiles')

LEMMA AddsEntry ==
  ASSUME FsInv, NEW d \in known, NEW n \in Name, NEW i \in Ino, NEW t \in {"file", "dir"},
         NEW r, NEW h, NEW seen, AddsIn(d, n, r, i, t, h, seen)
  PROVE  Added(d, n, i, seen)
<1>0. /\ r = ParentDir(d) /\ IsDir(r) /\ Child(r, n) = None /\ kind[i] = "free"
      /\ Becomes([kind EXCEPT ![i] = t], [entry EXCEPT ![r][n] = i], h, seen)
      /\ OpenFiles' = OpenFiles \/ (OpenFiles' = OpenFiles \cup {i} /\ t = "file")
  BY DEF AddsIn
<1>1. /\ inodeMap \in [Ino -> Seq(Name) \cup {None}] /\ d \in Ino
      /\ PathOf(d) = inodeMap[d] /\ None \notin Ino
  BY InvFacts
<1>2. /\ inodeMap[d] \in Seq(Name) /\ r = Walk(inodeMap[d]) /\ r \in Ino /\ kind[r] = "dir"
  BY <1>0, <1>1 DEF ParentDir, IsDir
<1>3. WalkIn(kind, entry, inodeMap[d]) = r /\ ChildIn(kind, entry, r, n) = None
  BY <1>0, <1>2, WalkIsWalkIn
<1>4. /\ entry' = WithEntry(entry, r, n, i)
      /\ kind' = Remaining(WithKind(kind, i, t), entry', OpenFiles')
      /\ known' = StillKnown(known, seen, entry', OpenFiles')
  BY <1>0, BecomesTree DEF WithEntry, WithKind, StillKnown
<1>5. inodeMap[d] # None
  BY <1>2, TreeAssumption
<1>6. /\ MapInv(kind', entry', OpenFiles', StillKnown(known, {i}, entry', OpenFiles'),
                Registering(inodeMap, i, Append(inodeMap[d], n)), astray \ {i})
      /\ MapInv(kind', entry', OpenFiles', StillKnown(known, {}, entry', OpenFiles'),
                inodeMap, astray)
      /\ WalkIn(kind', entry', Append(inodeMap[d], n)) = i
      /\ i \in Live(entry', OpenFiles')
  <2>1. MapInv(kind, entry, OpenFiles, known, inodeMap, astray)
    BY DEF FsInv, Mapped
  <2>2. Adds(kind, entry, OpenFiles, inodeMap, d, r, n, i, t, kind', entry', OpenFiles')
    BY <1>0, <1>1, <1>2, <1>3, <1>4, <1>5 DEF Adds
  <2>3. MapInv(kind', entry', OpenFiles', StillKnown(known, {i}, entry', OpenFiles'),
                Registering(inodeMap, i, Append(inodeMap[d], n)), astray \ {i})
    BY ONLY <2>1, <2>2, MapWhenAdded
  <2>4. MapInv(kind', entry', OpenFiles', StillKnown(known, {}, entry', OpenFiles'),
                inodeMap, astray)
    BY ONLY <2>1, <2>2, MapWhenAdded
  <2>5. StandsAt(known, inodeMap, d, n, i, kind', entry', OpenFiles')
    BY ONLY <2>1, <2>2, MapWhenAdded
  <2>6. QED
    BY <2>3, <2>4, <2>5 DEF StandsAt
<1>7. i # d
  BY <1>0, InvFacts
<1>8. QED
  BY <1>1, <1>2, <1>4, <1>6, <1>7 DEF Added

LEMMA FailInv ==
  ASSUME FsInv, NEW op, Fail(op)
  PROVE  FsInv' /\ effect'.op = op /\ effect'.node = None
<1>1. UNCHANGED <<kind, entry, inodeMap, handles, nextFh, known, astray>>
  BY DEF Fail
<1>2. effect'.op = op /\ effect'.node = None
  BY DEF Fail, Failed, Outcome
<1>3. QED
  BY <1>1, <1>2, QuietStep

\* Handle numbers that come into use: nextFh, for the file that was asked for.
OpensRight ==
    \A f \in Fh : handles[f] = None /\ handles'[f] # None =>
        f = nextFh /\ (handles'[f].node \notin astray => handles'[f].file = handles'[f].node)

\* What was made, if anything, stands under the name n in the directory at the path of d.
MadeAt(d, n) ==
    effect'.node # None =>
        /\ inodeMap[d] \in Seq(Name) /\ inodeMap'[d] = inodeMap[d]
        /\ WalkIn(kind', entry', Append(inodeMap[d], n)) = effect'.node
        /\ effect'.asked = effect'.node

\* The attributes of what was made cannot be read back.
LEMMA MakesUnseenInv ==
  ASSUME FsInv, NEW d \in known, NEW n \in Name, NEW r, r = ParentDir(d), IsDir(r),
         Child(r, n) = None, NEW i \in Ino, NEW t \in {"file", "dir"}, NEW op,
         MakesUnseen(op, i, r),
         Becomes([kind EXCEPT ![i] = t], [entry EXCEPT ![r][n] = i], handles, {})
  PROVE  /\ HandleRecords' /\ OpensKnown' /\ Mapped' /\ handles' = handles
         /\ effect'.op = op /\ MadeAt(d, n)
<1>1. /\ kind[i] = "free" /\ effect' = Outcome(op, FALSE, i, i, r)
      /\ UNCHANGED <<inodeMap, astray>>
  BY DEF MakesUnseen
<1>2. handles' = handles
  BY BecomesTree
<1>3. OpenFiles' = OpenFiles /\ HandleRecords'
  BY <1>2, RecordKept
<1>4. /\ inodeMap[d] \in Seq(Name)
      /\ MapInv(kind', entry', OpenFiles', StillKnown(known, {}, entry', OpenFiles'),
                inodeMap, astray)
      /\ WalkIn(kind', entry', Append(inodeMap[d], n)) = i
      /\ known' = StillKnown(known, {}, entry', OpenFiles')
  <2>1. AddsIn(d, n, r, i, t, handles, {})
    BY <1>1, <1>3 DEF AddsIn
  <2>2. Added(d, n, i, {})
    BY <2>1, AddsEntry
  <2>3. QED
    BY <2>2 DEF Added
<1>5. OpensKnown'
  BY <1>2, <1>4, OpensStayKnown DEF StillKnown
<1>6. effect'.op = op /\ effect'.node = i /\ effect'.asked = i
  BY <1>1 DEF Outcome
<1>7. QED
  BY <1>1, <1>2, <1>3, <1>4, <1>5, <1>6 DEF Mapped, MadeAt

LEMMA MkdirInv ==
  ASSUME FsInv, NEW d \in known, NEW n \in Name, Mkdir(d, n)
  PROVE  /\ HandleRecords' /\ OpensKnown' /\ Mapped' /\ handles' = handles
         /\ effect'.op = "mkdir" /\ MadeAt(d, n)
<1> DEFINE r == ParentDir(d)
           Made(i, seen) ==
             Becomes([kind EXCEPT ![i] = "dir"], [entry EXCEPT ![r][n] = i], handles, seen)
<1>1. CASE Fail("mkdir")
  BY <1>1, FailInv DEF FsInv, MadeAt, Fail
<1>2. CASE ~Fail("mkdir")
  <2>1. IsDir(r) /\ Child(r, n) = None
    BY <1>2 DEF Mkdir
  <2>2. PICK i \in Ino :
          \/ Makes("mkdir", "dir", r, d, n, i) /\ Made(i, {i})
          \/ MakesUnseen("mkdir", i, r) /\ Made(i, {})
    BY <1>2 DEF Mkdir
  <2>3. CASE Makes("mkdir", "dir", r, d, n, i) /\ Made(i, {i})
    <3>1. /\ kind[i] = "free" /\ inodeMap' = [inodeMap EXCEPT ![i] = Append(PathOf(d), n)]
          /\ astray' = astray \ {i} /\ effect' = Did("mkdir", i, r)
      BY <2>3 DEF Makes
    <3>2. handles' = handles
      BY <2>3, BecomesTree
    <3>3. OpenFiles' = OpenFiles /\ HandleRecords'
      BY <3>2, RecordKept
    <3>4. /\ inodeMap[d] \in Seq(Name) /\ PathOf(d) = inodeMap[d] /\ i # d
          /\ MapInv(kind', entry', OpenFiles', StillKnown(known, {i}, entry', OpenFiles'),
                   Registering(inodeMap, i, Append(PathOf(d), n)), astray \ {i})
          /\ WalkIn(kind', entry', Append(inodeMap[d], n)) = i
          /\ known' = StillKnown(known, {i}, entry', OpenFiles')
      <4> HIDE DEF r
      <4>1. Becomes([kind EXCEPT ![i] = "dir"], [entry EXCEPT ![r][n] = i], handles, {i})
        BY <2>3
      <4>2. r = ParentDir(d)
        BY DEF r
      <4>3. AddsIn(d, n, r, i, "dir", handles, {i})
        BY <2>1, <3>1, <3>3, <4>1, <4>2 DEF AddsIn
      <4>4. Added(d, n, i, {i})
        BY <4>3, AddsEntry
      <4>5. QED
        BY <4>4 DEF Added
    <3>5. OpensKnown'
      BY <3>2, <3>4, OpensStayKnown DEF StillKnown
    <3>6. /\ effect'.op = "mkdir" /\ effect'.node = i /\ effect'.asked = i
          /\ inodeMap'[d] = inodeMap[d]
      BY <3>1, <3>4, InvFacts DEF Did, Outcome
    <3>7. QED
      BY <3>1, <3>2, <3>3, <3>4, <3>5, <3>6 DEF Mapped, MadeAt, Registering
  <2>4. CASE MakesUnseen("mkdir", i, r) /\ Made(i, {})
    <3>1. Becomes([kind EXCEPT ![i] = "dir"], [entry EXCEPT ![r][n] = i], handles, {})
      BY <2>4
    <3>2. r = ParentDir(d) /\ MakesUnseen("mkdir", i, r)
      BY <2>4
    <3> HIDE DEF r, Made
    <3>3. QED
      BY <2>1, <3>1, <3>2, MakesUnseenInv
  <2>5. QED
    BY <2>2, <2>3, <2>4
<1>3. QED
  BY <1>1, <1>2

LEMMA CreateInv ==
  ASSUME FsInv, NEW d \in known, NEW n \in Name, Create(d, n)
  PROVE  /\ HandleRecords' /\ OpensKnown' /\ Mapped' /\ OpensRight
         /\ effect'.op = "create" /\ MadeAt(d, n)
<1> DEFINE r == ParentDir(d)
           rec(i) == [node |-> i, file |-> i, write |-> TRUE]
           Made(i, h, seen) ==
             Becomes([kind EXCEPT ![i] = "file"], [entry EXCEPT ![r][n] = i], h, seen)
<1>1. CASE Fail("create")
  BY <1>1, FailInv DEF FsInv, MadeAt, Fail, OpensRight
<1>2. CASE ~Fail("create")
  <2>1. IsDir(r) /\ Child(r, n) = None /\ nextFh \in Fh
    BY <1>2 DEF Create
  <2>2. PICK i \in Ino :
          \/ /\ Makes("create", "file", r, d, n, i)
             /\ Made(i, [handles EXCEPT ![nextFh] = rec(i)], {i})
             /\ nextFh' = nextFh + 1
          \/ MakesUnseen("create", i, r) /\ Made(i, handles, {})
    BY <1>2 DEF Create
  <2>3. CASE /\ Makes("create", "file", r, d, n, i)
             /\ Made(i, [handles EXCEPT ![nextFh] = rec(i)], {i})
    <3> DEFINE h == rec(i)
               hs == [handles EXCEPT ![nextFh] = h]
    <3>1. /\ kind[i] = "free" /\ inodeMap' = [inodeMap EXCEPT ![i] = Append(PathOf(d), n)]
          /\ astray' = astray \ {i} /\ effect' = Did("create", i, r)
      BY <2>3 DEF Makes
    <3>2. h \in Handle /\ h.file = i /\ h.node = i
      BY DEF Handle
    <3>3. Becomes([kind EXCEPT ![i] = "file"], [entry EXCEPT ![r][n] = i], hs, {i})
      BY <2>3
    <3>4. r = ParentDir(d)
      OBVIOUS
    <3> HIDE DEF r, h, rec, Made
    <3>5. handles' = hs
      BY <3>3, BecomesTree
    <3>6. /\ OpenFiles' = OpenFiles \cup {i} /\ HandleRecords'
          /\ handles[nextFh] = None /\ handles'[nextFh] = h
          /\ \A f \in Fh \ {nextFh} : handles'[f] = handles[f]
      BY <2>1, <3>2, <3>5, RecordAdded
    <3>7. /\ inodeMap[d] \in Seq(Name) /\ PathOf(d) = inodeMap[d] /\ i # d
          /\ MapInv(kind', entry', OpenFiles', StillKnown(known, {i}, entry', OpenFiles'),
                   Registering(inodeMap, i, Append(PathOf(d), n)), astray \ {i})
          /\ WalkIn(kind', entry', Append(inodeMap[d], n)) = i
          /\ known' = StillKnown(known, {i}, entry', OpenFiles')
      <4>1. AddsIn(d, n, r, i, "file", hs, {i})
        BY <2>1, <3>1, <3>3, <3>4, <3>6 DEF AddsIn
      <4>2. Added(d, n, i, {i})
        BY <4>1, AddsEntry
      <4>3. QED
        BY <4>2 DEF Added
    <3>8. OpensKnown'
      <4>1. \A f \in Fh : handles'[f] # None =>
              handles'[f] = handles[f] \/ handles'[f].node \in known \cup {i}
        BY <3>2, <3>6
      <4>2. QED
        BY <3>7, <4>1, OpensStayKnown DEF StillKnown
    <3>9. /\ effect'.op = "create" /\ effect'.node = i /\ effect'.asked = i
          /\ inodeMap'[d] = inodeMap[d]
      BY <3>1, <3>7, InvFacts DEF Did, Outcome
    <3>10. OpensRight
      BY <3>2, <3>6 DEF OpensRight
    <3>11. QED
      BY <3>1, <3>6, <3>7, <3>8, <3>9, <3>10 DEF Mapped, MadeAt, Registering
  <2>4. CASE MakesUnseen("create", i, r) /\ Made(i, handles, {})
    <3>1. Becomes([kind EXCEPT ![i] = "file"], [entry EXCEPT ![r][n] = i], handles, {})
      BY <2>4
    <3>2. r = ParentDir(d) /\ MakesUnseen("create", i, r)
      BY <2>4
    <3> HIDE DEF r, Made
    <3>3. /\ HandleRecords' /\ OpensKnown' /\ Mapped' /\ handles' = handles
          /\ effect'.op = "create" /\ MadeAt(d, n)
      BY <2>1, <3>1, <3>2, MakesUnseenInv
    <3>4. QED
      BY <3>3 DEF OpensRight
  <2>5. QED
    BY <2>2, <2>3, <2>4
<1>3. QED
  BY <1>1, <1>2

\* What was removed, if anything, stood under the name n in the directory at the path of
\* d, and is gone from there.
GoneFrom(d, n) ==
    effect'.node # None =>
        /\ inodeMap[d] \in Seq(Name)
        /\ WalkIn(kind, entry, Append(inodeMap[d], n)) = effect'.asked
        /\ WalkIn(kind', entry', Append(inodeMap[d], n)) = None

LEMMA RemovesInv ==
  ASSUME FsInv, NEW d \in known, NEW n \in Name, NEW r, r = ParentDir(d),
         Child(r, n) \in Ino, \A m \in Name : entry[Child(r, n)][m] = None,
         NEW op, Removes(op, r, n)
  PROVE  /\ HandleRecords' /\ OpensKnown' /\ Mapped' /\ handles' = handles
         /\ effect'.op = op /\ GoneFrom(d, n)
<1> DEFINE i == Child(r, n)
<1>1. /\ Becomes(kind, [entry EXCEPT ![r][n] = None], handles, {})
      /\ inodeMap' = [inodeMap EXCEPT ![i] = None]
      /\ astray' = IF \E x \in Ino, y \in Name : [entry EXCEPT ![r][n] = None][x][y] = i
                   THEN astray \cup {i} ELSE astray \ {i}
      /\ effect' = Did(op, i, r)
  BY DEF Removes
<1>2. /\ handles' = handles /\ entry' = [entry EXCEPT ![r][n] = None]
      /\ kind' = Remaining(kind, entry', OpenFiles')
      /\ known' = (known \cup {}) \cap Live(entry', OpenFiles')
  BY <1>1, BecomesTree
<1>3. OpenFiles' = OpenFiles /\ HandleRecords'
  BY <1>2, RecordKept
<1>4. astray' = IF \E x \in Ino, y \in Name : entry'[x][y] = i
                THEN astray \cup {i} ELSE astray \ {i}
  BY <1>1, <1>2
<1>5. r \in Ino /\ ChildIn(kind, entry, r, n) = i /\ i \in Ino
  BY InvFacts, WalkIsWalkIn DEF Child, IsDir
<1>6. inodeMap[d] \in Seq(Name) /\ WalkIn(kind, entry, inodeMap[d]) = r
  BY <1>5, InvFacts, WalkIsWalkIn DEF ParentDir
<1>7. entry' = WithEntry(entry, r, n, None)
  BY <1>2 DEF WithEntry
<1>8. \A m \in Name : entry[i][m] = None
  OBVIOUS
<1> HIDE DEF i
<1>9. Takes(kind, entry, OpenFiles, r, n, i, kind', entry')
  BY <1>2, <1>3, <1>5, <1>7, <1>8 DEF Takes
<1>10. MapInv(kind', entry', OpenFiles, known', inodeMap', astray')
  <2>1. Forgets(known, inodeMap, astray, OpenFiles, i, entry', known', inodeMap', astray')
    BY <1>1, <1>2, <1>3, <1>4 DEF Forgets
  <2>2. QED
    BY <1>9, <2>1, MapWhenRemoved DEF FsInv, Mapped
<1>11. OpensKnown'
  BY <1>2, OpensStayKnown
<1>12. effect'.op = op /\ effect'.node = i /\ effect'.asked = i
  BY <1>1 DEF Did, Outcome
<1>13. WalkIn(kind', entry', Append(inodeMap[d], n)) = None
  BY <1>6, <1>9, NameGone DEF FsInv, Mapped
<1>14. GoneFrom(d, n)
  <2>1. WalkIn(kind, entry, Append(inodeMap[d], n)) = i
    BY <1>5, <1>6, WalkAppend
  <2>2. QED
    BY <1>6, <1>12, <1>13, <2>1 DEF GoneFrom
<1>15. QED
  BY <1>2, <1>3, <1>10, <1>11, <1>12, <1>14 DEF Mapped

LEMMA UnlinkInv ==
  ASSUME FsInv, NEW d \in known, NEW n \in Name, Unlink(d, n)
  PROVE  /\ HandleRecords' /\ OpensKnown' /\ Mapped' /\ handles' = handles
         /\ effect'.op = "unlink" /\ GoneFrom(d, n)
<1> DEFINE r == ParentDir(d)
           i == Child(r, n)
<1>1. CASE Fail("unlink")
  BY <1>1, FailInv DEF FsInv, GoneFrom, Fail
<1>2. CASE ~Fail("unlink")
  <2>1. IsFile(i) /\ Removes("unlink", r, n)
    BY <1>2 DEF Unlink
  <2>2. i \in Ino /\ \A m \in Name : entry[i][m] = None
    BY <2>1, InvFacts DEF IsFile, WellFormed
  <2> HIDE DEF r
  <2>3. r = ParentDir(d)
    BY DEF r
  <2>4. QED
    BY <2>1, <2>2, <2>3, RemovesInv
<1>3. QED
  BY <1>1, <1>2

LEMMA RmdirInv ==
  ASSUME FsInv, NEW d \in known, NEW n \in Name, Rmdir(d, n)
  PROVE  /\ HandleRecords' /\ OpensKnown' /\ Mapped' /\ handles' = handles
         /\ effect'.op = "rmdir" /\ GoneFrom(d, n)
<1> DEFINE r == ParentDir(d)
           i == Child(r, n)
<1>1. CASE Fail("rmdir")
  BY <1>1, FailInv DEF FsInv, GoneFrom, Fail
<1>2. CASE ~Fail("rmdir")
  <2>1. IsDir(i) /\ IsEmpty(i) /\ Removes("rmdir", r, n)
    BY <1>2 DEF Rmdir
  <2>2. i \in Ino /\ \A m \in Name : entry[i][m] = None
    BY <2>1 DEF IsDir, IsEmpty
  <2> HIDE DEF r
  <2>3. r = ParentDir(d)
    BY DEF r
  <2>4. QED
    BY <2>1, <2>2, <2>3, RemovesInv
<1>3. QED
  BY <1>1, <1>2

\* What was moved, if anything, stood under the name n in the directory at the path of d,
\* and stands under the name m in the directory at the path of b, where it is registered.
MovedTo(d, n, b, m) ==
    effect'.node # None =>
        /\ inodeMap[d] \in Seq(Name) /\ inodeMap[b] \in Seq(Name)
        /\ WalkIn(kind, entry, Append(inodeMap[d], n)) = effect'.node
        /\ WalkIn(kind', entry', Append(inodeMap[b], m)) = effect'.node
        /\ effect'.asked = effect'.node /\ effect'.node \in Ino
        /\ inodeMap'[effect'.node] = Append(inodeMap[b], m)

LEMMA RenameInv ==
  ASSUME FsInv, NEW d \in known, NEW n \in Name, NEW b \in known, NEW m \in Name,
         Rename(d, n, b, m)
  PROVE  /\ HandleRecords' /\ OpensKnown' /\ Mapped' /\ handles' = handles
         /\ effect'.op = "rename" /\ MovedTo(d, n, b, m)
<1> DEFINE r == ParentDir(d)
           s == ParentDir(b)
           old == Append(PathOf(d), n)
           new == Append(PathOf(b), m)
           i == Child(r, n)
           j == Child(s, m)
           e2 == IF j = i THEN entry ELSE [entry EXCEPT ![r][n] = None, ![s][m] = i]
           lost == {x \in Ino \ {i} : /\ inodeMap[x] # None
                                      /\ IsPrefix(old, inodeMap[x])
                                         \/ IsPrefix(new, inodeMap[x])}
<1>1. CASE Fail("rename")
  BY <1>1, FailInv DEF FsInv, MovedTo, Fail
<1>2. CASE ~Fail("rename")
  <2>1. /\ PathOf(d) # None /\ PathOf(b) # None /\ CanRename(r, n, s, m, new)
        /\ Becomes(kind, e2, handles, {})
        /\ inodeMap' = [inodeMap EXCEPT ![i] = new]
        /\ astray' = (astray \cup lost) \ {i}
        /\ effect' = Did("rename", i, s)
    BY <1>2 DEF Rename
  <2>2. /\ i # None /\ IsDir(s)
        /\ j # None => /\ IsDir(i) <=> IsDir(j)
                       /\ IsDir(j) => j = i \/ IsEmpty(j)
        /\ IsDir(i) => \A l \in 0 .. Len(new) - 1 : Walk(SubSeq(new, 1, l)) # i
    BY <2>1 DEF CanRename
  <2>3. r = ParentDir(d) /\ s = ParentDir(b) /\ i = Child(r, n) /\ j = Child(s, m)
    OBVIOUS
  <2>4. /\ d \in Ino /\ b \in Ino /\ PathOf(d) = inodeMap[d] /\ PathOf(b) = inodeMap[b]
        /\ inodeMap[d] \in Seq(Name) /\ inodeMap[b] \in Seq(Name)
        /\ old = Append(inodeMap[d], n) /\ new = Append(inodeMap[b], m)
    BY <2>1, InvFacts
  <2>5. Child(r, n) = i /\ Child(s, m) = j
    OBVIOUS
  <2> HIDE DEF r, s, old, new, i, j
  <2>6. lost = Misled(inodeMap, old, new, i)
    <3>1. ASSUME NEW x PROVE x \in lost <=> x \in Misled(inodeMap, old, new, i)
      BY DEF Misled
    <3>2. QED
      <4> HIDE DEF lost
      <4> QED BY <3>1
  <2> HIDE DEF lost
  <2>7. /\ r \in Ino /\ s \in Ino /\ i \in Ino
        /\ entry \in [Ino -> [Name -> Ino \cup {None}]] /\ kind[s] = "dir"
    BY <2>2, <2>5, InvFacts DEF Child, IsDir
  <2>8. /\ WalkIn(kind, entry, inodeMap[d]) = r /\ WalkIn(kind, entry, inodeMap[b]) = s
        /\ ChildIn(kind, entry, r, n) = i /\ ChildIn(kind, entry, s, m) = j
    <3>1. r = Walk(inodeMap[d]) /\ s = Walk(inodeMap[b])
      BY <2>1, <2>3, <2>4 DEF ParentDir
    <3>2. QED
      BY <2>5, <3>1, WalkIsWalkIn
  <2>9. j = i \/ Replaceable(kind, entry, i, j)
    <3>1. j \in Ino \cup {None}
      BY <2>5, <2>7, InvFacts DEF Child, IsDir
    <3>2. QED
      BY <2>2, <2>7, <3>1 DEF Replaceable, IsDir, IsEmpty
  <2>10. kind[i] = "dir" =>
           \A l \in 0 .. Len(inodeMap[b]) :
             WalkIn(kind, entry, SubSeq(Append(inodeMap[b], m), 1, l)) # i
    <3>1. Len(new) - 1 = Len(inodeMap[b])
      BY <2>4, AppendProperties, LenProperties
    <3>2. QED
      BY <2>2, <2>4, <2>7, <3>1, WalkIsWalkIn DEF IsDir
  <2>11. e2 = IF j = i THEN entry ELSE WithEntry(WithEntry(entry, r, n, None), s, m, i)
    BY DEF WithEntry
  <2> HIDE DEF e2
  <2>12. /\ handles' = handles /\ entry' = e2 /\ kind' = Remaining(kind, e2, OpenFiles')
         /\ known' = (known \cup {}) \cap Live(e2, OpenFiles')
    BY <2>1, BecomesTree
  <2>13. OpenFiles' = OpenFiles /\ HandleRecords'
    BY <2>12, RecordKept
  <2>14. inodeMap[d] # None /\ inodeMap[b] # None
    BY <2>4, TreeAssumption
  <2>15. MovesTo(kind, entry, OpenFiles, inodeMap, d, r, n, b, s, m, i, kind', entry')
    BY <2>4, <2>7, <2>8, <2>9, <2>10, <2>11, <2>12, <2>13, <2>14 DEF MovesTo
  <2>16. Renames(known, inodeMap, astray, OpenFiles, i, Append(inodeMap[d], n),
                 Append(inodeMap[b], m), entry', known', inodeMap', astray')
    BY <2>1, <2>4, <2>6, <2>12, <2>13 DEF Renames
  <2>17. /\ MapInv(kind', entry', OpenFiles, known', inodeMap', astray')
         /\ WalkIn(kind', entry', Append(inodeMap[b], m)) = i
    <3>1. MapInv(kind, entry, OpenFiles, known, inodeMap, astray)
      BY DEF FsInv, Mapped
    <3>2. QED
      BY ONLY <2>15, <2>16, <3>1, MapWhenMoved
  <2>18. OpensKnown'
    BY <2>12, OpensStayKnown
  <2>19. effect'.op = "rename" /\ effect'.node = i /\ effect'.asked = i
    BY <2>1 DEF Did, Outcome
  <2>20. WalkIn(kind, entry, Append(inodeMap[d], n)) = i
    BY <2>4, <2>8, WalkAppend
  <2>21. inodeMap'[i] = Append(inodeMap[b], m)
    BY <2>1, <2>4, <2>7, InvFacts
  <2>22. QED
    BY <2>4, <2>7, <2>12, <2>13, <2>17, <2>18, <2>19, <2>20, <2>21 DEF Mapped, MovedTo
<1>3. QED
  BY <1>1, <1>2
----------------------------------------------------------------------------
\* OpcodeNamesSubject and MutationRecorded of a tree, a map, an outcome and opcodes.
NamesIn(k, e, x, A, ops) ==
    (x.op # "none" /\ x.node # None) =>
        \A j \in 1 .. Len(ops) : SubjectIn(k, e, x, A, ops[j].path, ops[j].to)

PathsIn(M) == {M[i] : i \in Ino} \ {None}
ResolvableIn(M) == PathsIn(M) \cup {Append(p, n) : p \in PathsIn(M), n \in Name}

HiddenIn(k, e, M, i) ==
    \E p \in ResolvableIn(M) : Ignored(p) /\ (WalkIn(k, e, p) = i \/ M[i] = p)

\* An opcode of one of these names has been emitted.
Emitted(names) == \E j \in 1 .. Len(opcodes') : opcodes'[j].op \in names

RecordedNow ==
    (effect'.op # "none" /\ effect'.node # None) =>
        \/ Emitted(Tells(effect'))
        \/ HiddenIn(kind, entry, inodeMap, effect'.asked)
        \/ HiddenIn(kind', entry', inodeMap', effect'.asked)
        \/ effect'.op = "chown"
        \/ effect'.op = "write" /\ NotTraced(effect')

LEMMA NamesIs ==
    /\ OpcodeNamesSubject <=> NamesIn(kind, entry, effect, astray, opcodes)
    /\ OpcodeNamesSubject' <=> NamesIn(kind', entry', effect', astray', opcodes')
  BY DEF OpcodeNamesSubject, CarriedOut, Subject, NamesIn, SubjectIn, Walk, WalkIn,
         Child, ChildIn, IsDir

LEMMA HiddenIs ==
    /\ \A i : Hidden(i) <=> HiddenIn(kind, entry, inodeMap, i)
    /\ Hidden(effect.asked)' <=> HiddenIn(kind', entry', inodeMap', effect'.asked)
  BY DEF Hidden, HiddenIn, Resolvable, ResolvableIn, Paths, PathsIn,
         Walk, WalkIn, Child, ChildIn, IsDir, Ignored

\* What a step shows of its mutation, and all that it keeps.
StepShows ==
    /\ NamesIn(kind', entry', effect', astray', opcodes')
    /\ RecordedNow

StepGood == HandleRecords' /\ OpensKnown' /\ Mapped' /\ OpensRight /\ StepShows

LEMMA NothingShown ==
  ASSUME effect'.op = "none" \/ effect'.node = None
  PROVE  StepShows
  BY DEF StepShows, NamesIn, RecordedNow

LEMMA FailGood == ASSUME FsInv, NEW op, Fail(op) PROVE StepGood
<1>1. FsInv' /\ effect'.node = None
  BY FailInv
<1>2. OpensRight
  BY DEF Fail, OpensRight
<1>3. QED
  BY <1>1, <1>2, NothingShown DEF StepGood, FsInv

LEMMA QuietGood ==
  ASSUME FsInv, UNCHANGED <<kind, entry, inodeMap, handles, nextFh, known, astray>>, StepShows
  PROVE  StepGood
<1>1. FsInv'
  BY QuietStep
<1>2. OpensRight
  BY DEF OpensRight
<1>3. QED
  BY <1>1, <1>2 DEF StepGood, FsInv

\* What is emitted names this path; an opcode of one of these names is, when the path is
\* recordable.
Told(path, to) ==
    \A j \in 1 .. Len(opcodes') :
        opcodes'[j].path = path /\ opcodes'[j].to = to /\ Recordable(path)

Unless(path, names) == Recordable(path) => Emitted(names)

LEMMA OneOrNone ==
  ASSUME NEW name, NEW path, NEW to, NEW c \in BOOLEAN, c => Recordable(path),
         opcodes' = IF c THEN <<Op(name, path, to)>> ELSE <<>>
  PROVE  Told(path, to) /\ (c => Emitted({name}))
<1>1. CASE c
  <2>1. opcodes' = <<Op(name, path, to)>>
    BY <1>1
  <2>2. Len(opcodes') = 1 /\ opcodes'[1] = Op(name, path, to) /\ 1 \in 1 .. Len(opcodes')
    BY <2>1
  <2>3. /\ Op(name, path, to).path = path /\ Op(name, path, to).to = to
        /\ Op(name, path, to).op = name
    BY DEF Op
  <2>4. Told(path, to)
    BY <1>1, <2>2, <2>3 DEF Told
  <2>5. opcodes'[1].op \in {name}
    BY <2>2, <2>3
  <2>6. QED
    BY <2>2, <2>4, <2>5 DEF Emitted
<1>2. CASE ~c
  BY <1>2 DEF Told
<1>3. QED
  BY <1>1, <1>2

LEMMA NamedTold ==
  ASSUME NEW name, NEW d, NEW n, OnNamed(name, d, n)
  PROVE  Told(ResolveWithName(d, n), None) /\ Unless(ResolveWithName(d, n), {name})
<1> DEFINE path == ResolveWithName(d, n)
           c == Recordable(path)
<1>1. opcodes' = IF c THEN <<Op(name, path, None)>> ELSE <<>>
  BY DEF OnNamed, Emit
<1>2. c \in BOOLEAN /\ (c => Recordable(path)) /\ (~c => ~Recordable(path))
  BY DEF Recordable
<1> HIDE DEF path, c
<1>3. Told(path, None) /\ Unless(path, {name})
  BY <1>1, <1>2, OneOrNone DEF Unless
<1>4. QED
  BY <1>3 DEF path

LEMMA WriteTold ==
  ASSUME NEW i, OnWrite(i)
  PROVE  Told(inodeMap[i], None) /\ Unless(inodeMap[i], {"FileWrite"})
<1> DEFINE path == inodeMap[i]
           c == Recordable(path)
<1>1. opcodes' = IF c THEN <<Op("FileWrite", path, None)>> ELSE <<>>
  BY DEF OnWrite, Emit, Resolve
<1>2. c \in BOOLEAN /\ (c => Recordable(path)) /\ (~c => ~Recordable(path))
  BY DEF Recordable
<1> HIDE DEF path, c
<1>3. Told(path, None) /\ Unless(path, {"FileWrite"})
  BY <1>1, <1>2, OneOrNone DEF Unless
<1>4. QED
  BY <1>3 DEF path

RenameOp(path) == IF IsDir(Walk(path)) THEN "DirRename" ELSE "FileRename"

LEMMA RenameTold ==
  ASSUME NEW d, NEW n, NEW b, NEW m, OnRename(d, n, b, m)
  PROVE  /\ Told(ResolveWithName(d, n), ResolveWithName(b, m))
         /\ Recordable(ResolveWithName(b, m))
              => Unless(ResolveWithName(d, n), {RenameOp(ResolveWithName(d, n))})
<1> DEFINE path == ResolveWithName(d, n)
           to == ResolveWithName(b, m)
           name == RenameOp(path)
           c == Recordable(path) /\ Recordable(to)
<1>1. opcodes' = IF c THEN <<Op(name, path, to)>> ELSE <<>>
  BY DEF OnRename, Emit, RenameOp
<1>2. /\ c \in BOOLEAN /\ (c => Recordable(path))
      /\ Recordable(path) /\ Recordable(to) => c
  BY DEF Recordable
<1> HIDE DEF path, to, name, c
<1>3. Told(path, to) /\ (c => Emitted({name}))
  BY <1>1, <1>2, OneOrNone
<1>4. Recordable(to) => Unless(path, {name})
  BY <1>2, <1>3 DEF Unless
<1>5. QED
  BY <1>3, <1>4 DEF path, to, name

\* An element of a sequence is one of any sequence that it is a part of.
LEMMA InConcat ==
  ASSUME NEW S, NEW s \in Seq(S), NEW t \in Seq(S)
  PROVE  /\ \A j \in 1 .. Len(s) : j \in 1 .. Len(s \o t) /\ (s \o t)[j] = s[j]
         /\ \A j \in 1 .. Len(t) : /\ Len(s) + j \in 1 .. Len(s \o t)
                                   /\ (s \o t)[Len(s) + j] = t[j]
  BY ConcatProperties, LenProperties

LEMMA SetattrTold ==
  ASSUME NEW i, NEW attrs, OnSetattr(i, attrs)
  PROVE  /\ Told(inodeMap[i], None)
         /\ "size" \in attrs => Unless(inodeMap[i], {"FileTruncate"})
         /\ "mode" \in attrs \/ "times" \in attrs
              => Unless(inodeMap[i], {"SetPermissions", "SetTimestamps"})
<1> DEFINE path == inodeMap[i]
           Given(attr, name) == IF attr \in attrs THEN <<Op(name, path, None)>> ELSE <<>>
           Ops == {Op(name, path, None) : name \in {"FileTruncate", "SetPermissions",
                                                    "SetTimestamps"}}
           g1 == Given("size", "FileTruncate")
           g2 == Given("mode", "SetPermissions")
           g3 == Given("times", "SetTimestamps")
<1>1. opcodes' = IF Recordable(path) THEN g1 \o g2 \o g3 ELSE <<>>
  BY DEF OnSetattr, Emit, Resolve
<1>2. g1 \in Seq(Ops) /\ g2 \in Seq(Ops) /\ g3 \in Seq(Ops)
  <2>1. ASSUME NEW op \in Ops, NEW cond PROVE (IF cond THEN <<op>> ELSE <<>>) \in Seq(Ops)
    <3> HIDE DEF Ops
    <3> QED OBVIOUS
  <2>2. /\ Op("FileTruncate", path, None) \in Ops /\ Op("SetPermissions", path, None) \in Ops
        /\ Op("SetTimestamps", path, None) \in Ops
    OBVIOUS
  <2> HIDE DEF Ops
  <2>3. QED
    BY <2>1, <2>2
<1>3. /\ "size" \in attrs => 1 \in 1 .. Len(g1) /\ g1[1].op = "FileTruncate"
      /\ "mode" \in attrs => 1 \in 1 .. Len(g2) /\ g2[1].op = "SetPermissions"
      /\ "times" \in attrs => 1 \in 1 .. Len(g3) /\ g3[1].op = "SetTimestamps"
  BY DEF Op
<1>4. \A op \in Ops : op.path = path /\ op.to = None
  BY DEF Op
<1> HIDE DEF g1, g2, g3, Ops, path
<1>5. g1 \o g2 \in Seq(Ops) /\ (g1 \o g2) \o g3 \in Seq(Ops)
  BY <1>2, ConcatProperties
<1>6. CASE Recordable(path)
  <2>1. opcodes' = (g1 \o g2) \o g3
    BY <1>1, <1>6
  <2>2. \A j \in 1 .. Len(opcodes') : opcodes'[j] \in Ops
    BY <1>5, <2>1, ElementOfSeq
  <2>3. Told(path, None)
    BY <1>4, <1>6, <2>2 DEF Told
  <2>4. \A j \in 1 .. Len(g1 \o g2) :
           j \in 1 .. Len(opcodes') /\ opcodes'[j] = (g1 \o g2)[j]
    BY <1>2, <1>5, <2>1, InConcat
  <2>5. ASSUME "size" \in attrs PROVE Emitted({"FileTruncate"})
    <3>1. 1 \in 1 .. Len(g1 \o g2) /\ (g1 \o g2)[1] = g1[1]
      BY <1>2, <1>3, <2>5, InConcat
    <3>2. 1 \in 1 .. Len(opcodes') /\ opcodes'[1].op = "FileTruncate"
      BY <1>3, <2>4, <2>5, <3>1
    <3>3. QED
      BY <3>2 DEF Emitted
  <2>6. ASSUME "mode" \in attrs PROVE Emitted({"SetPermissions", "SetTimestamps"})
    <3> DEFINE j == Len(g1) + 1
    <3>1. j \in 1 .. Len(g1 \o g2) /\ (g1 \o g2)[j] = g2[1]
      BY <1>2, <1>3, <2>6, InConcat
    <3> HIDE DEF j
    <3>2. j \in 1 .. Len(opcodes') /\ opcodes'[j].op = "SetPermissions"
      BY <1>3, <2>4, <2>6, <3>1
    <3>3. QED
      BY <3>2 DEF Emitted
  <2>7. ASSUME "times" \in attrs PROVE Emitted({"SetPermissions", "SetTimestamps"})
    <3> DEFINE j == Len(g1 \o g2) + 1
    <3>1. j \in 1 .. Len(opcodes') /\ opcodes'[j] = g3[1]
      BY <1>2, <1>3, <1>5, <2>1, <2>7, InConcat
    <3> HIDE DEF j
    <3>2. opcodes'[j].op = "SetTimestamps"
      BY <1>3, <2>7, <3>1
    <3>3. QED
      BY <3>1, <3>2 DEF Emitted
  <2>8. QED
    BY <2>3, <2>5, <2>6, <2>7 DEF Unless, path
<1>7. CASE ~Recordable(path)
  BY <1>1, <1>7 DEF Told, Unless, path
<1>8. QED
  BY <1>6, <1>7
----------------------------------------------------------------------------
\* A path made by the recorder is made from the map.
LEMMA PathIsResolvable ==
  ASSUME NEW M, NEW d \in Ino, M[d] # None
  PROVE  /\ M[d] \in ResolvableIn(M)
         /\ \A n \in Name : Append(M[d], n) \in ResolvableIn(M)
<1>1. M[d] \in PathsIn(M)
  BY DEF PathsIn
<1>2. QED
  BY <1>1 DEF ResolvableIn

\* A path that leads to an inode, or is registered for it, hides it when it cannot be
\* recorded.
LEMMA PathHides ==
  ASSUME NEW k, NEW e, NEW M, NEW p \in ResolvableIn(M), NEW i,
         WalkIn(k, e, p) = i \/ M[i] = p, p # None, ~Recordable(p)
  PROVE  HiddenIn(k, e, M, i)
  BY DEF Recordable, HiddenIn

\* What create and mkdir made is recorded under the name that it has got.
LEMMA MadeShows ==
  ASSUME FsInv, NEW d \in known, NEW n \in Name, MadeAt(d, n), NEW name,
         \/ effect'.op = "create" /\ name = "FileCreate"
         \/ effect'.op = "mkdir" /\ name = "DirCreate",
         Told(ResolveWithName(d, n), None), Unless(ResolveWithName(d, n), {name})
  PROVE  StepShows
<1>1. CASE effect'.node = None
  BY <1>1, NothingShown
<1>2. CASE effect'.node # None
  <2> DEFINE path == Append(inodeMap[d], n)
  <2>1. /\ inodeMap[d] # None /\ inodeMap'[d] = inodeMap[d] /\ d \in Ino
        /\ path = Append(inodeMap[d], n) /\ path # None
        /\ WalkIn(kind', entry', path) = effect'.node /\ effect'.asked = effect'.node
    <3>1. inodeMap[d] \in Seq(Name) /\ path \in Seq(Name)
      BY <1>2, AppendProperties DEF MadeAt
    <3>2. QED
      BY <1>2, <3>1, TreeAssumption, InvFacts DEF MadeAt
  <2>2. path = ResolveWithName(d, n)
    BY <2>1 DEF ResolveWithName, Resolve
  <2>3. path \in ResolvableIn(inodeMap')
    BY <2>1, PathIsResolvable
  <2> HIDE DEF path
  <2>4. NamesIn(kind', entry', effect', astray', opcodes')
    BY <2>1, <2>2 DEF NamesIn, SubjectIn, Told
  <2>5. Recordable(path) \/ HiddenIn(kind', entry', inodeMap', effect'.asked)
    BY <2>1, <2>3, PathHides
  <2>6. Tells(effect') = {name}
    BY DEF Tells
  <2>7. RecordedNow
    BY <2>2, <2>5, <2>6 DEF RecordedNow, Unless
  <2>8. QED
    BY <2>4, <2>7 DEF StepShows
<1>3. QED
  BY <1>1, <1>2

\* What unlink and rmdir removed is recorded under the name that it had and that is no
\* more.
LEMMA GoneShows ==
  ASSUME FsInv, NEW d \in known, NEW n \in Name, GoneFrom(d, n), NEW name,
         \/ effect'.op = "unlink" /\ name = "FileDelete"
         \/ effect'.op = "rmdir" /\ name = "DirDelete",
         Told(ResolveWithName(d, n), None), Unless(ResolveWithName(d, n), {name})
  PROVE  StepShows
<1>1. CASE effect'.node = None
  BY <1>1, NothingShown
<1>2. CASE effect'.node # None
  <2> DEFINE path == Append(inodeMap[d], n)
  <2>1. /\ inodeMap[d] # None /\ d \in Ino /\ path # None
        /\ WalkIn(kind, entry, path) = effect'.asked
        /\ WalkIn(kind', entry', path) = None
    <3>1. inodeMap[d] \in Seq(Name) /\ path \in Seq(Name)
      BY <1>2, AppendProperties DEF GoneFrom
    <3>2. QED
      BY <1>2, <3>1, TreeAssumption, InvFacts DEF GoneFrom
  <2>2. path = ResolveWithName(d, n)
    BY <2>1 DEF ResolveWithName, Resolve
  <2>3. path \in ResolvableIn(inodeMap)
    BY <2>1, PathIsResolvable
  <2> HIDE DEF path
  <2>4. NamesIn(kind', entry', effect', astray', opcodes')
    BY <2>1, <2>2 DEF NamesIn, SubjectIn, Told
  <2>5. Recordable(path) \/ HiddenIn(kind, entry, inodeMap, effect'.asked)
    BY <2>1, <2>3, PathHides
  <2>6. Tells(effect') = {name}
    BY DEF Tells
  <2>7. RecordedNow
    BY <2>2, <2>5, <2>6 DEF RecordedNow, Unless
  <2>8. QED
    BY <2>4, <2>7 DEF StepShows
<1>3. QED
  BY <1>1, <1>2

\* What was moved is recorded under the name that it had and the one that it has got,
\* unless one of them is ignored, and as what it was when the recorder looked at it.
LEMMA MovedShows ==
  ASSUME FsInv, NEW d \in known, NEW n \in Name, NEW b \in known, NEW m \in Name,
         MovedTo(d, n, b, m), effect'.op = "rename",
         Told(ResolveWithName(d, n), ResolveWithName(b, m)),
         Recordable(ResolveWithName(b, m))
           => Unless(ResolveWithName(d, n), {RenameOp(ResolveWithName(d, n))})
  PROVE  StepShows
<1>1. CASE effect'.node = None
  BY <1>1, NothingShown
<1>2. CASE effect'.node # None
  <2> DEFINE old == Append(inodeMap[d], n)
             new == Append(inodeMap[b], m)
             i == effect'.node
  <2>1. /\ inodeMap[d] # None /\ inodeMap[b] # None /\ d \in Ino /\ i \in Ino
        /\ old # None /\ new # None /\ effect'.asked = i
        /\ WalkIn(kind, entry, old) = i /\ WalkIn(kind', entry', new) = i
        /\ inodeMap'[i] = new
    <3>1. /\ inodeMap[d] \in Seq(Name) /\ old \in Seq(Name)
          /\ inodeMap[b] \in Seq(Name) /\ new \in Seq(Name)
      BY <1>2, AppendProperties DEF MovedTo
    <3>2. QED
      BY <1>2, <3>1, TreeAssumption, InvFacts DEF MovedTo
  <2>2. old = ResolveWithName(d, n) /\ new = ResolveWithName(b, m)
    BY <2>1 DEF ResolveWithName, Resolve
  <2>3. old \in ResolvableIn(inodeMap)
    BY <2>1, PathIsResolvable
  <2>4. new \in ResolvableIn(inodeMap')
    BY <2>1, PathIsResolvable
  <2> HIDE DEF old, new, i
  <2>5. NamesIn(kind', entry', effect', astray', opcodes')
    BY <2>1, <2>2 DEF NamesIn, SubjectIn, Told, i
  <2>6. Recordable(old) \/ HiddenIn(kind, entry, inodeMap, effect'.asked)
    BY <2>1, <2>3, PathHides
  <2>7. Recordable(new) \/ HiddenIn(kind', entry', inodeMap', effect'.asked)
    BY <2>1, <2>4, PathHides
  <2>8. Tells(effect') = {RenameOp(old)}
    <3>1. Walk(old) = effect'.node
      BY <2>1, WalkIsWalkIn DEF i
    <3>2. QED
      BY <3>1 DEF Tells, RenameOp
  <2>9. RecordedNow
    BY <2>2, <2>6, <2>7, <2>8 DEF RecordedNow, Unless
  <2>10. QED
    BY <2>5, <2>9 DEF StepShows
<1>3. QED
  BY <1>1, <1>2

\* What goes by a handle that the kernel opened for i, or by the path of i.  Only a write
\* does without that path.
LEMMA ByInodeShows ==
  ASSUME FsInv, UNCHANGED <<kind, entry, inodeMap, handles, nextFh, known, astray>>,
         NEW i \in Ino, Told(inodeMap[i], None), Unless(inodeMap[i], Tells(effect')),
         effect'.op \in {"write", "truncate", "chattr"},
         effect'.op # "write" => inodeMap[i] # None,
         \/ /\ effect'.asked = i /\ (effect'.node = i => i \in known)
            /\ effect'.op \in {"write", "truncate"}
         \/ /\ inodeMap[i] # None /\ effect'.node = Walk(inodeMap[i])
            /\ effect'.asked = effect'.node
  PROVE  StepShows
<1>1. NamesIn(kind', entry', effect', astray', opcodes')
  <2>1. inodeMap[i] # None /\ i \notin astray => WalkIn(kind, entry, inodeMap[i]) = i
    BY InvFacts, WalkIsWalkIn
  <2>2. \A p : Walk(p) = WalkIn(kind, entry, p)
    BY WalkIsWalkIn
  <2>3. QED
    BY <2>1, <2>2 DEF NamesIn, SubjectIn, Told, Recordable
<1>2. RecordedNow
  <2>1. CASE inodeMap[i] = None
    <3>1. effect'.op = "write" /\ effect'.asked = i /\ (effect'.node = i => i \in known)
      BY <2>1
    <3>2. i \notin known \/ i \in astray \/ \A c \in Ino, x \in Name : entry[c][x] # i
      BY <2>1 DEF FsInv, Mapped, MapInv
    <3>3. NotTraced(effect')
      BY <3>1, <3>2 DEF NotTraced
    <3>4. QED
      BY <3>1, <3>3 DEF RecordedNow
  <2>2. CASE inodeMap[i] # None
    <3>1. inodeMap[i] \in ResolvableIn(inodeMap)
      BY <2>2, PathIsResolvable
    <3>2. \/ WalkIn(kind, entry, inodeMap[i]) = effect'.asked
          \/ inodeMap[effect'.asked] = inodeMap[i]
      BY WalkIsWalkIn
    <3>3. Recordable(inodeMap[i]) \/ HiddenIn(kind, entry, inodeMap, effect'.asked)
      BY <2>2, <3>1, <3>2, PathHides
    <3>4. QED
      BY <3>3 DEF RecordedNow, Unless
  <2>3. QED
    BY <2>1, <2>2
<1>3. QED
  BY <1>1, <1>2 DEF StepShows
----------------------------------------------------------------------------
LEMMA CreateGood ==
  ASSUME FsInv, NEW d \in Ino, NEW n \in Name, FuseCreate(d, n)
  PROVE  StepGood
<1>1. d \in known /\ OnNamed("FileCreate", d, n) /\ (Create(d, n) \/ Fail("create"))
  BY DEF FuseCreate, Delegate, KnownDir, OnCreate
<1>2. CASE Create(d, n)
  <2>1. /\ HandleRecords' /\ OpensKnown' /\ Mapped' /\ OpensRight
        /\ effect'.op = "create" /\ MadeAt(d, n)
    BY <1>1, <1>2, CreateInv
  <2>2. Told(ResolveWithName(d, n), None) /\ Unless(ResolveWithName(d, n), {"FileCreate"})
    BY <1>1, NamedTold
  <2>3. StepShows
    BY <1>1, <2>1, <2>2, MadeShows
  <2>4. QED
    BY <2>1, <2>3 DEF StepGood
<1>3. QED
  BY <1>1, <1>2, FailGood

LEMMA MkdirGood ==
  ASSUME FsInv, NEW d \in Ino, NEW n \in Name, FuseMkdir(d, n)
  PROVE  StepGood
<1>1. d \in known /\ OnNamed("DirCreate", d, n) /\ (Mkdir(d, n) \/ Fail("mkdir"))
  BY DEF FuseMkdir, Delegate, KnownDir, OnMkdir
<1>2. CASE Mkdir(d, n)
  <2>1. /\ HandleRecords' /\ OpensKnown' /\ Mapped' /\ handles' = handles
        /\ effect'.op = "mkdir" /\ MadeAt(d, n)
    BY <1>1, <1>2, MkdirInv
  <2>2. Told(ResolveWithName(d, n), None) /\ Unless(ResolveWithName(d, n), {"DirCreate"})
    BY <1>1, NamedTold
  <2>3. StepShows
    BY <1>1, <2>1, <2>2, MadeShows
  <2>4. QED
    BY <2>1, <2>3 DEF StepGood, OpensRight
<1>3. QED
  BY <1>1, <1>2, FailGood

LEMMA UnlinkGood ==
  ASSUME FsInv, NEW d \in Ino, NEW n \in Name, FuseUnlink(d, n)
  PROVE  StepGood
<1>1. d \in known /\ OnNamed("FileDelete", d, n) /\ (Unlink(d, n) \/ Fail("unlink"))
  BY DEF FuseUnlink, Delegate, KnownDir, OnUnlink
<1>2. CASE Unlink(d, n)
  <2>1. /\ HandleRecords' /\ OpensKnown' /\ Mapped' /\ handles' = handles
        /\ effect'.op = "unlink" /\ GoneFrom(d, n)
    BY <1>1, <1>2, UnlinkInv
  <2>2. Told(ResolveWithName(d, n), None) /\ Unless(ResolveWithName(d, n), {"FileDelete"})
    BY <1>1, NamedTold
  <2>3. StepShows
    BY <1>1, <2>1, <2>2, GoneShows
  <2>4. QED
    BY <2>1, <2>3 DEF StepGood, OpensRight
<1>3. QED
  BY <1>1, <1>2, FailGood

LEMMA RmdirGood ==
  ASSUME FsInv, NEW d \in Ino, NEW n \in Name, FuseRmdir(d, n)
  PROVE  StepGood
<1>1. d \in known /\ OnNamed("DirDelete", d, n) /\ (Rmdir(d, n) \/ Fail("rmdir"))
  BY DEF FuseRmdir, Delegate, KnownDir, OnRmdir
<1>2. CASE Rmdir(d, n)
  <2>1. /\ HandleRecords' /\ OpensKnown' /\ Mapped' /\ handles' = handles
        /\ effect'.op = "rmdir" /\ GoneFrom(d, n)
    BY <1>1, <1>2, RmdirInv
  <2>2. Told(ResolveWithName(d, n), None) /\ Unless(ResolveWithName(d, n), {"DirDelete"})
    BY <1>1, NamedTold
  <2>3. StepShows
    BY <1>1, <2>1, <2>2, GoneShows
  <2>4. QED
    BY <2>1, <2>3 DEF StepGood, OpensRight
<1>3. QED
  BY <1>1, <1>2, FailGood

LEMMA RenameGood ==
  ASSUME FsInv, NEW d \in Ino, NEW n \in Name, NEW b \in Ino, NEW m \in Name,
         FuseRename(d, n, b, m)
  PROVE  StepGood
<1>1. /\ d \in known /\ b \in known /\ OnRename(d, n, b, m)
      /\ Rename(d, n, b, m) \/ Fail("rename")
  BY DEF FuseRename, Delegate, KnownDir
<1>2. CASE Rename(d, n, b, m)
  <2>1. /\ HandleRecords' /\ OpensKnown' /\ Mapped' /\ handles' = handles
        /\ effect'.op = "rename" /\ MovedTo(d, n, b, m)
    BY <1>1, <1>2, RenameInv
  <2>2. /\ Told(ResolveWithName(d, n), ResolveWithName(b, m))
        /\ Recordable(ResolveWithName(b, m))
             => Unless(ResolveWithName(d, n), {RenameOp(ResolveWithName(d, n))})
    BY <1>1, RenameTold
  <2>3. StepShows
    BY <1>1, <2>1, <2>2, MovedShows
  <2>4. QED
    BY <2>1, <2>3 DEF StepGood, OpensRight
<1>3. QED
  BY <1>1, <1>2, FailGood

LEMMA WriteGood ==
  ASSUME FsInv, NEW f \in Fh, FuseWrite(f)
  PROVE  StepGood
<1> DEFINE i == handles[f].node
<1>1. /\ handles[f] # None /\ OnWrite(i)
      /\ Write(f) \/ Fail("write")
  BY DEF FuseWrite, Delegate
<1>2. CASE Write(f) /\ ~Fail("write")
  <2>1. /\ effect' = Outcome("write", TRUE, handles[f].node, handles[f].file, None)
        /\ UNCHANGED <<kind, entry, inodeMap, handles, nextFh, known, astray>>
    BY <1>2 DEF Write
  <2>2. i \in Ino /\ (handles[f].node = handles[f].file => i \in known)
    BY <1>1 DEF FsInv, HandleRecords, Handle, OpensKnown
  <2>3. effect'.op = "write" /\ effect'.asked = i /\ effect'.node = handles[f].file
    BY <2>1 DEF Outcome
  <2>4. Told(inodeMap[i], None) /\ Unless(inodeMap[i], Tells(effect'))
    BY <1>1, <2>3, WriteTold DEF Tells
  <2> HIDE DEF i
  <2>5. i = handles[f].node
    BY DEF i
  <2>6. effect'.asked = i /\ (effect'.node = i => i \in known)
    BY <2>2, <2>3, <2>5
  <2>7. StepShows
    BY <2>1, <2>2, <2>3, <2>4, <2>6, ByInodeShows
  <2>8. QED
    BY <2>1, <2>7, QuietGood
<1>3. QED
  BY <1>1, <1>2, FailGood

LEMMA TruncateGood ==
  ASSUME FsInv, NEW i \in Ino, NEW f \in Fh \cup {None}, NEW more, FuseTruncate(i, f, more)
  PROVE  StepGood
<1> DEFINE byFh == f # None /\ handles[f] # None /\ handles[f].write
           there == IF PathOf(i) = None THEN None ELSE Walk(PathOf(i))
<1>1. /\ i \in known /\ OnSetattr(i, {"size"} \cup more)
      /\ Truncate(i, f) \/ Fail("truncate")
  BY DEF FuseTruncate, Delegate, KnownFile
<1>2. CASE Truncate(i, f) /\ ~Fail("truncate")
  <2>1. /\ PathOf(i) # None
        /\ \E ok \in BOOLEAN :
              effect' = IF byFh
                        THEN Outcome("truncate", ok, i, handles[f].file, None)
                        ELSE Outcome("truncate", ok, there, there, None)
        /\ UNCHANGED <<kind, entry, inodeMap, handles, nextFh, known, astray>>
    BY <1>2 DEF Truncate
  <2>2. inodeMap[i] # None /\ there = Walk(inodeMap[i])
    BY <2>1, InvFacts
  <2>3. Told(inodeMap[i], None) /\ Unless(inodeMap[i], {"FileTruncate"})
    <3>1. "size" \in {"size"} \cup more
      OBVIOUS
    <3>2. QED
      BY <1>1, <3>1, SetattrTold
  <2>4. /\ effect'.op = "truncate"
        /\ \/ effect'.asked = i
           \/ effect'.node = Walk(inodeMap[i]) /\ effect'.asked = effect'.node
    <3>1. CASE byFh
      BY <2>1, <3>1 DEF Outcome
    <3>2. CASE ~byFh
      BY <2>1, <2>2, <3>2 DEF Outcome
    <3>3. QED
      BY <3>1, <3>2
  <2>5. Unless(inodeMap[i], Tells(effect'))
    BY <2>3, <2>4 DEF Tells
  <2>6. StepShows
    BY <1>1, <2>1, <2>2, <2>3, <2>4, <2>5, ByInodeShows
  <2>7. QED
    BY <2>1, <2>6, QuietGood
<1>3. QED
  BY <1>1, <1>2, FailGood

LEMMA ChattrGood ==
  ASSUME FsInv, NEW i \in Ino, NEW attrs \in Attributes, FuseChattr(i, attrs)
  PROVE  StepGood
<1> DEFINE there == IF PathOf(i) = None THEN None ELSE Walk(PathOf(i))
           op == IF attrs = {"owner"} THEN "chown" ELSE "chattr"
<1>1. OnSetattr(i, attrs) /\ (Chattr(i, op) \/ Fail(op))
  BY DEF FuseChattr, Delegate
<1>2. op = "chown" \/ (op = "chattr" /\ ("mode" \in attrs \/ "times" \in attrs))
  BY DEF Attributes
<1> HIDE DEF op
<1>3. CASE Chattr(i, op) /\ ~Fail(op)
  <2>1. /\ there # None /\ \E ok \in BOOLEAN : effect' = Outcome(op, ok, there, there, None)
        /\ UNCHANGED <<kind, entry, inodeMap, handles, nextFh, known, astray>>
    BY <1>3 DEF Chattr
  <2>2. /\ effect'.op = op /\ effect'.node = there /\ effect'.asked = there
        /\ inodeMap[i] # None /\ there = Walk(inodeMap[i])
    BY <2>1, InvFacts DEF Outcome
  <2>3. Told(inodeMap[i], None)
    BY <1>1, SetattrTold
  <2> HIDE DEF there
  <2>4. StepShows
    <3>1. CASE op = "chown"
      <4>1. WalkIn(kind', entry', inodeMap[i]) = effect'.node
        BY <2>1, <2>2, WalkIsWalkIn
      <4>2. QED
        BY <2>2, <2>3, <3>1, <4>1 DEF StepShows, NamesIn, RecordedNow, SubjectIn, Told
    <3>2. CASE op = "chattr"
      <4>1. Unless(inodeMap[i], Tells(effect'))
        BY <1>1, <1>2, <2>2, <3>2, SetattrTold DEF Tells
      <4>2. QED
        BY <2>1, <2>2, <2>3, <3>2, <4>1, ByInodeShows
    <3>3. QED
      BY <1>2, <3>1, <3>2
  <2>5. QED
    BY <2>1, <2>4, QuietGood
<1>4. QED
  BY <1>1, <1>3, FailGood

LEMMA QueryGood == ASSUME FsInv, Query PROVE StepGood
<1>1. effect' = NoEffect
  BY DEF Query, FuseLookup, FuseReaddir, FuseOpen, FuseRelease, Lookup, Readdir, Open, Release
<1>2. StepShows
  BY <1>1, NothingShown DEF NoEffect, Outcome
<1>3. ASSUME NEW d \in Ino, NEW n \in Name, FuseLookup(d, n) PROVE StepGood
  <2>1. Lookup(d, n) /\ handles' = handles
    BY <1>3 DEF FuseLookup, Lookup
  <2>2. HandleRecords' /\ OpensKnown' /\ Mapped'
    BY <2>1, LookupKeeps
  <2>3. QED
    BY <1>2, <2>1, <2>2 DEF StepGood, OpensRight
<1>4. ASSUME NEW d \in Ino, FuseReaddir(d) PROVE StepGood
  <2>1. Readdir(d) /\ handles' = handles
    BY <1>4 DEF FuseReaddir, Readdir
  <2>2. HandleRecords' /\ OpensKnown' /\ Mapped'
    BY <2>1, ReaddirKeeps
  <2>3. QED
    BY <1>2, <2>1, <2>2 DEF StepGood, OpensRight
<1>5. ASSUME NEW i \in Ino, NEW write \in BOOLEAN, FuseOpen(i, write) PROVE StepGood
  <2>1. Open(i, write)
    BY <1>5 DEF FuseOpen
  <2>2. /\ HandleRecords' /\ OpensKnown' /\ Mapped'
        /\ nextFh \in Fh /\ \A f \in Fh \ {nextFh} : handles'[f] = handles[f]
        /\ i \notin astray => handles'[nextFh].file = i
        /\ handles'[nextFh].node = i
    BY <2>1, OpenKeeps
  <2>3. QED
    BY <1>2, <2>2 DEF StepGood, OpensRight
<1>6. ASSUME NEW f \in Fh, FuseRelease(f) PROVE StepGood
  <2>1. Release(f)
    BY <1>6 DEF FuseRelease
  <2>2. HandleRecords' /\ OpensKnown' /\ Mapped'
    BY <2>1, ReleaseKeeps
  <2>3. handles' = [handles EXCEPT ![f] = None]
    BY <2>1, BecomesTree DEF Release
  <2>4. \A g \in Fh : handles'[g] # None => handles'[g] = handles[g]
    BY <2>3, RecordDropped
  <2>5. QED
    BY <1>2, <2>2, <2>4 DEF StepGood, OpensRight
<1>7. QED
  BY <1>3, <1>4, <1>5, <1>6 DEF Query

LEMMA ReplyGood == ASSUME FsInv, Reply PROVE StepGood
<1>1. /\ UNCHANGED <<kind, entry, inodeMap, handles, nextFh, known, astray>>
      /\ effect'.op = "none"
  BY DEF Reply, NoEffect, Outcome
<1>2. QED
  BY <1>1, NothingShown, QuietGood

LEMMA NextIsGood == ASSUME FsInv, ObsNext PROVE StepGood
<1>1. CASE Mutation
  <2>1. ASSUME NEW f \in Fh, FuseWrite(f) PROVE StepGood
    BY <2>1, WriteGood
  <2>2. ASSUME NEW d \in Ino, NEW n \in Name,
               FuseCreate(d, n) \/ FuseMkdir(d, n) \/ FuseUnlink(d, n) \/ FuseRmdir(d, n)
        PROVE  StepGood
    BY <2>2, CreateGood, MkdirGood, UnlinkGood, RmdirGood
  <2>3. ASSUME NEW d \in Ino, NEW b \in Ino, NEW n \in Name, NEW m \in Name,
               FuseRename(d, n, b, m)
        PROVE  StepGood
    BY <2>3, RenameGood
  <2>4. ASSUME NEW i \in Ino, NEW f \in Fh \cup {None}, NEW more, FuseTruncate(i, f, more)
        PROVE  StepGood
    BY <2>4, TruncateGood
  <2>5. ASSUME NEW i \in Ino, NEW attrs \in Attributes, FuseChattr(i, attrs) PROVE StepGood
    BY <2>5, ChattrGood
  <2>6. QED
    BY <1>1, <2>1, <2>2, <2>3, <2>4, <2>5 DEF Mutation
<1>2. QED
  BY <1>1, QueryGood, ReplyGood DEF ObsNext
----------------------------------------------------------------------------
LEMMA InitIsGood == ASSUME ObsInit PROVE FsInv /\ effect = NoEffect
<1>1. /\ kind \in {t.kind : t \in Trees} /\ known = {Root}
      /\ inodeMap = [i \in Ino |-> IF i = Root THEN <<>> ELSE None]
      /\ handles = [f \in Fh |-> None] /\ nextFh = 1 /\ astray = {} /\ effect = NoEffect
  BY DEF ObsInit, Init, TreeInit
<1>2. WellFormed(kind, entry, {})
  <2>1. PICK t \in Trees : kind = t.kind /\ entry = t.entry
    BY DEF ObsInit, Init, TreeInit
  <2>2. QED
    BY <2>1, TreeAssumption
<1>3. OpenFiles = {}
  <2>1. \A f \in Fh : handles[f] = None
    BY <1>1
  <2>2. QED
    BY <2>1 DEF OpenFiles
<1>4. HandleInv /\ HandleRecords /\ OpensKnown
  BY <1>1, FsAssumption DEF HandleInv, HandlesType, HandlesBelow, Fh, HandleRecords, OpensKnown
<1>5. <<>> \in Seq(Name) /\ <<>> # None /\ WalkIn(kind, entry, <<>>) = Root /\ Root \in Ino
  BY EmptySeq, TreeAssumption, WalkSteps
<1>6. /\ inodeMap \in [Ino -> Seq(Name) \cup {None}] /\ inodeMap[Root] = <<>>
      /\ \A i \in Ino : inodeMap[i] # None => i = Root
  BY <1>1, <1>5
<1>7. kind[Root] # "free"
  BY <1>2 DEF WellFormed
<1>8. MapInv(kind, entry, {}, known, inodeMap, astray)
  BY <1>1, <1>2, <1>5, <1>6, <1>7 DEF MapInv
<1>9. QED
  BY <1>1, <1>3, <1>4, <1>8 DEF FsInv, Mapped

LEMMA StepKeepsFsInv == ASSUME FsInv, [ObsNext]_obsVars PROVE FsInv'
<1>1. CASE ObsNext
  BY <1>1, NextIsGood, StepMoves, MovesKeepHandles DEF FsInv, StepGood
<1>2. CASE UNCHANGED obsVars
  BY <1>2, QuietStep DEF obsVars, fsVars
<1>3. QED
  BY <1>1, <1>2

\* The inductive invariant, for every source tree that a file system can hold, any
\* number of inodes, names and handles, and every order of requests, failures and replies.
THEOREM FsInvariance == ObsSpec => []FsInv
<1>1. ObsInit => FsInv
  BY InitIsGood
<1>2. FsInv /\ [ObsNext]_obsVars => FsInv'
  BY StepKeepsFsInv
<1>3. QED
  BY <1>1, <1>2, PTL DEF ObsSpec

\* Type correctness.
THEOREM TypeInvariance == ObsSpec => []TypeOK
<1>1. FsInv => TypeOK
  <2>1. ASSUME FsInv PROVE TypeOK
    <3>1. HandleRecords /\ nextFh \in 1 .. MaxFh + 1
      BY <2>1 DEF FsInv, HandleInv, HandlesType
    <3>2. \A i \in Ino : inodeMap[i] # None => inodeMap[i] \in Seq(Name)
      BY <2>1, InvFacts
    <3>3. QED
      BY <2>1, <3>1, <3>2, InvFacts DEF TypeOK, HandleRecords, Handle
  <2>2. QED
    BY <2>1
<1>2. QED
  BY <1>1, FsInvariance, PTL

\* The path registered for an inode leads to it, unless it is astray (passthrough.rs: the
\* handlers that take an inode number act on that path).
THEOREM MapIsRight == ObsSpec => []MapLeadsBack
<1>1. FsInv => MapLeadsBack
  BY InvFacts DEF MapLeadsBack
<1>2. QED
  BY <1>1, FsInvariance, PTL

\* What the kernel knows and can name has a path in the map, unless it is astray.
THEOREM MapIsComplete == ObsSpec => []ReachableIsMapped
<1>1. FsInv => ReachableIsMapped
  <2>1. ASSUME FsInv, NEW d \in known, NEW n \in Name, entry[d][n] \in known \ astray
        PROVE  inodeMap[entry[d][n]] # None
    <3>1. d \in Ino
      BY <2>1, InvFacts
    <3>2. QED
      BY <2>1, <3>1 DEF FsInv, Mapped, MapInv
  <2>2. QED
    BY <2>1 DEF ReachableIsMapped
<1>2. QED
  BY <1>1, FsInvariance, PTL

\* A new handle has the next number and is of the file that was asked for, unless that
\* inode was astray (passthrough.rs open and create).
THEOREM OpensAreRight == ObsSpec => OpensWhatWasAsked
<1>1. FsInv /\ [ObsNext]_obsVars
        => [\A f \in Fh : handles[f] = None /\ handles'[f] # None =>
              /\ f = nextFh
              /\ handles'[f].node \notin astray
                   => handles'[f].file = handles'[f].node]_obsVars
  BY NextIsGood DEF StepGood, OpensRight
<1>2. QED
  BY <1>1, FsInvariance, PTL DEF ObsSpec, OpensWhatWasAsked

\* What is recorded of a mutation names what was mutated: the recorder, which looks before
\* the handler acts, and the handler have read the same map.
THEOREM MutationsAreNamed == ObsSpec => []OpcodeNamesSubject
<1>1. ObsInit => OpcodeNamesSubject
  BY InitIsGood DEF OpcodeNamesSubject, CarriedOut, NoEffect, Outcome
<1>2. FsInv /\ OpcodeNamesSubject /\ [ObsNext]_obsVars => OpcodeNamesSubject'
  <2>1. ASSUME FsInv, ObsNext PROVE OpcodeNamesSubject'
    BY <2>1, NextIsGood, NamesIs DEF StepGood, StepShows
  <2>2. ASSUME OpcodeNamesSubject, UNCHANGED obsVars PROVE OpcodeNamesSubject'
    BY <2>2, NamesIs DEF obsVars, fsVars
  <2>3. QED
    BY <2>1, <2>2
<1>3. QED
  BY <1>1, <1>2, FsInvariance, PTL DEF ObsSpec

\* An opcode tells of every change that a request makes, of its kind, a rename's and an
\* attribute's among them, also when the caller was told that it failed.  Exempt are what
\* has an ignored path before or after, a change of the owner alone, and a write through a
\* handle whose inode has lost its name or went astray (recorder.rs reads the map that
\* the handlers of passthrough.rs go by).
THEOREM MutationsAreRecorded == ObsSpec => MutationRecorded
<1>1. ASSUME FsInv, ObsNext
      PROVE  CarriedOut' =>
               \/ \E k \in 1 .. Len(opcodes') : opcodes'[k].op \in Tells(effect')
               \/ Hidden(effect'.asked) \/ Hidden(effect.asked)'
               \/ effect'.op = "chown"
               \/ effect'.op = "write" /\ NotTraced(effect')
  <2>1. RecordedNow
    BY <1>1, NextIsGood DEF StepGood, StepShows
  <2>2. CarriedOut' <=> effect'.op # "none" /\ effect'.node # None
    BY DEF CarriedOut
  <2>3. QED
    BY <2>1, <2>2, HiddenIs DEF RecordedNow, Emitted
<1>2. FsInv /\ [ObsNext]_obsVars
        => [CarriedOut' =>
              \/ \E k \in 1 .. Len(opcodes') : opcodes'[k].op \in Tells(effect')
              \/ Hidden(effect'.asked) \/ Hidden(effect.asked)'
              \/ effect'.op = "chown"
              \/ effect'.op = "write" /\ NotTraced(effect')]_obsVars
  BY <1>1
<1>3. QED
  BY <1>2, FsInvariance, PTL DEF ObsSpec, MutationRecorded
=============================================================================
