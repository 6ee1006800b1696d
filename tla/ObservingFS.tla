---------------------------- MODULE ObservingFS ----------------------------
(***************************************************************************)
(* filesystems/observing.rs: the wrapper the kernel talks to.  A mutation  *)
(* first notifies the observers, here the opcode recorder, and is then     *)
(* delegated to PassthroughFS, which may still refuse it; what does not    *)
(* change files is delegated alone.  The kernel sends only what its        *)
(* dentries allow: inodes it has looked up, children it believes in.       *)
(***************************************************************************)
EXTENDS OpcodeRecorder

obsVars == <<fsVars, opcodes>>

ObsInit == Init /\ opcodes = <<>>

\* The system call behind a handler may fail for reasons outside the tree
\* (permissions, no space, I/O error).
Delegate(handler, op) == handler \/ Fail(op)

Observe(ops) == opcodes' = ops

\* fuser takes the next request when the handler of this one has replied.
Idle == effect = NoEffect
----------------------------------------------------------------------------
FuseWrite(f) ==
    /\ Idle
    /\ handles[f] # None /\ handles[f].write
    /\ OnWrite(handles[f].node)
    /\ Delegate(Write(f), "write")

FuseCreate(d, n) ==
    /\ Idle
    /\ KnownDir(d) /\ entry[d][n] = None
    /\ OnCreate(d, n)
    /\ Delegate(Create(d, n), "create")

FuseMkdir(d, n) ==
    /\ Idle
    /\ KnownDir(d) /\ entry[d][n] = None
    /\ OnMkdir(d, n)
    /\ Delegate(Mkdir(d, n), "mkdir")

FuseUnlink(d, n) ==
    /\ Idle
    /\ KnownDir(d) /\ KnownFile(entry[d][n])
    /\ OnUnlink(d, n)
    /\ Delegate(Unlink(d, n), "unlink")

FuseRmdir(d, n) ==
    /\ Idle
    /\ KnownDir(d) /\ KnownDir(entry[d][n])
    /\ OnRmdir(d, n)
    /\ Delegate(Rmdir(d, n), "rmdir")

FuseRename(d, n, b, m) ==
    /\ Idle
    /\ KnownDir(d) /\ entry[d][n] \in known /\ KnownDir(b)
    /\ entry[b][m] \in known \cup {None}
    /\ <<d, n>> # <<b, m>>
    /\ OnRename(d, n, b, m)
    /\ Delegate(Rename(d, n, b, m), "rename")

\* The times and the mode are set together with a size in one setattr now and then;
\* uid and gid reach PassthroughFS but not the observers.
FuseTruncate(i, f, more) ==
    /\ Idle
    /\ KnownFile(i)
    /\ f # None => handles[f] # None /\ handles[f].node = i
    /\ OnSetattr(i, {"size"} \cup more)
    /\ Delegate(Truncate(i, f), "truncate")

FuseChattr(i, attrs) ==
    LET op == IF attrs = {"owner"} THEN "chown" ELSE "chattr"
    IN  /\ Idle
        /\ i \in known
        /\ OnSetattr(i, attrs)
        /\ Delegate(Chattr(i, op), op)

Reply ==
    /\ ~Idle
    /\ effect' = NoEffect
    /\ Observe(<<>>)
    /\ UNCHANGED <<kind, entry, inodeMap, handles, nextFh, known, astray>>

\* Handlers that are delegated without a notification.
FuseLookup(d, n) == Idle /\ Lookup(d, n) /\ Observe(<<>>)
FuseReaddir(d) == Idle /\ Readdir(d) /\ Observe(<<>>)
FuseOpen(i, write) == Idle /\ Open(i, write) /\ Observe(<<>>)
FuseRelease(f) == Idle /\ Release(f) /\ Observe(<<>>)

Attributes == {{"mode"}, {"times"}, {"owner"}, {"mode", "owner"}}

Mutation ==
    \/ \E f \in Fh : FuseWrite(f)
    \/ \E d \in Ino, n \in Name :
          FuseCreate(d, n) \/ FuseMkdir(d, n) \/ FuseUnlink(d, n) \/ FuseRmdir(d, n)
    \/ \E d, b \in Ino, n, m \in Name : FuseRename(d, n, b, m)
    \/ \E i \in Ino, f \in Fh \cup {None}, more \in {{}, {"mode", "times"}} :
          FuseTruncate(i, f, more)
    \/ \E i \in Ino, attrs \in Attributes : FuseChattr(i, attrs)

Query ==
    \/ \E d \in Ino, n \in Name : FuseLookup(d, n)
    \/ \E d \in Ino : FuseReaddir(d)
    \/ \E i \in Ino, write \in BOOLEAN : FuseOpen(i, write)
    \/ \E f \in Fh : FuseRelease(f)

ObsNext == Mutation \/ Query \/ Reply

ObsSpec == ObsInit /\ [][ObsNext]_obsVars
----------------------------------------------------------------------------
Paths == {inodeMap[i] : i \in Ino} \ {None}

TypeOK ==
    /\ kind \in [Ino -> {"free", "file", "dir"}]
    /\ entry \in [Ino -> [Name -> Ino \cup {None}]]
    /\ \A i \in Ino : inodeMap[i] # None => inodeMap[i] \in Seq(Name)
    /\ \A f \in Fh : handles[f] # None =>
          handles[f] \in [node : Ino, file : Ino, write : BOOLEAN]
    /\ nextFh \in 1 .. MaxFh + 1
    /\ known \subseteq {i \in Ino : kind[i] # "free"}
    /\ astray \subseteq Ino

\* The map is right: the path registered for an inode leads to that inode, unless a
\* rename above or over it, or the removal of another of its names, went before
\* (passthrough.rs:70-73; unlink, rmdir and rename keep it so).
MapLeadsBack ==
    \A i \in Ino \ astray : inodeMap[i] # None => Walk(inodeMap[i]) = i

\* Nothing the kernel can still reach by name is missing from the map, with the same
\* exception.
ReachableIsMapped ==
    \A d \in known, n \in Name :
        entry[d][n] \in known \ astray => inodeMap[entry[d][n]] # None

\* A handle that is open belongs to the file the kernel asked for, unless that inode
\* had gone astray when it was opened, and no two opens share a handle number.
OpensWhatWasAsked ==
    [][\A f \in Fh : handles[f] = None /\ handles'[f] # None =>
          /\ f = nextFh
          /\ handles'[f].node \notin astray => handles'[f].file = handles'[f].node]_obsVars

\* An open file cannot be swapped for another under its handle.
HandlesStable ==
    [][\A f \in Fh : handles[f] # None => handles'[f] \in {handles[f], None}]_obsVars

\* A mutation has been carried out, whatever was replied: a setattr or a creation whose
\* last step fails is not undone.
CarriedOut == effect.op # "none" /\ effect.node # None

\* The opcodes of a mutation name the very entry that it changed: recorder and handler
\* read the same map.  Where the handler goes by a handle instead, the two
\* agree only on inodes that are not astray.
Subject(op, path, to) ==
    CASE op \in {"create", "mkdir"} -> Walk(path) = effect.node
      [] op \in {"unlink", "rmdir"} -> Walk(path) = None
      [] op = "rename" -> Walk(to) = effect.node
      [] op = "chattr" -> Walk(path) = effect.node
      [] OTHER -> \/ effect.asked \in astray \/ effect.asked # effect.node
                  \/ Walk(path) = effect.node

OpcodeNamesSubject ==
    CarriedOut =>
        \A k \in 1 .. Len(opcodes) : Subject(effect.op, opcodes[k].path, opcodes[k].to)

\* What opcode.rs:7-12 and index.md:8 ask for without exception: an opcode tells which
\* file was mutated.
WritesNameTheirFile ==
    effect.ok /\ effect.op = "write" /\ opcodes # <<>> =>
        Walk(opcodes[1].path) = effect.node

\* Paths that the recorder makes from the map: as registered, or of a child there.
Resolvable == Paths \cup {Append(p, n) : p \in Paths, n \in Name}

\* An ignored path leads to the inode, or is registered for it.
Hidden(i) == \E p \in Resolvable : Ignored(p) /\ (Walk(p) = i \/ inodeMap[i] = p)

\* The opcodes that tell of a mutation.
Tells(e) ==
    CASE e.op = "write" -> {"FileWrite"}
      [] e.op = "truncate" -> {"FileTruncate"}
      [] e.op = "chattr" -> {"SetPermissions", "SetTimestamps"}
      [] e.op = "create" -> {"FileCreate"}
      [] e.op = "mkdir" -> {"DirCreate"}
      [] e.op = "unlink" -> {"FileDelete"}
      [] e.op = "rmdir" -> {"DirDelete"}
      [] e.op = "rename" -> IF IsDir(e.node) THEN {"DirRename"} ELSE {"FileRename"}
      [] OTHER -> {}

\* A handle whose inode has lost its name or its right path, or was astray when opened.
NotTraced(e) ==
    \/ e.asked \in astray \/ e.asked # e.node
    \/ \A d \in Ino, n \in Name : entry[d][n] # e.asked

\* Whatever a request has changed, a name, a content or an attribute, an opcode of its
\* kind tells it, also when the caller was told that it failed (passthrough.rs:914); a
\* rename also tells whether a directory was moved.  Excepted are what has an ignored
\* path before or after, a change of the owner alone, and a write through a handle that
\* is not traced: what goes by path is refused when the recorder would find no path.
MutationRecorded ==
    [][CarriedOut' =>
          \/ \E k \in 1 .. Len(opcodes') : opcodes'[k].op \in Tells(effect')
          \/ Hidden(effect'.asked) \/ Hidden(effect.asked)'
          \/ effect'.op = "chown"
          \/ effect'.op = "write" /\ NotTraced(effect')]_obsVars
============================================================================
