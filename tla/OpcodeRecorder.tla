-------------------------- MODULE OpcodeRecorder --------------------------
(***************************************************************************)
(* operations/recorder.rs: the observer that turns a notification of the   *)
(* filesystem into opcodes.  It shares the inode map of PassthroughFS,     *)
(* names files by path, and stays silent when it finds no path or an       *)
(* ignored one.  How opcodes are numbered and queued is in RecordPipeline. *)
(***************************************************************************)
EXTENDS PassthroughFS

CONSTANT IgnoredDirs   \* top-level directories of the active ignore filters

VARIABLE opcodes       \* the opcodes the last notification emitted

\* An opcode without its payload; `to` is the new path of a rename.
Op(name, path, to) == [op |-> name, path |-> path, to |-> to]

Resolve(i) == inodeMap[i]

ResolveWithName(d, n) == IF Resolve(d) = None THEN None ELSE Append(Resolve(d), n)

\* path_starts_with_dir: only the first component counts.
Ignored(path) == path # <<>> /\ Head(path) \in IgnoredDirs

Recordable(path) == path # None /\ ~Ignored(path)

Emit(ops) == opcodes' = ops

OnWrite(i) ==
    Emit(IF Recordable(Resolve(i)) THEN <<Op("FileWrite", Resolve(i), None)>> ELSE <<>>)

\* The callbacks that carry a parent and a name.
OnNamed(name, d, n) ==
    LET path == ResolveWithName(d, n)
    IN  Emit(IF Recordable(path) THEN <<Op(name, path, None)>> ELSE <<>>)

OnCreate(d, n) == OnNamed("FileCreate", d, n)
OnUnlink(d, n) == OnNamed("FileDelete", d, n)
OnMkdir(d, n) == OnNamed("DirCreate", d, n)
OnRmdir(d, n) == OnNamed("DirDelete", d, n)

\* Mutant: the paths are swapped.
OnRenameSwapped(d, n, b, m) ==
    LET old == ResolveWithName(d, n)
        new == ResolveWithName(b, m)
    IN  Emit(IF Recordable(old) /\ Recordable(new)
             THEN <<Op(IF IsDir(Walk(old)) THEN "DirRename" ELSE "FileRename", new, old)>>
             ELSE <<>>)

\* A rename is recorded only when both of its paths are.
OnRename(d, n, b, m) ==
    LET old == ResolveWithName(d, n)
        new == ResolveWithName(b, m)
    IN  Emit(IF Recordable(old) /\ Recordable(new)
             THEN <<Op(IF IsDir(Walk(old)) THEN "DirRename" ELSE "FileRename", old, new)>>
             ELSE <<>>)

\* Mutant: without a size there is nothing to tell.
OnSetattrOfSize(i, attrs) ==
    LET path == Resolve(i)
        Given(attr, name) == IF attr \in attrs THEN <<Op(name, path, None)>> ELSE <<>>
    IN  Emit(IF Recordable(path) /\ "size" \in attrs
             THEN Given("size", "FileTruncate") \o Given("mode", "SetPermissions")
                  \o Given("times", "SetTimestamps")
             ELSE <<>>)

\* One opcode for each attribute that is given, in this order; the owner is not
\* among what ObservingFS passes on.
OnSetattr(i, attrs) ==
    LET path == Resolve(i)
        Given(attr, name) == IF attr \in attrs THEN <<Op(name, path, None)>> ELSE <<>>
    IN  Emit(IF Recordable(path)
             THEN Given("size", "FileTruncate") \o Given("mode", "SetPermissions")
                  \o Given("times", "SetTimestamps")
             ELSE <<>>)
============================================================================
