---------------------------- MODULE DumpObserver ----------------------------
(***************************************************************************)
(* operations/dump_observer.rs: the observer of ize_mount_fd --dump.  A    *)
(* notification becomes an entry of a log file outside the mount, named by *)
(* path through the inode map.  To tell what kind of thing is removed or   *)
(* renamed, it stats the path below the directory that is mounted over.    *)
(***************************************************************************)
EXTENDS FdPassthroughFS

CONSTANT IgnoredDirs   \* top-level directories of the ignore filters

VARIABLE logged        \* the entries of the last notification

Entry(type, path, to) == [type |-> type, path |-> path, to |-> to]

ResolveInode(i) == inodeMap[i]

ResolveWithName(d, n) == IF inodeMap[d] = None THEN None ELSE Append(inodeMap[d], n)

\* Unresolved and ignored paths are silently dropped.
Loggable(path) == path # None /\ (path = <<>> \/ Head(path) \notin IgnoredDirs)

\* log_entry; an observer that is not there logs nothing.
LogEntries(entries) == logged' = entries

One(loggable, e) == IF loggable THEN <<e>> ELSE <<>>

\* The callbacks that name one path, and the type of entry they make.
OnNamed(type, d, n) ==
    LogEntries(One(Loggable(ResolveWithName(d, n)),
                   Entry(type, ResolveWithName(d, n), None)))

OnCreate(d, n) == OnNamed("FileCreate", d, n)
OnMkdir(d, n) == OnNamed("DirCreate", d, n)
OnRmdir(d, n) == OnNamed("DirDelete", d, n)

\* symlink_metadata of the path tells files and symbolic links apart.
OnUnlink(d, n) == OnNamed("FileDelete", d, n)

OnWrite(i) ==
    LogEntries(One(Loggable(ResolveInode(i)), Entry("FileWrite", ResolveInode(i), None)))

\* Mutant: the names are joined to the same parent.
OnRenameOneParent(d, n, b, m) ==
    LET old == ResolveWithName(d, n)
        new == ResolveWithName(d, m)
    IN  LogEntries(One(Loggable(old) /\ Loggable(new),
                       Entry(IF IsDir(Stat(old)) THEN "DirRename" ELSE "FileRename", old, new)))

\* fs::metadata of the old path tells files and directories apart.
OnRename(d, n, b, m) ==
    LET old == ResolveWithName(d, n)
        new == ResolveWithName(b, m)
    IN  LogEntries(One(Loggable(old) /\ Loggable(new),
                       Entry(IF IsDir(Stat(old)) THEN "DirRename" ELSE "FileRename", old, new)))

\* An entry for each attribute that is given, in this order.
OnSetattr(i, attrs) ==
    LET path == ResolveInode(i)
        Given(attr, type) == IF attr \in attrs THEN <<Entry(type, path, None)>> ELSE <<>>
    IN  LogEntries(IF Loggable(path)
                   THEN Given("size", "FileTruncate") \o Given("mode", "SetPermissions")
                        \o Given("times", "SetTimestamps")
                   ELSE <<>>)
=============================================================================
