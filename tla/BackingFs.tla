----------------------------- MODULE BackingFs -----------------------------
(***************************************************************************)
(* backing_fs/mod.rs and backing_fs/libc_impl.rs: the *at() system calls   *)
(* below a directory descriptor, with the descriptors they open.  What     *)
(* open_file returns is the caller's to close; the kernel hands out the    *)
(* lowest free number, so that a closed descriptor comes back as another   *)
(* file, and it refuses when none is left.                                 *)
(***************************************************************************)
EXTENDS SourceTree

CONSTANT MaxFd   \* bound: descriptors left to the process (RLIMIT_NOFILE)

ASSUME FdAssumption == MaxFd \in Nat

VARIABLE fds     \* fds[d]: the file open under descriptor d, None when d is free

Fd == 1 .. MaxFd

OpenFds(t) == {d \in Fd : t[d] # None}
FreeFds(t) == Fd \ OpenFds(t)

\* The files that descriptors keep alive.
OpenInodes(t) == {t[d] : d \in OpenFds(t)}

\* The lowest free descriptor.
NewFd(t) == CHOOSE d \in FreeFds(t) : \A c \in FreeFds(t) : d <= c

\* stat: the inode at a path, None when the call fails.
Stat(p) == IF Walk(p) \in Ino THEN Walk(p) ELSE None

\* open_file: descriptor table t with the file i opened.
OpenedOn(t, i) == [t EXCEPT ![NewFd(t)] = i]

\* close_fd.
Closed(t, d) == [t EXCEPT ![d] = None]

\* open_file without O_CREAT can open what is at p.
CanOpen(p) == IsFile(Stat(p)) /\ FreeFds(fds) # {}

\* readdir opens the directory and duplicates the descriptor before closing the first.
CanReaddir(p) == IsDir(Stat(p)) /\ \E c, d \in FreeFds(fds) : c # d
=============================================================================
