# A verification project for ize

ize versions a directory without being asked: `ize mount` puts a FUSE
filesystem over it, every mutation that passes through is turned into an
*opcode*, and a second thread replays the opcodes into a Pijul repository in a
central store. These modules model that path (the handlers that see the mutation,
the recorder that names it, the queue between the two threads, the replay), what
happens to all of them when a mount ends, the store that the `ize` commands share
as processes, the second file system that works below a directory descriptor, and
the terminal browser.

## The system

| Component | State | Operations | Interacts with |
|---|---|---|---|
| `PassthroughFS` (`filesystems/passthrough.rs`) | `inode_to_path`, `file_handles`, `next_fh` | one handler per FUSE request | called by the kernel through `ObservingFS`; acts on the source directory by path or by handle; shares `inode_to_path` with the recorder |
| `ObservingFS` (`filesystems/observing.rs`) | list of observers | the same handlers: notify, then delegate | wraps either file system, calls the observers synchronously |
| `OpcodeRecorder` (`operations/recorder.rs`) | `next_seq` | one callback per mutation, `emit` | reads `inode_to_path`, offers opcodes to the queue, drops them when it is full |
| `OpcodeQueue` (`operations/queue.rs`) | `VecDeque` under a mutex, a condition variable | `try_push`, `push`, `pop`, `try_pop`, `drain` | shared by the FUSE thread and the consumer |
| Consumer thread, shutdown (`ize/src/main.rs`, `cmd_mount`) | `running` flag | poll, apply, sleep | owns a `PijulBackend` of its own |
| `OpcodeRecordingBackend` (`pijul/operations.rs`) | none | `apply_opcode` | `PijulBackend` |
| `PijulBackend` (`pijul/backend.rs`, `query.rs`) | repository on disk, cached `current_channel` | init, open, channels, recording, listing | libpijul's pristine (transactional) and change store (files) |
| Project store (`project/*.rs`) | directories under the central store | create, find, list, delete | every `ize` command, each a process of its own |
| `ize` commands (`ize/src/main.rs`) | none but the store | init, mount, unmount, status, channel, remove, export | the store, `/proc/mounts` |
| `PassthroughFdFS`, `BackingFs` (`passthrough_fd.rs`, `backing_fs/`) | as `PassthroughFS`, with raw descriptors below `base_fd` | the same handlers | `ize_mount_fd` |
| `DumpObserver` (`operations/dump_observer.rs`) | a log file | one callback per mutation | reads the inode map; stats paths below the mount point |
| `ize_mount_fd` (`bin/ize_mount_fd.rs`) | `base_fd` | open, mount over the same directory, unmount on a signal | `FdPassthroughFS`, `DumpObserver` |
| `izev` (`izev/src/app.rs`) | tabs, lists, indexes, selected channel | key events | project store, `PijulBackend` |
| Ignore filters (`vcs/`) | none | does a path belong to a version control directory | the recorder and the dump observer |
| `storage`, `fuse-fd-poc`, printing and rendering | none of interest | | not modelled |

What is hard in it:

- *Names that go stale.* The kernel speaks of inode numbers, the handlers of
  paths, handles of open files, the recorder of paths again. The map between them is
  filled by some handlers and thinned by others and is not updated below a
  renamed directory. Hard links and reused inode numbers add to it.
- *Raw descriptors.* What one handler opens another must close, error paths included,
  and a number that was closed comes back as another file.
- *A mount over its own source.* A system call that comes back to the mount waits for
  the thread that makes it.
- *Two threads and a queue.* The notification precedes the mutation, so an
  opcode can be replayed before the mutation it stands for is carried out, or although
  it is refused. The queue may be full.
- *The end.* The process can end at any point; nothing in flight is kept, the
  numbering restarts, and the consumer thread is not joined.
- *Processes that share a store.* Look-ups, creations and removals are many system
  calls; `/proc/mounts` is read and acted on later; a channel is cached while others
  switch, fork and record.
- *The condition variable.* `notify_one` is called without the lock.

## Modules

| Module | Models | State and actions |
|---|---|---|
| `BoundedFifo` | what the queue promises | `items`, `forced`, `taken`; offer, force, take, take all |
| `OpcodeQueue` | `operations/queue.rs` | the `VecDeque`, the wait set of the `Condvar`, threads woken and producers that still owe a `notify_one`; an action per critical section |
| `SourceTree` | what is outside: the source directory and the kernel's dentries | `kind`, `entry`, `known`; what system calls refuse |
| `PassthroughFS` | `filesystems/passthrough.rs` | `inodeMap`, `handles`, `nextFh`; an operator per handler |
| `OpcodeRecorder` | `operations/recorder.rs`, `vcs/mod.rs` | `opcodes`, what the last notification emitted; an operator per callback |
| `ObservingFS` | `filesystems/observing.rs` | composes the two: each request is *callback, then handler or failure*; `Reply` ends it |
| `BackingFs` | `backing_fs/` | `fds`: the process's table of descriptors, lowest number first |
| `FdPassthroughFS` | `filesystems/passthrough_fd.rs` | as `PassthroughFS`, with `openFiles` over `fds`; `Reference` is an instance of `PassthroughFS` with the handles seen through the descriptors |
| `DumpObserver` | `operations/dump_observer.rs` | `logged`, the entries of the last notification |
| `FdMount` | `bin/ize_mount_fd.rs` | `phase` of the process, `top` (what the directory's path leads to: the tree, the mount, or one whose server is gone), `base` (what `base_fd` was opened on), `waits`; one run of the program after another, and the requests, with the calls that come back to the mount |
| `RecordPipeline` | `cmd_mount`, `emit`, `apply_opcode`, the content arithmetic of `PijulBackend` | a FUSE thread, a consumer thread and the main thread; `disk` and `repo` |
| `PijulRepository` | `pijul/backend.rs`, without contents | per project: `parts` of the directory, `channels`, `log`, `current`, `saved`, `lock`; an operator per step that is atomic in the code |
| `ProjectStore` | `project/*.rs`, the commands of `main.rs` | `job[q]`: what process `q` does, at which stage, with what it has read; an action per step between two system calls or transactions that another process can come between |
| `ChannelLog`, `ProjectChannels` | what a repository promises about its channels, and the store as so many of them | |
| `Izev` | `izev/src/app.rs` | `app`, the record `App`; one action per kind of key event, and what other processes do to the store meanwhile |
| `SourceTreeProofs` | lemmas for both file systems | where a path leads, well-formed trees, a map that agrees with one (`MapInv`) |
| `OpcodeQueueProofs`, `ObservingFSProofs`, `FdMountProofs`, `RecordPipelineProofs`, `ProjectStoreProofs`, `ProjectChannelsProofs`, `IzevProofs` | theorems | |
| `MC...` | small instances | |

`SourceTree`, `PassthroughFS`, `OpcodeRecorder` and `ObservingFS` are one chain of
`EXTENDS`, as the code is one chain of calls; so are `SourceTree`, `BackingFs`,
`FdPassthroughFS`, `DumpObserver` and `FdMount`. `RecordPipeline` takes up where the
recorder emits: it uses the queue as `BoundedFifo` describes it, which is justified
because `OpcodeQueue` refines `BoundedFifo`, and looks at flat paths whose resolution
never fails, which is what `ObservingFS` is about. In `ProjectStore` a mount is a
process that records changes; which, is `RecordPipeline`'s. `Izev` and `ProjectStore`
share `PijulRepository`.

Histories, there for the properties only: `astray` holds the inodes whose mapping was
made wrong or removed by a rename above or over them or by the removal of another of
their names, until they are registered again; `behind` the paths of which a change did
not reach the repository (dropped, refused after it was announced, failed, not replayable,
lost with the process, or there before `ize init`); `doomed` and `gone` the projects that a
removal has begun to delete; `rivals` in a job the projects of its directory that came
while it ran; `loaded` where the browser's list of changes came from. The properties say
that nothing *else* goes wrong.

### How a process of `ProjectStore` corresponds to the code

A command starts with `find_by_source_dir` (`Scan`), opens the project and its
repository (`Open`, `OpenPristine`: between `db_path.exists()` and `Pristine::new`, which
makes a database, another process may remove it), and then does what the command does
(`Opened`). `ize init` goes on with the steps of `IzeProject::init` in their order, the
last of which writes `project.toml`; `ize remove` looks the project up again after its
prompt and removes its parts in any order that `remove_dir_all` allows; `ize mount`
serves, and its consumer thread opens a backend of its own and records: begin, save the
change, apply and commit. A database that was deleted under a process leaves it detached
(`attached`): what it writes is lost. `Stops` ends a process at any step: a signal, an I/O
error, an answer to a prompt.

## Runs

| Run | Question | Bounds |
|---|---|---|
| `queue_threads` | does the queue keep order, limit and wake-ups, and does every opcode leave it | 2 producers of 2 opcodes, 2 consumers, capacity 1: one notification can wake either of two waiters, the third party can steal the opcode, and both rejection and overflow happen |
| `observed_tree` | do map, handles and opcodes stay right under every sequence of requests | 4 inodes (root and 3), 2 names, 2 handles, from a directory with a file and from a file with two names; unbounded sequences. No name is ignored here: ignored paths are covered by the theorem alone. Three inodes below the root are what a rename over a file inside a moved directory takes; freed numbers are reused |
| `open_file_moved` | *violated*: a recorded write names the file written | as above |
| `mounts` | do two threads keep repository plus queue equal to the disk, in order, with progress; what is left when the process has ended, and after a second mount | 2 paths, files of up to 2 bytes (enough for a hole), 2 mounts of 2 opcodes each, capacity 1, so that the queue fills; refusals, failing replays, a consumer that cannot start, unmount and kill at any step |
| `clean_unmount` | *violated*: a clean unmount leaves no opcode behind | as `mounts`, one mount |
| `extending_truncate` | *violated*: a replayed truncation gives the file its size | as `mounts`, one mount |
| `fd_mount` | are descriptors owned, is the map right, does the dump log name what changed, does each handler do what `PassthroughFS` could do, and does it stay below the mount | 3 inodes, 2 names, 2 descriptors and 3 handles: numbers run out and come back while handles do not; with and without `--dump`; any number of runs of the program, one at a time on the directory |
| `dump_mount` | *violated*: the file system never comes back to itself | as `fd_mount` |
| `project_store` | is what is found whole, are logs and channels kept, is a directory tracked once | 2 processes, 4 commands in all, 2 projects, 2 channels, 2 changes, a directory and one below it (whose line in `/proc/mounts` contains the other's path). Two processes are what every race here takes; four commands make a project, record into it, and let two more meet over it |
| `remove_under_mount` | *violated*: no project is deleted under its mount | as `project_store` |
| `izev` | do indexes stay in their lists, is a list of changes ever mixed | 2 projects, 2 channels, 2 changes, pages of 2 (10 in the code), 1 placeholder change (5): a page is longer than the list and a list is longer than none; unbounded keys, in a changing store |
| `izev_channel` | *violated*: the changes shown are those of the channel shown | as `izev` |

Inodes, names, projects, processes and changes are interchangeable and declared
symmetric, except in runs with liveness. Only `queue_threads` checks for deadlock: its
threads can always go on. The other models stop where the system may: a tree with no
handle left, a process that has ended, commands that are all run.

### Properties

- `NoLostWakeup`, `EveryOpcodeTaken`, `ProducerOrder`, `SoftLimit`, `ImplementsFifo`:
  the queue, see the comments in `OpcodeQueue`.
- `MapLeadsBack`, `ReachableIsMapped`: outside `astray`, the path of an inode leads
  to it, and what the kernel can reach by name has a path.
- `OpensWhatWasAsked`, `HandlesStable`: a new handle has a fresh number and the file
  that was asked for; an open one never changes its file.
- `OpcodeNamesSubject`: recorder and handler, which look at the same map one after the
  other, are about the same entry.
- `MutationRecorded`: whatever a request changes (a name, contents, mode or times), an
  opcode of its kind is offered in the same step, also when a later part of the request
  fails. The exceptions are named in the formula: ignored paths, a change of the owner alone
  (`on_setattr` does not pass it on, `recorder.rs:309`), and a write through an open handle
  whose inode has lost its name or its right path. Everything that goes by path is refused when
  the recorder finds no path for it, and that is what the property rests on.
- `NothingForgotten`: replaying what is in flight on top of what is versioned gives
  the disk as the current request will leave it. This ties the three threads of
  `cmd_mount` together. `SettledAtExit`, `TakenInOrder`, `InFlightSorted`, `QueueServed`.
- `FdOwnership`, `HandleKeepsFile`: descriptors and handles are one to one; a handle keeps
  its file. `DropIn`: a step of `FdPassthroughFS` is one `PassthroughFS` could make.
  `create` is modelled with the caller's flags, and differs twice. In a directory that has gone
  astray, and without `O_EXCL`, it opens a file that was already there (and with `O_TRUNC`
  cuts it), where `PassthroughFS` refuses: `OpensFound`. And it keeps the caller's access mode,
  where `PassthroughFS` opens for reading and writing: `AsHandles` shows a created
  handle as one that may write, so that access mode is not compared; what `setattr` makes
  of such a handle is.
- `HandlersStayBelow`: no handler comes back to the mount, in whatever run of the program and after
  whatever end of the ones before: what `base_fd` refers to follows from what the path led to
  when the directory was opened. `LogNamesSubject`: what the dump
  says of a mutation names what it changed.
- `FoundIsWhole`, `LogIsSaved`, `CachedChannelExists`, `TrackedOnce`:
  invariants of the store under interleaving and interruption; `ChannelsKept`: each
  repository is a `ChannelLog` step by step, so nobody undoes what another has committed.
- `IndexesInRange`, `ShownIsPast`, `BufferIsOfMode`: the browser. `CursorComesBack`: nothing but a
  replaced list leaves the cursor of the projects beyond it, and then a move downwards or to the
  end puts it back; over an empty list, and upwards, it may stay beyond (`app.rs:435`).

### Fairness

`queue_threads` assumes weak fairness of what a producer owes (`notify_one`) and of
consumers that have work and hold no lock: threads run, critical sections are short,
and the code never blocks inside one. `mounts` assumes weak fairness of the
consumer as a whole: its loop only sleeps for 10 ms, and `apply_opcode` returns.
No fairness is assumed of the kernel, of producers starting an operation, of the
user who unmounts, or of commands, which may stop at any step; so there is no liveness
to state of the store.

## Findings

1. A write through a handle that was opened before its directory was renamed is recorded
   under the old path (`open_file_moved`): `rename` re-registers only the inode that
   moved (`passthrough.rs:1163`).
2. A clean unmount loses what is queued (`clean_unmount`): `cmd_mount` neither drains
   the queue nor joins the consumer (`main.rs:301`).
3. A truncation that extends a file is recorded as no change (`extending_truncate`):
   `Vec::truncate` only shortens (`backend.rs:445`).
4. `--dump` stats paths below the mount point from the only thread that serves it
   (`dump_mount`, `dump_observer.rs:248`).
5. `ize remove` deletes a project that has been mounted since it looked
   (`remove_under_mount`, `main.rs:515`).
6. `izev` shows the changes of the repository's current channel under the name of the
   selected one (`izev_channel`, `app.rs:239`).

Not held against any property: `ize init --channel` creates the channel without switching to
it (`main.rs:127`, whose comment says otherwise).

## What is proved

`OpcodeQueueProofs`, from `QueueAssumption` alone, for all finite sets of threads, all
capacities and all numbers of opcodes:

- `TypeCorrect`: `TypeOK` is inductive as it stands; the proof has a step per action.
- `WakeupsNotLost`: `NoLostWakeup`, about how many threads are on their way
  to the opcodes that are there; inductive with `TypeOK`.
- `LimitIsStrictForTryPush`: the queue is longer than `Capacity` only by what was
  pushed regardless of it.
- `OrderKept`: the opcodes of a producer leave in the order they were made. The
  strengthening `OrderInv` adds that no opcode in the stream has a number its producer
  has not reached.
- `RefinesFifo`: every behaviour of `Spec` is a behaviour of `BoundedFifo!Spec`, action by
  action: blocking, waking and notifying are stutters.

`RecordPipelineProofs`, from `PipelineAssumption` and `NoneAssumption`, for all sets of paths
and all bounds:

- `TypeCorrect`: `TypeOK`, inductive together with `RequestFindsFile` (the file that an
  announced write or truncation is about is there until the request has been carried out).
- `NumbersGrow` and `OrderOfReplay`: `InFlightSorted` and `TakenInOrder`. The invariant behind
  both is `Sorted`: what the consumer took last has a lower number than everything queued,
  the queue ascends, and all of it is below `nextSeq`. `InFlightSorted` alone says
  nothing of the last number once the consumer's hand is empty.
- `NoChangeForgotten` (`NothingForgotten`) and `SettledWhenOver` (`SettledAtExit`), both from
  `PipelineInv`. Its core, `CaughtUp`, compares `Versioned` (the repository when the consumer's
  hand and then the queue are replayed) with `Wanted` (the disk when the request is carried
  out), off the paths in `behind`. It is not inductive: a rename is not replayed, so the paths of
  every rename in the queue must be in `behind` already (`RenamesBehind`), and a request that
  the end of the process cut short leaves its paths there too (`CutShortBehind`).
  `Replayed` is a recursive function; that a replay of a longer queue ends with the last
  opcode, starts with the first, and that equal contents stay equal along it is shown by
  induction on the length of the queue (`Replayed...`). That one replay does to the repository
  what the system call does to the disk is `WriteMatches` and `TruncateMatches`.

`SourceTreeProofs`, from `TreeAssumption`, is what the two file systems share. `WellFormed`
says how a file system keeps its tree: only directories have entries, a directory has one
parent and one name, nothing leads to the root, what nothing refers to does not exist.
`TreeAssumption` asks it of the source trees at the start (TLC evaluates it on those of the runs),
and the lemmas keep it. The path of a directory is then unique (`DirPathUnique`),
which gives what creating (`EntryAdded`), removing (`EntryRemoved`), moving (`EntryMoved`) and
closing (`FilesReopened`) do to where every other path leads. `MapInv` is the inode map's part
of the invariant, and `MapWhenAdded`, `MapWhenRemoved`, `MapWhenMoved` and
`MapWhenReopened` say that each change of the tree, with the change of the map the handlers
make for it, keeps it: these four are what both proofs below use.
The library's rules of induction take an operator as a parameter, which the prover
cannot instantiate; the inductions over a path or a queue are therefore made by hand, on a
shortest counterexample that `WFMin` provides.

`ObservingFSProofs`, from `TreeAssumption` and `FsAssumption`, for every well-formed tree, any
number of inodes, names and handles, and every order of requests, refusals and failing stats:

- `HandlesAreStable` (`HandlesStable`): no later open or creation puts another file under a
  handle number. The invariant is that the numbers in use are below `next_fh`. A handler keeps
  the table of handles, adds the next number to it, or drops one; what a path leads to
  plays no part.
- `TypeInvariance` (`TypeOK`), `MapIsRight` (`MapLeadsBack`), `MapIsComplete`
  (`ReachableIsMapped`), `OpensAreRight` (`OpensWhatWasAsked`), `MutationsAreNamed`
  (`OpcodeNamesSubject`) and `MutationsAreRecorded` (`MutationRecorded`), from `FsInv`. None is
  inductive: that a path leads back after a rename takes that the tree is well formed, with
  the open files among what keeps an inode alive; that a write is recorded takes that
  the kernel has not forgotten a file that is open under its own number (`OpensKnown`). The two
  about opcodes are properties of a step: what the callback reads of the map is what the
  handler acts on (`StepGood`), and it stays true until the reply. `MutationsAreRecorded` goes
  handler by handler: each shows that its callback told of the very operation, or that
  the callback skipped an ignored path, and then that path led to the inode or was registered
  for it.

`FdMountProofs`, from `TreeAssumption`, `FdAssumption`, `FdFsAssumption` and
`MountAssumption`, for every well-formed tree and every number of descriptors and handles:

- `DescriptorsOwned` (`FdOwnership`), `HandlesKeepFiles` (`HandleKeepsFile`) and
  `HandlersNeverWait` (`HandlersStayBelow`). Every step keeps the table of handles, opens a
  handle, closes one, or ends the process; a lemma per handler says which, and one
  per kind that it keeps `FdInv`. `FdInv` adds to the three that a handle number not yet
  reached is not open (else opening could overwrite a handle and leak its descriptor). That
  the error paths leave the table as it was is `OpenedAndClosed`: the lowest free descriptor is
  free.
- What `base_fd` is opened on is whatever the path leads to (`top`). The invariant is
  `BaseBelow`: the path leads to a mount only while its server lives, so that a process which
  opens the directory opens the tree, and keeps it. It holds because every way a mount ends
  leaves the tree or a dead mount, which `canonicalize` cannot pass.
- `TypeInvariance` (`TypeOK`), `MapIsRight` (`MapLeadsBack`) and `EntriesAreNamed`
  (`LogNamesSubject`), from a second invariant, `MountInv`: `FdInv`, and `MapInv` for the files
  that descriptors keep. The end of a process keeps it, because the map of the next one has
  the root alone (`FreshMap`).
- `ReplacesPassthrough` (`DropIn`): the refinement, handler by handler. `AsHandles` makes
  handles of descriptors; one lemma says what it becomes when a handle is opened or
  closed (`HandlesOpened`, `HandlesClosed`: both need that no two handles share a descriptor),
  one that the files which handles hold are those which descriptors keep alive (`SameFiles`,
  needs that no descriptor is without a handle), and one per handler (`...Same`) that with it
  `Reference!Step` is enabled with the same outcome. `CreateSame`
  has two parts: a file that is made (`CreateMadeSame`), and one that is found
  (`CreateFound`), which takes that the path of the directory led to another than the kernel
  found to have no such entry.

`ProjectStoreProofs`, from `RepositoryAssumption` and `StoreAssumption`, for every set of
projects, processes, directories, channels and changes, and every number of commands:

- `TypeCorrect`, and `FoundAreWhole`, `LogsAreSaved`, `CachedChannelsExist` and
  `DirectoriesTrackedOnce` from one invariant, `Inv`. None of the four
  is inductive: what is found is whole because what is made was whole at the stage before
  (`Made`), by a process that nobody is in the way of (`Alone`); a log is saved because the
  change was (`ChangeSaved`) and because the snapshot that a commit writes back is what is
  there (`Isolated`); a cached channel exists for the same reason. A step of one process
  touches one project (its footprint), so that of the others only those of the same
  project have to be looked at: `OthersOwn`, `ElsewhereHeld` and `StepKeeps` say it once, and a
  lemma per group of actions does the rest.

`ProjectChannelsProofs`, from the same assumptions, is the refinement:

- `RefinesChannelLog`: for any project `Subject`, every behaviour of the store is one of
  `ChannelLog` for that project's database, whose steps lose it, add a channel, switch or
  record at the end of a log. Each action of the store is shown to do one of these, or
  nothing, to the database of the project it works on, and nothing to the others.
- `ChannelInvariance` gives what that needs beyond `Inv`: a project being made has an empty
  database, a channel that is not there has no log, and the change about to be committed is
  new to its channel.
- `ChannelsKept`, which the run checks, speaks of all projects at once through a parametric
  instance, a form the prover does not take; the theorem fixes the project as a constant
  and says the same.

`IzevProofs`, from `RepositoryAssumption` and `IzevAssumption`, for all finite sets of
projects and channels, every order of the channels and every length of page:

- `TypeCorrect`, `IndicesStayInRange` (`IndexesInRange`), `BufferStaysOfMode`
  (`BufferIsOfMode`) and `CursorsComeBack` (`CursorComesBack`). Each key is a function from a state
  of the browser to a set of states, and a lemma says of each that it takes a state that is all
  right (`AppOK`) to such states. `CursorsComeBack` is a property of a step, from the same lemmas.
- `ShowsAPast` (`ShownIsPast`) is about the two sides together: what is shown was a log when it
  was read, and what others do only makes a log longer while its database stands
  (`Grows`). It needs that a channel which is not there has an empty log, or a fork could
  replace what is shown; and that a project whose changes are shown never comes back
  once its removal has begun.

Left to TLC are the liveness properties (`EveryOpcodeTaken`, `QueueServed`, the fairness
part of `ImplementsFifo`), which are out of the prover's reach; the parametric form of
`ChannelsKept`; and the findings. Every other property of a passing run is stated by a theorem.

## Not modelled

- libpijul: a replay succeeds with the content that the code asks for, or fails. What
  it makes of a path that is added twice, or of a rename recorded against an empty
  in-memory working copy, is left open. Its transactions are taken to exclude each other.
- Symbolic links. `lookup`, `unlink` and `getattr` stat through them, so a link and its
  target share an inode number in the map; source trees here have none. File contents are
  in `RecordPipeline` only.
- `O_APPEND`, short writes; `RENAME_EXCHANGE` and `RENAME_NOREPLACE`: `rename` ignores its
  flags; the kernel is taken to send none.
- Offsets of a listing: `readdir` is one step.
- Changes of the working directory that do not go through the mount: it lies in the
  project's directory under the central store and is taken to be changed by the mount only.
- What an export's copy holds: it is read with `fs::copy`, file by file and in no transaction, so
  that a commit may tear the copied database; neither the code nor its documents say when a
  copy is usable. In the model an export changes nothing of the store.
- A second `ize_mount_fd` over a directory that is mounted: one run at a time is modelled.
- Paths that are not UTF-8, which `display()` changes.
- In `izev`, errors in reading a database that is whole; in the store, the contents of
  `project.toml` but for the source directory.
- `cmd_list`, `ize channel list`, argument parsing, formatting, printing and rendering: they read
  and print. `storage` is a trait without an implementation. `fuse-fd-poc` is a stand-alone
  proof of concept that nothing else uses; what became of it is `FdPassthroughFS`.
