--------------------------- MODULE RecordPipeline ---------------------------
(***************************************************************************)
(* A read-write mount end to end (crates/ize/src/main.rs, cmd_mount): the  *)
(* FUSE thread notifies the recorder, which queues an opcode, and then     *)
(* changes the source directory; the consumer thread takes opcodes from    *)
(* the queue and replays them into Pijul.  The two threads share only the  *)
(* queue and a flag, and the process may end between any two steps.        *)
(*                                                                         *)
(* The queue is the one BoundedFifo describes.  Paths are flat and always  *)
(* resolved (ObservingFS looks at paths that are not); a file's content is *)
(* a short sequence of bytes.  libpijul is external: a replay may fail.    *)
(***************************************************************************)
EXTENDS Naturals, SequencesExt

CONSTANTS Path,          \* paths of files
          Capacity,      \* the queue's soft limit
          MaxOps,        \* bound: opcodes numbered in one session
          MaxLen,        \* bound: bytes in a file
          MaxSessions,   \* bound: times the directory is mounted
          FirstDisks,    \* what the directory may hold at `ize init`
          None           \* no file, no opcode

ASSUME PipelineAssumption ==
    /\ None \notin Path
    /\ {Capacity, MaxOps, MaxLen} \subseteq Nat
    /\ MaxSessions \in Nat \ {0}
    /\ \A d \in FirstDisks : d \in [Path -> {None} \cup Seq({0, 1})]

VARIABLES disk,       \* the source directory
          request,    \* the mutation whose observers have been notified, if any
          nextSeq,    \* OpcodeRecorder.next_seq
          queue,      \* OpcodeQueue, oldest opcode first
          phase,      \* main thread: "mounted", "unmounted", "stopping", "returned", "killed"
          consumer,   \* consumer thread: "opening", "head", "poll", "apply", "gone"
          hand,       \* the opcode the consumer has popped
          lastSeq,    \* the number of the last opcode it popped
          repo,       \* the files of the current Pijul channel
          session,    \* how many times the directory was mounted
          behind      \* history: paths of which a change did not reach the repository

vars == <<disk, request, nextSeq, queue, phase, consumer, hand, lastSeq, repo, session,
          behind>>

fuseVars == <<disk, request, nextSeq>>
consumerVars == <<consumer, hand, lastSeq, repo>>

Content == Seq({0, 1})

\* An opcode's operation: `at` is the offset of a write or the size of a truncation,
\* `to` the new path of a rename.
Operation ==
    {[op |-> o, path |-> p, at |-> 0, to |-> None] :
        o \in {"FileCreate", "FileDelete", "Other"}, p \in Path}
    \cup {[op |-> "FileWrite", path |-> p, at |-> k, to |-> None] :
        p \in Path, k \in 0 .. MaxLen - 1}
    \cup {[op |-> "FileTruncate", path |-> p, at |-> k, to |-> None] :
        p \in Path, k \in 0 .. MaxLen}
    \cup {o \in [op : {"FileRename"}, path : Path, at : {0}, to : Path] : o.path # o.to}

\* What OpcodeQueue holds: an operation under its number.
Opcode == [seq : 1 .. MaxOps, do : Operation]

ASSUME NoneAssumption == None \notin Content /\ None \notin Operation /\ None \notin Opcode

Touched(o) == {o.path, o.to} \ {None}
----------------------------------------------------------------------------
\* What the source directory becomes: pwrite(2) and ftruncate(2) fill with zeros.
Pwrite(c, k) ==
    [i \in 1 .. (IF k < Len(c) THEN Len(c) ELSE k + 1) |->
        IF i = k + 1 THEN 1 ELSE IF i <= Len(c) THEN c[i] ELSE 0]

SetLen(c, n) == [i \in 1 .. n |-> IF i <= Len(c) THEN c[i] ELSE 0]

OnDisk(d, o) ==
    CASE o.op = "FileCreate" -> [d EXCEPT ![o.path] = <<>>]
      [] o.op = "FileWrite" -> [d EXCEPT ![o.path] = Pwrite(@, o.at)]
      [] o.op = "FileTruncate" -> [d EXCEPT ![o.path] = SetLen(@, o.at)]
      [] o.op = "FileDelete" -> [d EXCEPT ![o.path] = None]
      [] o.op = "FileRename" -> [d EXCEPT ![o.path] = None, ![o.to] = d[o.path]]
      [] OTHER -> d

\* The mutations the kernel can ask for.
Askable(o) == IF o.op = "FileCreate" THEN disk[o.path] = None ELSE disk[o.path] # None

\* Mutant: the data of a write beyond the end is appended.
RecordedAppend(c, k) ==
    IF k >= Len(c) THEN Append(c, 1) ELSE [c EXCEPT ![k + 1] = 1]

\* record_file_write: the content is extended with zeros up to the offset, then far
\* enough for the data, and the data is copied in.
RecordedWrite(c, k) ==
    LET zeros(n) == [i \in 1 .. n |-> 0]
        upto == IF k > Len(c) THEN c \o zeros(k - Len(c)) ELSE c
        room == IF k + 1 > Len(upto) THEN upto \o <<0>> ELSE upto
    IN  [room EXCEPT ![k + 1] = 1]

\* Mutant: one byte too many is kept.
RecordedTruncateLong(c, n) == IF n < Len(c) THEN SubSeq(c, 1, n + 1) ELSE c

\* record_file_truncate: Vec::truncate never extends.
RecordedTruncate(c, n) == IF n < Len(c) THEN SubSeq(c, 1, n) ELSE c

\* The opcodes whose replay needs the file to be there (get_file_position).
NeedsFile(o) == o.op \in {"FileWrite", "FileTruncate", "FileDelete", "FileRename"}

CanReplay(r, o) == o.op # "Other" /\ (NeedsFile(o) => r[o.path] # None)

\* apply_opcode when libpijul makes no objection.  A deleted file is diffed against
\* empty content and stays as an empty file; a file that is there is not added twice.
Replay(r, o) ==
    IF ~CanReplay(r, o) THEN r
    ELSE CASE o.op = "FileCreate" ->
                 [r EXCEPT ![o.path] = IF @ = None THEN <<>> ELSE @]
           [] o.op = "FileWrite" -> [r EXCEPT ![o.path] = RecordedWrite(@, o.at)]
           [] o.op = "FileTruncate" -> [r EXCEPT ![o.path] = RecordedTruncate(@, o.at)]
           [] o.op = "FileDelete" -> [r EXCEPT ![o.path] = <<>>]
           [] o.op = "FileRename" -> [r EXCEPT ![o.path] = None, ![o.to] = r[o.path]]
----------------------------------------------------------------------------
Init ==
    /\ disk \in FirstDisks
    /\ request = None
    /\ nextSeq = 1
    /\ queue = <<>>
    /\ phase = "mounted"
    /\ consumer = "opening"
    /\ hand = None
    /\ lastSeq = 0
    /\ repo = [p \in Path |-> None]
    /\ session = 1
    /\ behind = {p \in Path : disk[p] # None}

\* Mutant: the opcode is pushed whatever the queue holds.
NotifyUnbounded(o) ==
    /\ phase = "mounted" /\ request = None
    /\ nextSeq <= MaxOps
    /\ Askable(o)
    /\ request' = o
    /\ nextSeq' = nextSeq + 1
    /\ queue' = Append(queue, [seq |-> nextSeq, do |-> o])
    /\ UNCHANGED <<disk, phase, session, behind, consumerVars>>

\* emit: the number is spent before the queue is asked, and an opcode that finds the
\* queue full is dropped.  A truncation that extends the file is lost on the replay, and
\* what libpijul records of a rename is left open.
Notify(o) ==
    /\ phase = "mounted" /\ request = None
    /\ nextSeq <= MaxOps
    /\ Askable(o)
    /\ request' = o
    /\ nextSeq' = nextSeq + 1
    /\ queue' = IF Len(queue) < Capacity THEN Append(queue, [seq |-> nextSeq, do |-> o])
                ELSE queue
    /\ behind' = IF \/ Len(queue) >= Capacity
                    \/ o.op = "FileTruncate" /\ o.at > Len(disk[o.path])
                    \/ o.op = "FileRename"
                 THEN behind \cup Touched(o)
                 ELSE behind
    /\ UNCHANGED <<disk, phase, session, consumerVars>>

\* The inner filesystem carries the mutation out.
Perform ==
    /\ request # None
    /\ disk' = OnDisk(disk, request)
    /\ request' = None
    /\ UNCHANGED <<nextSeq, queue, phase, session, behind, consumerVars>>

\* Or it refuses (permissions, no space): the opcode is out all the same.
Refuse ==
    /\ request # None
    /\ request' = None
    /\ behind' = behind \cup Touched(request)
    /\ UNCHANGED <<disk, nextSeq, queue, phase, session, consumerVars>>
----------------------------------------------------------------------------
\* The process has ended.
Over == phase \in {"returned", "killed"}

\* The consumer opens its own PijulBackend; when it cannot, the thread returns.
OpenBackend ==
    /\ ~Over /\ consumer = "opening"
    /\ consumer' \in {"head", "gone"}
    /\ UNCHANGED <<fuseVars, queue, phase, session, behind, hand, lastSeq, repo>>

\* while running.load()
LoopHead ==
    /\ ~Over /\ consumer = "head"
    /\ consumer' = IF phase = "stopping" THEN "gone" ELSE "poll"
    /\ UNCHANGED <<fuseVars, queue, phase, session, behind, hand, lastSeq, repo>>

\* try_pop, or a short sleep when there is nothing.
Poll ==
    /\ ~Over /\ consumer = "poll"
    /\ IF queue = <<>>
       THEN consumer' = "head" /\ UNCHANGED <<queue, hand, lastSeq>>
       ELSE /\ hand' = Head(queue)
            /\ lastSeq' = Head(queue).seq
            /\ queue' = Tail(queue)
            /\ consumer' = "apply"
    /\ UNCHANGED <<fuseVars, phase, session, behind, repo>>

\* apply_opcode succeeds, with or without a change to commit.  What adding a path that
\* the channel still holds comes to is libpijul's business.
ApplyOk ==
    /\ ~Over /\ consumer = "apply"
    /\ CanReplay(repo, hand.do)
    /\ repo' = Replay(repo, hand.do)
    /\ behind' = IF hand.do.op = "FileCreate" /\ repo[hand.do.path] # None
                 THEN behind \cup {hand.do.path} ELSE behind
    /\ hand' = None
    /\ consumer' = "head"
    /\ UNCHANGED <<fuseVars, queue, phase, session, lastSeq>>

\* Mutant: an opcode that fails is tried again.
ApplyErrRetry ==
    /\ ~Over /\ consumer = "apply"
    /\ behind' = behind \cup Touched(hand.do)
    /\ UNCHANGED <<fuseVars, queue, phase, session, consumerVars>>

\* Mutant: an opcode that fails goes back into the queue.
ApplyErrRequeue ==
    /\ ~Over /\ consumer = "apply"
    /\ behind' = behind \cup Touched(hand.do)
    /\ queue' = Append(queue, hand)
    /\ hand' = None
    /\ consumer' = "head"
    /\ UNCHANGED <<fuseVars, phase, session, lastSeq, repo>>

\* apply_opcode fails: a warning, and the opcode is gone.  It always fails for opcodes
\* that are not supported and for files the channel does not hold.
ApplyErr ==
    /\ ~Over /\ consumer = "apply"
    /\ behind' = behind \cup Touched(hand.do)
    /\ hand' = None
    /\ consumer' = "head"
    /\ UNCHANGED <<fuseVars, queue, phase, session, lastSeq, repo>>

Consume == OpenBackend \/ LoopHead \/ Poll \/ ApplyOk \/ ApplyErr
----------------------------------------------------------------------------
\* mount() returns between two requests; then the flag is cleared; then main returns.
\* The consumer's thread is never joined.
Unmount ==
    /\ phase = "mounted" /\ request = None
    /\ phase' = "unmounted"
    /\ UNCHANGED <<fuseVars, queue, session, behind, consumerVars>>

ClearRunning ==
    /\ phase = "unmounted"
    /\ phase' = "stopping"
    /\ UNCHANGED <<fuseVars, queue, session, behind, consumerVars>>

\* The paths of what goes down with the process: opcodes that were not replayed, and a
\* request that was not carried out although its opcode may have been replayed.
Lost ==
    (UNION {Touched(queue[k].do) : k \in 1 .. Len(queue)})
    \cup (IF hand = None THEN {} ELSE Touched(hand.do))
    \cup (IF request = None THEN {} ELSE Touched(request))

Exit(how) ==
    /\ phase' = how
    /\ behind' = behind \cup Lost
    /\ UNCHANGED <<fuseVars, queue, session, consumerVars>>

MainReturns == phase = "stopping" /\ Exit("returned")

\* A signal (the handler calls exit) or a crash, at any moment.
Killed == ~Over /\ Exit("killed")

\* `ize mount` again: everything but the disk and the repository is new.
Remount ==
    /\ Over /\ session < MaxSessions
    /\ session' = session + 1
    /\ phase' = "mounted"
    /\ request' = None
    /\ nextSeq' = 1
    /\ queue' = <<>>
    /\ consumer' = "opening"
    /\ hand' = None
    /\ lastSeq' = 0
    /\ UNCHANGED <<disk, repo, behind>>

Next ==
    \/ \E o \in Operation : Notify(o)
    \/ Perform
    \/ Refuse
    \/ Consume
    \/ Unmount
    \/ ClearRunning
    \/ MainReturns
    \/ Killed
    \/ Remount

Spec == Init /\ [][Next]_vars

\* The scheduler runs the consumer, whose calls return.
FairSpec == Spec /\ WF_vars(Consume)
----------------------------------------------------------------------------
TypeOK ==
    /\ {disk, repo} \subseteq [Path -> {None} \cup Content]
    /\ request \in Operation \cup {None}
    /\ nextSeq \in 1 .. MaxOps + 1
    /\ queue \in Seq(Opcode) /\ Len(queue) <= Capacity
    /\ phase \in {"mounted", "unmounted", "stopping", "returned", "killed"}
    /\ consumer \in {"opening", "head", "poll", "apply", "gone"}
    /\ hand \in Opcode \cup {None}
    /\ consumer = "apply" <=> hand # None
    /\ lastSeq \in 0 .. MaxOps
    /\ session \in 1 .. MaxSessions
    /\ behind \subseteq Path

\* The opcodes between the notification and the repository, oldest first.
InFlight == (IF hand = None THEN <<>> ELSE <<hand>>) \o queue

\* What the opcodes s, replayed one after the other, make of the repository r.
Replayed(r, s) ==
    LET after[k \in 0 .. Len(s)] == IF k = 0 THEN r ELSE Replay(after[k - 1], s[k].do)
    IN  after[Len(s)]

\* A path the repository holds as the disk does; a deleted file is an empty one.
Agree(r, d) == r = d \/ (d = None /\ r = <<>>)

\* What is versioned, plus what is in flight, is what is on disk (after the request that
\* is being handled), for every path that nothing was lost of: no interleaving of the
\* two threads reorders, repeats or forgets a change (recorder.rs:129-138, main.rs:269-289,
\* operations.rs:142-228).
NothingForgotten ==
    ~Over =>
        LET versioned == Replayed(repo, InFlight)
            wanted == IF request = None THEN disk ELSE OnDisk(disk, request)
        IN  \A p \in Path \ behind : Agree(versioned[p], wanted[p])

\* When a session has ended, however it did, the repository and the disk agree on every
\* path but those whose changes went down with it or were lost before (main.rs:198-213,
\* main.rs:295-302).
SettledAtExit ==
    Over => \A p \in Path \ behind : Agree(repo[p], disk[p])

\* Opcodes are taken in the order of their numbers, each once, in every session
\* (recorder.rs:98-100, queue.rs:134-145).
TakenInOrder ==
    [][lastSeq' # lastSeq => \/ lastSeq' > lastSeq /\ lastSeq' < nextSeq
                             \/ session' # session]_vars

\* The number of an opcode on its way grows towards the recorder's counter, and a number
\* that is missing was spent on an opcode that was dropped.
InFlightSorted ==
    LET seqs == [k \in 1 .. Len(InFlight) |-> InFlight[k].seq]
    IN  /\ \A k \in 1 .. Len(seqs) : seqs[k] < nextSeq
        /\ \A k \in 1 .. Len(seqs) - 1 : seqs[k] < seqs[k + 1]

\* An opcode in the queue of a mounted directory is taken out, unless the consumer could
\* not open the repository or the mount ends.
QueueServed ==
    \A s \in 1 .. MaxOps :
        (\E k \in 1 .. Len(queue) : queue[k].seq = s)
            ~> \/ \A k \in 1 .. Len(queue) : queue[k].seq # s
               \/ phase # "mounted"
               \/ consumer = "gone"

\* What opcode.rs:147-155 and backend.rs:418-427 say of FileTruncate: new_size is the new
\* size of the file, so that is what a replayed truncation gives it.
TruncationSetsSize ==
    [][hand # None /\ hand.do.op = "FileTruncate" /\ ApplyOk =>
          Len(repo'[hand.do.path]) = hand.do.at]_vars

\* What README.md:7 and index.md:8 say: every operation is versioned; so a clean unmount
\* ends with no opcode left in the process.
CleanUnmountKeepsAll == phase = "returned" => InFlight = <<>>
============================================================================
