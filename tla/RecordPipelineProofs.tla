------------------------ MODULE RecordPipelineProofs ------------------------
(***************************************************************************)
(* RecordPipeline for every set of paths, every capacity of the queue,     *)
(* every number of opcodes and of sessions: types, the order of opcodes,   *)
(* and that what every path is bound for in the repository is what it is   *)
(* bound for on disk, as long as nothing was lost of it.                   *)
(***************************************************************************)
EXTENDS RecordPipeline, SequenceTheorems, WellFoundedInduction, TLAPS

File == {None} \cup Content

Tree == [Path -> File]

LEMMA OperationFields ==
    ASSUME NEW o \in Operation
    PROVE  /\ o.path \in Path /\ o.at \in Nat
           /\ o.op = "FileRename" => o.to \in Path
           /\ o.op \in {"FileCreate", "FileDelete", "Other", "FileWrite", "FileTruncate",
                        "FileRename"}
<1>1. CASE \E k \in {"FileCreate", "FileDelete", "Other"}, p \in Path :
               o = [op |-> k, path |-> p, at |-> 0, to |-> None]
  BY <1>1
<1>2. CASE \E p \in Path, k \in 0 .. MaxLen - 1 :
               o = [op |-> "FileWrite", path |-> p, at |-> k, to |-> None]
  BY <1>2
<1>3. CASE \E p \in Path, k \in 0 .. MaxLen :
               o = [op |-> "FileTruncate", path |-> p, at |-> k, to |-> None]
  BY <1>3
<1>4. CASE o \in [op : {"FileRename"}, path : Path, at : {0}, to : Path]
  BY <1>4
<1>5. QED
  BY <1>1, <1>2, <1>3, <1>4 DEF Operation

\* What the system calls make of a file's content is a content.
LEMMA DiskContents ==
    ASSUME NEW c \in Content, NEW k \in Nat
    PROVE  Pwrite(c, k) \in Content /\ SetLen(c, k) \in Content
<1>1. Len(c) \in Nat /\ \A i \in 1 .. Len(c) : c[i] \in {0, 1}
  BY LenProperties, ElementOfSeq DEF Content
<1>2. Pwrite(c, k) \in Content
  <2> DEFINE n == IF k < Len(c) THEN Len(c) ELSE k + 1
             byte(i) == IF i = k + 1 THEN 1 ELSE IF i <= Len(c) THEN c[i] ELSE 0
  <2>1. n \in Nat /\ \A i \in 1 .. n : byte(i) \in {0, 1}
    BY <1>1
  <2> HIDE DEF n, byte
  <2>2. [i \in 1 .. n |-> byte(i)] \in Seq({0, 1})
    BY <2>1, IsASeq
  <2>3. QED
    BY <2>2 DEF n, byte, Pwrite, Content
<1>3. SetLen(c, k) \in Content
  <2> DEFINE byte(i) == IF i <= Len(c) THEN c[i] ELSE 0
  <2>1. \A i \in 1 .. k : byte(i) \in {0, 1}
    BY <1>1
  <2> HIDE DEF byte
  <2>2. [i \in 1 .. k |-> byte(i)] \in Seq({0, 1})
    BY <2>1, IsASeq
  <2>3. QED
    BY <2>2 DEF byte, SetLen, Content
<1>4. QED
  BY <1>2, <1>3

\* And so is what a replay makes of it.
LEMMA RecordedContents ==
    ASSUME NEW c \in Content, NEW k \in Nat
    PROVE  RecordedWrite(c, k) \in Content /\ RecordedTruncate(c, k) \in Content
<1>1. Len(c) \in Nat /\ c \in Seq({0, 1})
  BY LenProperties DEF Content
<1>2. RecordedWrite(c, k) \in Content
  <2> DEFINE zeros(n) == [i \in 1 .. n |-> 0]
             upto == IF k > Len(c) THEN c \o zeros(k - Len(c)) ELSE c
             room == IF k + 1 > Len(upto) THEN upto \o <<0>> ELSE upto
  <2>1. \A n \in Nat : zeros(n) \in Seq({0, 1})
    BY IsASeq
  <2>2. upto \in Seq({0, 1})
    <3>1. CASE k > Len(c)
      <4>1. zeros(k - Len(c)) \in Seq({0, 1})
        BY <1>1, <2>1, <3>1
      <4> HIDE DEF zeros
      <4>2. QED
        BY <1>1, <3>1, <4>1, ConcatProperties
    <3>2. CASE ~(k > Len(c))
      BY <1>1, <3>2
    <3>3. QED
      BY <3>1, <3>2
  <2> HIDE DEF upto
  <2>3. <<0>> \in Seq({0, 1})
    OBVIOUS
  <2>4. room \in Seq({0, 1})
    BY <2>2, <2>3, ConcatProperties
  <2> HIDE DEF room
  <2>5. [room EXCEPT ![k + 1] = 1] \in Seq({0, 1})
    <3> DEFINE byte(i) == IF i = k + 1 THEN 1 ELSE room[i]
    <3>1. Len(room) \in Nat /\ DOMAIN room = 1 .. Len(room)
      BY <2>4, LenProperties
    <3>2. \A i \in 1 .. Len(room) : byte(i) \in {0, 1}
      BY <2>4, ElementOfSeq
    <3>3. [room EXCEPT ![k + 1] = 1] = [i \in 1 .. Len(room) |-> byte(i)]
      BY <2>4, <3>1
    <3> HIDE DEF byte
    <3>4. [i \in 1 .. Len(room) |-> byte(i)] \in Seq({0, 1})
      BY <3>1, <3>2, IsASeq
    <3>5. QED
      BY <3>3, <3>4
  <2>6. QED
    BY <2>5 DEF RecordedWrite, Content, room, upto, zeros
<1>3. RecordedTruncate(c, k) \in Content
  BY <1>1, SubSeqProperties DEF RecordedTruncate, Content
<1>4. QED
  BY <1>2, <1>3

\* A mutation that the kernel may ask for leads from a tree to a tree.
LEMMA DiskStaysTree ==
    ASSUME NEW o \in Operation, NEW d \in Tree,
           o.op \in {"FileWrite", "FileTruncate"} => d[o.path] # None
    PROVE  OnDisk(d, o) \in Tree
BY OperationFields, DiskContents, EmptySeq DEF OnDisk, Tree, File, Content

\* So does a replay, whatever the repository holds.
LEMMA ReplayStaysTree ==
    ASSUME NEW o \in Operation, NEW r \in Tree
    PROVE  Replay(r, o) \in Tree
<1>1. <<>> \in Content
  BY DEF Content
<1>2. CASE CanReplay(r, o)
  <2>1. o.op \in {"FileWrite", "FileTruncate"} => r[o.path] \in Content
    BY <1>2, OperationFields DEF CanReplay, NeedsFile, Tree, File
  <2>2. QED
    BY <1>1, <1>2, <2>1, OperationFields, RecordedContents DEF Replay, CanReplay, Tree, File
<1>3. CASE ~CanReplay(r, o)
  BY <1>3 DEF Replay
<1>4. QED
  BY <1>2, <1>3
----------------------------------------------------------------------------
\* What a popped opcode leaves is a queue of opcodes.
LEMMA HeadAndTail ==
    ASSUME NEW S, NEW s \in Seq(S), s # <<>>
    PROVE  /\ Head(s) \in S /\ Head(s) = s[1]
           /\ Tail(s) \in Seq(S) /\ Len(Tail(s)) = Len(s) - 1
           /\ \A i \in 1 .. Len(s) - 1 : Tail(s)[i] = s[i + 1]
BY HeadTailProperties, ElementOfSeq, EmptySeq, LenProperties

LEMMA TouchedPaths ==
    ASSUME NEW o \in Operation
    PROVE  Touched(o) \subseteq Path
<1>1. o.path \in Path /\ o.to \in Path \cup {None}
  BY DEF Operation
<1>2. QED
  BY <1>1 DEF Touched

LEMMA LostPaths ==
    ASSUME TypeOK
    PROVE  Lost \subseteq Path
<1> DEFINE queued == UNION {Touched(queue[k].do) : k \in 1 .. Len(queue)}
           held == IF hand = None THEN {} ELSE Touched(hand.do)
           asked == IF request = None THEN {} ELSE Touched(request)
<1>1. queued \subseteq Path
  <2>1. queue \in Seq(Opcode)
    BY DEF TypeOK
  <2>2. \A k \in 1 .. Len(queue) : queue[k] \in Opcode
    BY <2>1, ElementOfSeq
  <2>3. \A k \in 1 .. Len(queue) : Touched(queue[k].do) \subseteq Path
    BY <2>2, TouchedPaths DEF Opcode
  <2>4. QED
    BY <2>3
<1>2. held \subseteq Path
  BY TouchedPaths DEF TypeOK, Opcode
<1>3. asked \subseteq Path
  BY TouchedPaths DEF TypeOK
<1>4. Lost = queued \cup held \cup asked
  BY DEF Lost
<1> HIDE DEF queued, held, asked
<1>5. QED
  BY <1>1, <1>2, <1>3, <1>4

\* A write or a truncation that is being handled finds its file, whatever is on disk.
RequestFindsFile ==
    request # None /\ request.op \in {"FileWrite", "FileTruncate"} =>
        disk[request.path] # None

Typed == TypeOK /\ RequestFindsFile

LEMMA TypedInit == Init => Typed
<1> SUFFICES ASSUME Init PROVE Typed
  OBVIOUS
<1>1. disk \in [Path -> {None} \cup Content] /\ repo \in [Path -> {None} \cup Content]
  BY PipelineAssumption DEF Init, Content
<1>2. queue \in Seq(Opcode) /\ Len(queue) <= Capacity
  BY PipelineAssumption, EmptySeq DEF Init
<1>3. nextSeq \in 1 .. MaxOps + 1 /\ lastSeq \in 0 .. MaxOps /\ session \in 1 .. MaxSessions
  BY PipelineAssumption DEF Init
<1>4. QED
  BY <1>1, <1>2, <1>3 DEF Init, Typed, TypeOK, RequestFindsFile

LEMMA TypedStep == Typed /\ [Next]_vars => Typed'
<1> SUFFICES ASSUME Typed, [Next]_vars PROVE Typed'
  OBVIOUS
<1> USE DEF Typed
<1>1. ASSUME NEW o \in Operation, Notify(o) PROVE Typed'
  <2>1. nextSeq \in 1 .. MaxOps /\ nextSeq' \in 1 .. MaxOps + 1
    BY <1>1, PipelineAssumption DEF Notify, TypeOK
  <2>2. [seq |-> nextSeq, do |-> o] \in Opcode
    BY <2>1 DEF Opcode
  <2>3. queue' \in Seq(Opcode) /\ Len(queue') <= Capacity
    BY <1>1, <2>2, PipelineAssumption, AppendProperties, LenProperties DEF Notify, TypeOK
  <2>4. Touched(o) \subseteq Path
    BY TouchedPaths
  <2>5. behind' \subseteq Path
    BY <1>1, <2>4 DEF Notify, TypeOK
  <2>6. RequestFindsFile'
    BY <1>1 DEF Notify, Askable, RequestFindsFile
  <2>7. QED
    BY <1>1, <2>1, <2>3, <2>5, <2>6 DEF Notify, TypeOK, consumerVars
<1>2. CASE Perform
  <2>1. disk' \in [Path -> {None} \cup Content]
    BY <1>2, DiskStaysTree DEF Perform, TypeOK, RequestFindsFile, Tree, File
  <2>2. QED
    BY <1>2, <2>1 DEF Perform, TypeOK, RequestFindsFile, consumerVars
<1>3. CASE Refuse
  <2>1. Touched(request) \subseteq Path
    BY <1>3, TouchedPaths DEF Refuse, TypeOK
  <2>2. QED
    BY <1>3, <2>1 DEF Refuse, TypeOK, RequestFindsFile, consumerVars
<1>4. CASE OpenBackend
  BY <1>4 DEF OpenBackend, TypeOK, RequestFindsFile, fuseVars
<1>5. CASE LoopHead
  BY <1>5 DEF LoopHead, TypeOK, RequestFindsFile, fuseVars
<1>6. CASE Poll
  <2>1. CASE queue = <<>>
    BY <1>6, <2>1 DEF Poll, TypeOK, RequestFindsFile, fuseVars
  <2>2. CASE queue # <<>>
    <3>1. Head(queue) \in Opcode /\ Tail(queue) \in Seq(Opcode)
          /\ Len(Tail(queue)) <= Capacity
      BY <2>2, HeadAndTail, LenProperties, PipelineAssumption DEF TypeOK
    <3>2. Head(queue) # None /\ Head(queue).seq \in 0 .. MaxOps
      BY <3>1, NoneAssumption DEF Opcode
    <3>3. QED
      BY <1>6, <2>2, <3>1, <3>2 DEF Poll, TypeOK, RequestFindsFile, fuseVars
  <2>3. QED
    BY <2>1, <2>2
<1>7. CASE ApplyOk
  <2>1. hand.do \in Operation
    BY <1>7 DEF ApplyOk, TypeOK, Opcode
  <2>2. repo' \in [Path -> {None} \cup Content]
    BY <1>7, <2>1, ReplayStaysTree DEF ApplyOk, TypeOK, Tree, File
  <2>3. behind' \subseteq Path
    BY <1>7, <2>1, OperationFields DEF ApplyOk, TypeOK
  <2>4. QED
    BY <1>7, <2>2, <2>3 DEF ApplyOk, TypeOK, RequestFindsFile, fuseVars
<1>8. CASE ApplyErr
  <2>1. hand.do \in Operation
    BY <1>8 DEF ApplyErr, TypeOK, Opcode
  <2>2. Touched(hand.do) \subseteq Path
    BY <2>1, TouchedPaths
  <2>3. QED
    BY <1>8, <2>2 DEF ApplyErr, TypeOK, RequestFindsFile, fuseVars
<1>9. CASE Unmount
  BY <1>9 DEF Unmount, TypeOK, RequestFindsFile, fuseVars, consumerVars
<1>10. CASE ClearRunning
  BY <1>10 DEF ClearRunning, TypeOK, RequestFindsFile, fuseVars, consumerVars
<1>11. ASSUME NEW how \in {"returned", "killed"}, Exit(how) PROVE Typed'
  BY <1>11, LostPaths DEF Exit, TypeOK, RequestFindsFile, fuseVars, consumerVars
<1>12. CASE Remount
  <2>1. queue' \in Seq(Opcode) /\ Len(queue') <= Capacity
    BY <1>12, PipelineAssumption, EmptySeq DEF Remount
  <2>2. session' \in 1 .. MaxSessions /\ nextSeq' \in 1 .. MaxOps + 1
        /\ lastSeq' \in 0 .. MaxOps
    BY <1>12, PipelineAssumption DEF Remount, TypeOK
  <2>3. QED
    BY <1>12, <2>1, <2>2 DEF Remount, TypeOK, RequestFindsFile
<1>13. CASE UNCHANGED vars
  BY <1>13 DEF vars, TypeOK, RequestFindsFile
<1>14. QED
  BY <1>1, <1>2, <1>3, <1>4, <1>5, <1>6, <1>7, <1>8, <1>9, <1>10, <1>11, <1>12, <1>13
  DEF Next, Consume, MainReturns, Killed

\* Every variable of RecordPipeline keeps its type: what the system calls make of a
\* content and what the replays make of it are contents, and an opcode in the consumer's
\* hand is what it means to be between try_pop and apply_opcode (main.rs:272-289,
\* backend.rs:382-450).
THEOREM TypeCorrect == Spec => []TypeOK
<1>1. Spec => []Typed
  BY TypedInit, TypedStep, PTL DEF Spec
<1>2. Typed => TypeOK
  BY DEF Typed
<1>3. QED
  BY <1>1, <1>2, PTL
----------------------------------------------------------------------------
(***************************************************************************)
(* The order of opcodes.  InFlightSorted alone is not inductive for        *)
(* TakenInOrder: when the consumer's hand is empty it says nothing of the  *)
(* number it took last.  Sorted ties that number to the queue.             *)
(***************************************************************************)
Sorted ==
    /\ lastSeq < nextSeq
    /\ hand # None => hand.seq = lastSeq
    /\ \A k \in 1 .. Len(queue) : lastSeq < queue[k].seq /\ queue[k].seq < nextSeq
    /\ \A j, k \in 1 .. Len(queue) : j < k => queue[j].seq < queue[k].seq

LEMMA SortedInit == Init => Sorted
BY DEF Init, Sorted

LEMMA QueuedNumbers ==
    ASSUME TypeOK
    PROVE  /\ lastSeq \in Nat /\ nextSeq \in Nat /\ Len(queue) \in Nat
           /\ \A k \in 1 .. Len(queue) : queue[k].seq \in Nat
<1>1. queue \in Seq(Opcode) /\ lastSeq \in Nat /\ nextSeq \in Nat
  BY PipelineAssumption DEF TypeOK
<1>2. \A k \in 1 .. Len(queue) : queue[k] \in Opcode
  BY <1>1, ElementOfSeq
<1>3. QED
  BY <1>1, <1>2, LenProperties, PipelineAssumption DEF Opcode

LEMMA SortedNotify ==
    ASSUME TypeOK, Sorted, NEW o \in Operation, Notify(o)
    PROVE  Sorted'
<1>1. queue \in Seq(Opcode) /\ nextSeq' = nextSeq + 1 /\ UNCHANGED <<hand, lastSeq>>
  BY DEF Notify, TypeOK, consumerVars
<1>2. CASE queue' = queue
  BY <1>1, <1>2, QueuedNumbers DEF Sorted
<1>3. CASE queue' = Append(queue, [seq |-> nextSeq, do |-> o])
  <2>1. [seq |-> nextSeq, do |-> o] \in Opcode
    BY PipelineAssumption DEF Notify, TypeOK, Opcode
  <2>2. /\ Len(queue') = Len(queue) + 1
        /\ queue'[Len(queue) + 1].seq = nextSeq
        /\ \A k \in 1 .. Len(queue) : queue'[k] = queue[k]
    BY <1>1, <1>3, <2>1, AppendProperties
  <2>3. \A k \in 1 .. Len(queue') :
            \/ k \in 1 .. Len(queue) /\ queue'[k].seq = queue[k].seq
            \/ k = Len(queue) + 1 /\ queue'[k].seq = nextSeq
    BY <2>2, QueuedNumbers
  <2>4. \A k \in 1 .. Len(queue') : lastSeq < queue'[k].seq /\ queue'[k].seq < nextSeq + 1
    BY <2>3, QueuedNumbers DEF Sorted
  <2>5. \A j, k \in 1 .. Len(queue') : j < k => queue'[j].seq < queue'[k].seq
    BY <2>2, <2>3, QueuedNumbers DEF Sorted
  <2>6. QED
    BY <1>1, <2>4, <2>5, QueuedNumbers DEF Sorted
<1>4. QED
  BY <1>2, <1>3 DEF Notify

LEMMA SortedPoll ==
    ASSUME TypeOK, Sorted, Poll
    PROVE  Sorted' /\ (queue # <<>> => lastSeq < lastSeq' /\ lastSeq' < nextSeq)
<1>1. nextSeq' = nextSeq
  BY DEF Poll, fuseVars
<1>2. CASE queue = <<>>
  BY <1>1, <1>2 DEF Poll, Sorted
<1>3. CASE queue # <<>>
  <2>1. queue \in Seq(Opcode)
    BY DEF TypeOK
  <2>2. /\ hand' = queue[1] /\ lastSeq' = queue[1].seq
        /\ Len(queue') = Len(queue) - 1 /\ Len(queue) > 0
        /\ \A k \in 1 .. Len(queue') : queue'[k] = queue[k + 1]
    BY <1>3, <2>1, HeadAndTail, LenProperties, EmptySeq DEF Poll
  <2>3. \A k \in 1 .. Len(queue') : k + 1 \in 1 .. Len(queue) /\ queue'[k] = queue[k + 1]
    BY <2>2, QueuedNumbers
  <2>4. lastSeq < lastSeq' /\ lastSeq' < nextSeq
    BY <2>2, QueuedNumbers DEF Sorted
  <2>5. \A k \in 1 .. Len(queue') : lastSeq' < queue'[k].seq /\ queue'[k].seq < nextSeq
    <3>1. \A k \in 1 .. Len(queue') : 1 < k + 1
      BY QueuedNumbers, <2>2
    <3>2. QED
      BY <2>2, <2>3, <3>1, QueuedNumbers DEF Sorted
  <2>6. \A j, k \in 1 .. Len(queue') : j < k => queue'[j].seq < queue'[k].seq
    <3>1. \A j, k \in 1 .. Len(queue') : j < k => j + 1 < k + 1
      BY QueuedNumbers, <2>2
    <3>2. QED
      BY <2>3, <3>1, QueuedNumbers DEF Sorted
  <2>7. QED
    BY <1>1, <2>2, <2>4, <2>5, <2>6 DEF Sorted
<1>4. QED
  BY <1>2, <1>3

LEMMA SortedStep == TypeOK /\ Sorted /\ [Next]_vars => Sorted'
<1> SUFFICES ASSUME TypeOK, Sorted, [Next]_vars PROVE Sorted'
  OBVIOUS
<1>1. ASSUME NEW o \in Operation, Notify(o) PROVE Sorted'
  BY <1>1, SortedNotify
<1>2. CASE Poll
  BY <1>2, SortedPoll
<1>3. CASE Remount
  BY <1>3 DEF Remount, Sorted
<1>4. CASE ApplyOk \/ ApplyErr
  BY <1>4 DEF ApplyOk, ApplyErr, Sorted, fuseVars
<1>5. CASE /\ UNCHANGED <<queue, hand, lastSeq, nextSeq>>
           /\ \/ Perform \/ Refuse \/ OpenBackend \/ LoopHead \/ Unmount \/ ClearRunning
              \/ MainReturns \/ Killed \/ UNCHANGED vars
  BY <1>5 DEF Sorted
<1>6. QED
  BY <1>1, <1>2, <1>3, <1>4, <1>5
  DEF Next, Consume, Perform, Refuse, OpenBackend, LoopHead, Unmount, ClearRunning,
      MainReturns, Killed, Exit, vars, fuseVars, consumerVars

LEMMA SortedInFlight == TypeOK /\ Sorted => InFlightSorted
<1> SUFFICES ASSUME TypeOK, Sorted PROVE InFlightSorted
  OBVIOUS
<1>1. queue \in Seq(Opcode)
  BY DEF TypeOK
<1>2. CASE hand = None
  <2>1. InFlight = queue
    BY <1>1, <1>2, ConcatEmptySeq DEF InFlight
  <2>2. QED
    BY <2>1, QueuedNumbers DEF Sorted, InFlightSorted
<1>3. CASE hand # None
  <2>1. <<hand>> \in Seq(Opcode) /\ Len(<<hand>>) = 1 /\ <<hand>>[1] = hand
    BY <1>3 DEF TypeOK
  <2>2. InFlight = <<hand>> \o queue
    BY <1>3 DEF InFlight
  <2>3. /\ Len(InFlight) = 1 + Len(queue) /\ InFlight[1] = hand
        /\ \A k \in 2 .. Len(InFlight) : InFlight[k] = queue[k - 1]
    BY <1>1, <2>1, <2>2, ConcatProperties, LenProperties
  <2>4. Len(InFlight) \in Nat /\ hand.seq = lastSeq
    BY <1>3, <2>3, QueuedNumbers DEF Sorted
  <2>5. \A k \in 2 .. Len(InFlight) :
            k - 1 \in 1 .. Len(queue) /\ InFlight[k].seq = queue[k - 1].seq
    BY <2>3, QueuedNumbers
  <2>6. \A k \in 1 .. Len(InFlight) : InFlight[k].seq < nextSeq
    BY <2>3, <2>4, <2>5, QueuedNumbers DEF Sorted
  <2>7. \A k \in 1 .. Len(InFlight) - 1 : InFlight[k].seq < InFlight[k + 1].seq
    <3> SUFFICES ASSUME NEW k \in 1 .. Len(InFlight) - 1
                 PROVE  InFlight[k].seq < InFlight[k + 1].seq
      OBVIOUS
    <3>1. k \in 1 .. Len(queue) /\ InFlight[k + 1].seq = queue[k].seq
      BY <2>3, <2>4, <2>5, QueuedNumbers
    <3>2. CASE k = 1
      BY <2>3, <2>4, <3>1, <3>2 DEF Sorted
    <3>3. CASE k > 1
      <4>1. k - 1 \in 1 .. Len(queue) /\ InFlight[k].seq = queue[k - 1].seq
        BY <2>4, <2>5, <3>3
      <4>2. QED
        BY <3>1, <4>1, QueuedNumbers DEF Sorted
    <3>4. QED
      BY <2>4, <3>2, <3>3
  <2>8. QED
    BY <2>4, <2>6, <2>7 DEF InFlightSorted
<1>4. QED
  BY <1>2, <1>3

\* The numbers of the opcodes on their way to the repository grow strictly, the one the
\* consumer holds first, and stay below the recorder's counter (recorder.rs:98-100,
\* queue.rs:91-145).
THEOREM NumbersGrow == Spec => []InFlightSorted
<1>1. Spec => []Sorted
  BY TypeCorrect, SortedInit, SortedStep, PTL DEF Spec
<1>2. QED
  BY <1>1, TypeCorrect, SortedInFlight, PTL

\* No step of any thread makes the consumer take an opcode a second time, or an older one
\* after a newer one; only a new mount starts the numbers again (main.rs:269-289).
THEOREM OrderOfReplay == Spec => TakenInOrder
<1> DEFINE InOrder ==
        lastSeq' # lastSeq => \/ lastSeq' > lastSeq /\ lastSeq' < nextSeq
                              \/ session' # session
<1>1. TypeOK /\ Sorted /\ [Next]_vars => [InOrder]_vars
  <2> SUFFICES ASSUME TypeOK, Sorted, [Next]_vars, lastSeq' # lastSeq
               PROVE  \/ lastSeq' > lastSeq /\ lastSeq' < nextSeq
                      \/ session' # session
    OBVIOUS
  <2>1. CASE Poll
    <3>1. queue # <<>>
      BY <2>1 DEF Poll
    <3>2. QED
      BY <2>1, <3>1, SortedPoll
  <2>2. CASE Remount
    BY <2>2 DEF Remount, TypeOK
  <2>3. QED
    BY <2>1, <2>2
    DEF Next, Notify, Perform, Refuse, Consume, OpenBackend, LoopHead, ApplyOk, ApplyErr,
        Unmount, ClearRunning, MainReturns, Killed, Exit, vars, consumerVars
<1>2. Spec => []Sorted
  BY TypeCorrect, SortedInit, SortedStep, PTL DEF Spec
<1>3. QED
  BY <1>1, <1>2, TypeCorrect, PTL DEF Spec, TakenInOrder
----------------------------------------------------------------------------
(***************************************************************************)
(* Replays one after the other.  Replayed is a recursive function, so what *)
(* holds of it is proved by induction, carried out by hand on a smallest   *)
(* counterexample.                                                         *)
(***************************************************************************)

\* A set of numbers that holds 0, and with a number below n the next one.
LEMMA Counting ==
    ASSUME NEW n \in Nat, NEW B, 0 \in B,
           \A j \in 0 .. n - 1 : j \in B => j + 1 \in B
    PROVE  0 .. n \subseteq B
<1> DEFINE R == OpToRel(<, Nat)
           Bad == (0 .. n) \ B
<1>1. IsWellFoundedOn(R, Nat)
  BY NatLessThanWellFounded
<1>2. \A x \in Nat, y \in Nat : y < x => <<y, x>> \in R
  BY DEF OpToRel
<1> HIDE DEF R
<1>3. SUFFICES ASSUME Bad # {} PROVE FALSE
  OBVIOUS
<1>4. Bad \in SUBSET Nat
  OBVIOUS
<1>5. PICK x \in Bad : \A y \in Bad : ~(<<y, x>> \in R)
  <2> HIDE DEF Bad
  <2> QED BY <1>1, <1>3, <1>4, WFMin
<1>6. x \in 1 .. n
  BY <1>5
<1>7. x - 1 \in 0 .. n - 1 /\ x - 1 \in 0 .. n /\ x - 1 \in Nat /\ x \in Nat /\ x - 1 < x
  BY <1>6
<1>8. x - 1 \notin Bad
  BY <1>2, <1>5, <1>7
<1>9. (x - 1) + 1 \in B
  BY <1>7, <1>8
<1>10. QED
  BY <1>5, <1>6, <1>9

\* g[j] is what the first j opcodes of s make of r.
Run(r, s, n, g) == g = [j \in 0 .. n |-> IF j = 0 THEN r ELSE Replay(g[j - 1], s[j].do)]

LEMMA ReplayedIsRun ==
    ASSUME NEW r, NEW s
    PROVE  Replayed(r, s) = (CHOOSE g : Run(r, s, Len(s), g))[Len(s)]
  BY DEF Replayed, Run

StepByStep(r, s, n, g) ==
    g[0] = r /\ \A j \in 0 .. n - 1 : g[j + 1] = Replay(g[j], s[j + 1].do)

LEMMA RunSteps ==
    ASSUME NEW r, NEW s, NEW n \in Nat, NEW g, Run(r, s, n, g)
    PROVE  StepByStep(r, s, n, g)
<1>1. \A j \in 0 .. n : g[j] = IF j = 0 THEN r ELSE Replay(g[j - 1], s[j].do)
  BY DEF Run
<1>2. 0 \in 0 .. n
  OBVIOUS
<1>3. ASSUME NEW j \in 0 .. n - 1 PROVE g[j + 1] = Replay(g[j], s[j + 1].do)
  <2>1. j + 1 \in 0 .. n /\ j + 1 # 0 /\ (j + 1) - 1 = j
    OBVIOUS
  <2>2. QED
    BY <1>1, <2>1
<1>4. QED
  BY <1>1, <1>2, <1>3 DEF StepByStep

LEMMA RunGoesOn ==
    ASSUME NEW r, NEW s, NEW n \in Nat, NEW g, Run(r, s, n, g)
    PROVE  \E h : Run(r, s, n + 1, h)
<1> DEFINE h == [j \in 0 .. n + 1 |-> IF j = n + 1 THEN Replay(g[n], s[n + 1].do) ELSE g[j]]
<1>1. \A j \in 0 .. n : g[j] = IF j = 0 THEN r ELSE Replay(g[j - 1], s[j].do)
  BY DEF Run
<1>2. \A j \in 0 .. n : h[j] = g[j]
  OBVIOUS
<1>3. h[n + 1] = Replay(g[n], s[n + 1].do)
  OBVIOUS
<1>4. DOMAIN h = 0 .. n + 1 /\ h = [j \in 0 .. n + 1 |-> h[j]]
  OBVIOUS
<1> HIDE DEF h
<1>5. ASSUME NEW j \in 0 .. n + 1
      PROVE  h[j] = IF j = 0 THEN r ELSE Replay(h[j - 1], s[j].do)
  <2>1. CASE j = 0
    <3>1. 0 \in 0 .. n
      OBVIOUS
    <3>2. QED
      BY <1>1, <1>2, <2>1, <3>1
  <2>2. CASE j \in 1 .. n
    <3>1. j \in 0 .. n /\ j - 1 \in 0 .. n /\ j # 0
      BY <2>2
    <3>2. h[j] = g[j] /\ h[j - 1] = g[j - 1]
      BY <1>2, <3>1
    <3>3. QED
      BY <1>1, <3>1, <3>2
  <2>3. CASE j = n + 1
    <3>1. j - 1 = n /\ n \in 0 .. n /\ j # 0
      BY <2>3
    <3>2. QED
      BY <1>2, <1>3, <2>3, <3>1
  <2>4. QED
    BY <2>1, <2>2, <2>3
<1>6. h = [j \in 0 .. n + 1 |-> IF j = 0 THEN r ELSE Replay(h[j - 1], s[j].do)]
  BY <1>4, <1>5
<1>7. QED
  BY <1>6 DEF Run

LEMMA RunExists ==
    ASSUME NEW r, NEW s, NEW n \in Nat
    PROVE  \E g : Run(r, s, n, g)
<1> DEFINE B == {j \in 0 .. n : \E g : Run(r, s, j, g)}
<1>1. 0 \in B
  <2> DEFINE g == [j \in 0 .. 0 |-> r]
  <2>1. g = [j \in 0 .. 0 |-> g[j]] /\ g[0] = r
    OBVIOUS
  <2> HIDE DEF g
  <2>2. \A j \in 0 .. 0 : g[j] = IF j = 0 THEN r ELSE Replay(g[j - 1], s[j].do)
    <3>1. \A j \in 0 .. 0 : j = 0
      OBVIOUS
    <3>2. QED
      BY <2>1, <3>1
  <2>3. Run(r, s, 0, g)
    BY <2>1, <2>2 DEF Run
  <2>4. QED
    BY <2>3
<1>2. ASSUME NEW j \in 0 .. n - 1, j \in B PROVE j + 1 \in B
  <2>1. PICK g : Run(r, s, j, g)
    BY <1>2
  <2>2. j \in Nat /\ j + 1 \in 0 .. n
    OBVIOUS
  <2>3. QED
    BY <2>1, <2>2, RunGoesOn
<1>3. n \in B
  <2> HIDE DEF B
  <2>1. 0 .. n \subseteq B
    BY <1>1, <1>2, Counting
  <2>2. QED
    BY <2>1
<1>4. QED
  BY <1>3

LEMMA RunUnique ==
    ASSUME NEW r, NEW s, NEW n \in Nat, NEW g, Run(r, s, n, g), NEW h, Run(r, s, n, h)
    PROVE  g[n] = h[n]
<1> DEFINE B == {j \in 0 .. n : g[j] = h[j]}
<1>1. 0 \in B
  BY RunSteps DEF StepByStep
<1>2. ASSUME NEW j \in 0 .. n - 1, j \in B PROVE j + 1 \in B
  <2>1. j + 1 \in 0 .. n /\ g[j] = h[j]
    BY <1>2
  <2>2. g[j + 1] = Replay(g[j], s[j + 1].do) /\ h[j + 1] = Replay(h[j], s[j + 1].do)
    BY RunSteps DEF StepByStep
  <2>3. QED
    BY <2>1, <2>2
<1>3. n \in B
  <2> HIDE DEF B
  <2>1. 0 .. n \subseteq B
    BY <1>1, <1>2, Counting
  <2>2. QED
    BY <2>1
<1>4. QED
  BY <1>3

LEMMA ReplayedBy ==
    ASSUME NEW r, NEW s, Len(s) \in Nat, NEW g, Run(r, s, Len(s), g)
    PROVE  Replayed(r, s) = g[Len(s)]
<1>1. Run(r, s, Len(s), CHOOSE x : Run(r, s, Len(s), x))
  OBVIOUS
<1>2. QED
  BY <1>1, RunUnique, ReplayedIsRun

\* Nothing replayed, one opcode more at the end, and one at the front.
LEMMA ReplayedNothing ==
    ASSUME NEW r PROVE Replayed(r, <<>>) = r
<1>1. Len(<<>>) = 0 /\ 0 \in Nat
  OBVIOUS
<1>2. PICK g : Run(r, <<>>, 0, g)
  BY RunExists
<1>3. g[0] = r
  BY <1>2, RunSteps DEF StepByStep
<1>4. QED
  BY <1>1, <1>2, <1>3, ReplayedBy

LEMMA ReplayedOnto ==
    ASSUME NEW r, NEW s \in Seq(Opcode), NEW x \in Opcode
    PROVE  Replayed(r, Append(s, x)) = Replay(Replayed(r, s), x.do)
<1> DEFINE n == Len(s)
           t == Append(s, x)
<1>1. n \in Nat /\ Len(t) = n + 1 /\ t[n + 1] = x /\ \A j \in 1 .. n : t[j] = s[j]
  BY AppendProperties, LenProperties
<1>2. n = Len(s)
  OBVIOUS
<1> HIDE DEF n, t
<1>3. PICK g : Run(r, t, n + 1, g)
  <2>1. n + 1 \in Nat
    BY <1>1
  <2>2. QED
    BY ONLY <2>1, RunExists
<1> DEFINE h == [j \in 0 .. n |-> g[j]]
<1>4. g[0] = r /\ \A j \in 0 .. n : g[j + 1] = Replay(g[j], t[j + 1].do)
  <2>1. n + 1 \in Nat /\ (n + 1) - 1 = n
    BY <1>1
  <2>2. StepByStep(r, t, n + 1, g)
    BY ONLY <1>3, <2>1, RunSteps
  <2>3. QED
    BY <2>1, <2>2 DEF StepByStep
<1>5. \A j \in 0 .. n : h[j] = g[j]
  OBVIOUS
<1>6. h = [j \in 0 .. n |-> h[j]]
  OBVIOUS
<1> HIDE DEF h
<1>7. ASSUME NEW j \in 0 .. n PROVE h[j] = IF j = 0 THEN r ELSE Replay(h[j - 1], s[j].do)
  <2>1. CASE j = 0
    BY <1>4, <1>5, <2>1
  <2>2. CASE j # 0
    <3>1. j - 1 \in 0 .. n /\ (j - 1) + 1 = j /\ j \in 1 .. n
      BY <1>1, <2>2
    <3>2. g[j] = Replay(g[j - 1], t[j].do) /\ t[j] = s[j]
      BY <1>1, <1>4, <3>1
    <3>3. h[j] = g[j] /\ h[j - 1] = g[j - 1]
      BY <1>5, <3>1
    <3>4. QED
      BY <2>2, <3>2, <3>3
  <2>3. QED
    BY <2>1, <2>2
<1>8. Run(r, s, n, h)
  BY <1>6, <1>7 DEF Run
<1>9. Replayed(r, s) = h[n]
  BY <1>1, <1>2, <1>8, ReplayedBy
<1>10. Replayed(r, t) = g[n + 1]
  BY <1>1, <1>3, ReplayedBy
<1>11. n \in 0 .. n
  BY <1>1
<1>12. g[n + 1] = Replay(g[n], x.do) /\ h[n] = g[n]
  BY <1>1, <1>4, <1>5, <1>11
<1>13. QED
  BY <1>9, <1>10, <1>12 DEF t

LEMMA ReplayedFirst ==
    ASSUME NEW r, NEW s \in Seq(Opcode), NEW x \in Opcode
    PROVE  Replayed(r, <<x>> \o s) = Replayed(Replay(r, x.do), s)
<1> DEFINE n == Len(s)
           t == <<x>> \o s
<1>1. n \in Nat /\ Len(t) = n + 1 /\ t[1] = x /\ \A j \in 1 .. n : t[j + 1] = s[j]
  <2>1. n \in Nat /\ <<x>> \in Seq(Opcode) /\ Len(<<x>>) = 1 /\ <<x>>[1] = x
    BY LenProperties
  <2>2. /\ Len(t) = 1 + n /\ t[1] = x
        /\ \A j \in 2 .. n + 1 : t[j] = s[j - 1]
    BY <2>1, ConcatProperties
  <2> HIDE DEF t, n
  <2>3. ASSUME NEW j \in 1 .. n PROVE t[j + 1] = s[j]
    <3>1. j + 1 \in 2 .. n + 1 /\ (j + 1) - 1 = j
      BY <2>1
    <3>2. QED
      BY <2>2, <3>1
  <2>4. QED
    BY <2>1, <2>2, <2>3
<1>2. n = Len(s)
  OBVIOUS
<1> HIDE DEF n, t
<1>3. PICK g : Run(r, t, n + 1, g)
  <2>1. n + 1 \in Nat
    BY <1>1
  <2>2. QED
    BY ONLY <2>1, RunExists
<1> DEFINE h == [j \in 0 .. n |-> g[j + 1]]
<1>4. g[0] = r /\ \A j \in 0 .. n : g[j + 1] = Replay(g[j], t[j + 1].do)
  <2>1. n + 1 \in Nat /\ (n + 1) - 1 = n
    BY <1>1
  <2>2. StepByStep(r, t, n + 1, g)
    BY ONLY <1>3, <2>1, RunSteps
  <2>3. QED
    BY <2>1, <2>2 DEF StepByStep
<1>5. \A j \in 0 .. n : h[j] = g[j + 1]
  OBVIOUS
<1>6. h = [j \in 0 .. n |-> h[j]]
  OBVIOUS
<1> HIDE DEF h
<1>7. ASSUME NEW j \in 0 .. n
      PROVE  h[j] = IF j = 0 THEN Replay(r, x.do) ELSE Replay(h[j - 1], s[j].do)
  <2>1. CASE j = 0
    <3>1. 0 \in 0 .. n /\ 0 + 1 = 1
      BY <1>1
    <3>2. QED
      BY <1>1, <1>4, <1>5, <2>1, <3>1
  <2>2. CASE j # 0
    <3>1. j - 1 \in 0 .. n /\ (j - 1) + 1 = j /\ j \in 1 .. n
      BY <1>1, <2>2
    <3>2. g[j + 1] = Replay(g[j], t[j + 1].do) /\ t[j + 1] = s[j]
      BY <1>1, <1>4, <3>1
    <3>3. h[j] = g[j + 1] /\ h[j - 1] = g[j]
      BY <1>5, <3>1
    <3>4. QED
      BY <2>2, <3>2, <3>3
  <2>3. QED
    BY <2>1, <2>2
<1>8. Run(Replay(r, x.do), s, n, h)
  BY <1>6, <1>7 DEF Run
<1>9. Replayed(Replay(r, x.do), s) = h[n]
  BY <1>1, <1>2, <1>8, ReplayedBy
<1>10. Replayed(r, t) = g[n + 1]
  BY <1>1, <1>3, ReplayedBy
<1>11. n \in 0 .. n
  BY <1>1
<1>12. h[n] = g[n + 1]
  BY <1>5, <1>11
<1>13. QED
  BY <1>9, <1>10, <1>12 DEF t
----------------------------------------------------------------------------
(***************************************************************************)
(* Bytes.  What a replay makes of a content is what the system call made   *)
(* of it, a truncation that extends the file apart.                        *)
(***************************************************************************)
LEMMA WriteMatches ==
    ASSUME NEW c \in Content, NEW k \in Nat
    PROVE  RecordedWrite(c, k) = Pwrite(c, k)
<1> DEFINE zeros(n) == [i \in 1 .. n |-> 0]
           upto == IF k > Len(c) THEN c \o zeros(k - Len(c)) ELSE c
           room == IF k + 1 > Len(upto) THEN upto \o <<0>> ELSE upto
           old(i) == IF i <= Len(c) THEN c[i] ELSE 0
           size == IF k < Len(c) THEN Len(c) ELSE k + 1
<1>1. Len(c) \in Nat /\ c \in Seq({0, 1}) /\ k \in Nat
  BY LenProperties DEF Content
<1>2. /\ upto \in Seq({0, 1}) /\ Len(upto) = IF k > Len(c) THEN k ELSE Len(c)
      /\ \A i \in 1 .. Len(upto) : upto[i] = old(i)
  <2>1. CASE k > Len(c)
    <3>1. k - Len(c) \in Nat
      BY <1>1, <2>1
    <3>2. zeros(k - Len(c)) \in Seq({0, 1}) /\ Len(zeros(k - Len(c))) = k - Len(c)
          /\ \A i \in 1 .. k - Len(c) : zeros(k - Len(c))[i] = 0
      BY <3>1, IsASeq
    <3>3. upto = c \o zeros(k - Len(c))
      BY <2>1
    <3> HIDE DEF zeros, upto
    <3>4. /\ upto \in Seq({0, 1}) /\ Len(upto) = Len(c) + (k - Len(c))
          /\ \A i \in 1 .. Len(c) : upto[i] = c[i]
          /\ \A i \in Len(c) + 1 .. Len(c) + (k - Len(c)) :
                 upto[i] = zeros(k - Len(c))[i - Len(c)]
      <4> DEFINE z == zeros(k - Len(c))
      <4>1. z \in Seq({0, 1}) /\ Len(z) = k - Len(c) /\ upto = c \o z
        BY <3>2, <3>3
      <4> HIDE DEF z
      <4>2. /\ upto \in Seq({0, 1}) /\ Len(upto) = Len(c) + Len(z)
            /\ \A i \in 1 .. Len(c) + Len(z) :
                   upto[i] = IF i <= Len(c) THEN c[i] ELSE z[i - Len(c)]
        BY <1>1, <4>1, ConcatProperties
      <4>3. QED
        BY <1>1, <2>1, <4>1, <4>2 DEF z
    <3>5. Len(upto) = k
      BY <1>1, <2>1, <3>4
    <3>6. ASSUME NEW i \in 1 .. Len(upto), ~(i <= Len(c)) PROVE upto[i] = 0
      <4>1. i \in Len(c) + 1 .. Len(c) + (k - Len(c)) /\ i - Len(c) \in 1 .. k - Len(c)
        BY <1>1, <2>1, <3>5, <3>6
      <4>2. QED
        BY <3>2, <3>4, <4>1
    <3>7. \A i \in 1 .. Len(upto) : upto[i] = old(i)
      BY <1>1, <3>4, <3>5, <3>6
    <3>8. QED
      BY <2>1, <3>4, <3>5, <3>7
  <2>2. CASE ~(k > Len(c))
    BY <1>1, <2>2
  <2>3. QED
    BY <2>1, <2>2
<1> HIDE DEF upto
<1>3. /\ room \in Seq({0, 1}) /\ Len(room) = size
      /\ \A i \in 1 .. size : room[i] = old(i)
  <2>1. CASE k + 1 > Len(upto)
    <3>1. <<0>> \in Seq({0, 1}) /\ Len(<<0>>) = 1 /\ <<0>>[1] = 0
      OBVIOUS
    <3>2. Len(upto) = k /\ size = k + 1 /\ ~(k + 1 <= Len(c))
      BY <1>1, <1>2, <2>1
    <3>3. room = upto \o <<0>>
      BY <2>1
    <3>4. /\ room \in Seq({0, 1}) /\ Len(room) = k + 1
          /\ \A i \in 1 .. k + 1 : room[i] = IF i <= k THEN upto[i] ELSE <<0>>[i - k]
      <4>1. /\ upto \o <<0>> \in Seq({0, 1}) /\ Len(upto \o <<0>>) = Len(upto) + Len(<<0>>)
            /\ \A i \in 1 .. Len(upto) + Len(<<0>>) :
                   (upto \o <<0>>)[i] = IF i <= Len(upto) THEN upto[i]
                                        ELSE <<0>>[i - Len(upto)]
        BY <1>2, <3>1, ConcatProperties
      <4>2. QED
        BY <3>1, <3>2, <3>3, <4>1
    <3> HIDE DEF room
    <3>5. ASSUME NEW i \in 1 .. k + 1 PROVE room[i] = old(i)
      <4>1. CASE i <= k
        BY <1>1, <1>2, <3>2, <3>4, <4>1
      <4>2. CASE i = k + 1
        <5>1. i - k = 1 /\ ~(i <= k)
          BY <1>1, <4>2
        <5>2. QED
          BY <3>1, <3>2, <3>4, <4>2, <5>1
      <4>3. QED
        BY <1>1, <4>1, <4>2
    <3>6. QED
      BY <3>2, <3>4, <3>5
  <2>2. CASE ~(k + 1 > Len(upto))
    <3>1. Len(upto) = size
      BY <1>1, <1>2, <2>2
    <3>2. QED
      BY <1>2, <2>2, <3>1
  <2>3. QED
    BY <2>1, <2>2
<1> HIDE DEF room
<1>4. [room EXCEPT ![k + 1] = 1] = [i \in 1 .. size |-> IF i = k + 1 THEN 1 ELSE old(i)]
  <2>1. room = [i \in 1 .. size |-> room[i]]
    BY <1>3
  <2>2. QED
    BY <1>3, <2>1
<1>5. RecordedWrite(c, k) = [room EXCEPT ![k + 1] = 1]
  BY DEF RecordedWrite, room, upto
<1>6. Pwrite(c, k) = [i \in 1 .. size |-> IF i = k + 1 THEN 1 ELSE old(i)]
  BY DEF Pwrite
<1>7. QED
  BY <1>4, <1>5, <1>6

LEMMA TruncateMatches ==
    ASSUME NEW c \in Content, NEW n \in Nat, n <= Len(c)
    PROVE  RecordedTruncate(c, n) = SetLen(c, n)
<1>1. Len(c) \in Nat /\ c \in Seq({0, 1}) /\ c = [i \in 1 .. Len(c) |-> c[i]]
  BY LenProperties DEF Content
<1>2. CASE n < Len(c)
  <2>1. SubSeq(c, 1, n) \in Seq({0, 1}) /\ Len(SubSeq(c, 1, n)) = n
        /\ \A i \in 1 .. n : SubSeq(c, 1, n)[i] = c[i]
    BY <1>1, <1>2, SubSeqProperties
  <2>2. SubSeq(c, 1, n) = [i \in 1 .. n |-> c[i]]
    BY <2>1, LenProperties
  <2>3. SetLen(c, n) = [i \in 1 .. n |-> c[i]]
    BY <1>1, <1>2 DEF SetLen
  <2>4. QED
    BY <1>2, <2>2, <2>3 DEF RecordedTruncate
<1>3. CASE n = Len(c)
  BY <1>1, <1>3 DEF RecordedTruncate, SetLen
<1>4. QED
  BY <1>1, <1>2, <1>3
----------------------------------------------------------------------------
(***************************************************************************)
(* Paths.  An opcode changes the files of its paths, and what it makes of  *)
(* a file that it does not rename depends on that file alone.              *)
(***************************************************************************)
LEMMA OnDiskElsewhere ==
    ASSUME NEW o \in Operation, NEW d \in Tree, NEW p \in Path, p \notin Touched(o)
    PROVE  OnDisk(d, o)[p] = d[p]
<1>1. p # o.path /\ p # o.to
  BY PipelineAssumption DEF Touched
<1>2. QED
  BY <1>1, OperationFields DEF OnDisk, Tree

LEMMA ReplayElsewhere ==
    ASSUME NEW o \in Operation, NEW r \in Tree, NEW p \in Path, p \notin Touched(o)
    PROVE  Replay(r, o)[p] = r[p]
<1>1. p # o.path /\ p # o.to
  BY PipelineAssumption DEF Touched
<1>2. QED
  BY <1>1, OperationFields DEF Replay, CanReplay, NeedsFile, Tree

\* What a replay that is not a rename makes of one file's content.
LEMMA ReplayAgrees ==
    ASSUME NEW o \in Operation, NEW r1 \in Tree, NEW r2 \in Tree, NEW p \in Path,
           r1[p] = r2[p], o.op = "FileRename" => p \notin Touched(o)
    PROVE  Replay(r1, o)[p] = Replay(r2, o)[p]
<1>1. CASE p \notin Touched(o)
  BY <1>1, ReplayElsewhere
<1>2. CASE o.op # "FileRename" /\ p = o.path
  <2>1. CanReplay(r1, o) <=> CanReplay(r2, o)
    BY <1>2 DEF CanReplay
  <2>2. QED
    BY <1>2, <2>1, OperationFields DEF Replay, CanReplay, Tree
<1>3. CASE o.op # "FileRename" /\ p # o.path
  <2>1. o.to = None
    BY <1>3 DEF Operation
  <2>2. QED
    BY <1>1, <1>3, <2>1 DEF Touched
<1>4. QED
  BY <1>1, <1>2, <1>3

\* A file that agrees before a mutation agrees after it, when the mutation is one that a
\* replay can follow.
LEMMA OneMoreAgrees ==
    ASSUME NEW o \in Operation, NEW v \in Tree, NEW d \in Tree, NEW p \in Path,
           Agree(v[p], d[p]), o.op # "FileRename",
           p = o.path => IF o.op = "FileCreate" THEN d[p] = None ELSE d[p] # None,
           p = o.path /\ o.op = "FileTruncate" => o.at <= Len(d[p])
    PROVE  Agree(Replay(v, o)[p], OnDisk(d, o)[p])
<1>1. CASE p \notin Touched(o)
  BY <1>1, ReplayElsewhere, OnDiskElsewhere
<1>2. CASE p = o.path
  <2>1. d[p] \in File /\ v[p] \in File /\ o.at \in Nat
    BY OperationFields DEF Tree
  <2>2. CASE o.op = "FileCreate"
    BY <1>2, <2>1, <2>2 DEF Replay, CanReplay, NeedsFile, OnDisk, Agree, Tree
  <2>3. CASE o.op = "Other"
    BY <1>2, <2>3 DEF Replay, CanReplay, OnDisk
  <2>4. CASE o.op \in {"FileWrite", "FileTruncate", "FileDelete"}
    <3>1. d[p] \in Content /\ v[p] = d[p] /\ d[p] # None
      BY <1>2, <2>1, <2>4 DEF File, Agree
    <3>2. CanReplay(v, o)
      BY <1>2, <2>4, <3>1 DEF CanReplay, NeedsFile
    <3>3. CASE o.op = "FileWrite"
      <4>1. Replay(v, o)[p] = RecordedWrite(v[p], o.at)
        BY <1>2, <3>2, <3>3 DEF Replay, Tree
      <4>2. OnDisk(d, o)[p] = Pwrite(d[p], o.at)
        BY <1>2, <3>3 DEF OnDisk, Tree
      <4>3. RecordedWrite(d[p], o.at) = Pwrite(d[p], o.at)
        BY <2>1, <3>1, WriteMatches
      <4>4. QED
        BY <3>1, <4>1, <4>2, <4>3 DEF Agree
    <3>4. CASE o.op = "FileTruncate"
      <4>1. Replay(v, o)[p] = RecordedTruncate(v[p], o.at)
        BY <1>2, <3>2, <3>4 DEF Replay, Tree
      <4>2. OnDisk(d, o)[p] = SetLen(d[p], o.at)
        BY <1>2, <3>4 DEF OnDisk, Tree
      <4>3. RecordedTruncate(d[p], o.at) = SetLen(d[p], o.at)
        BY <1>2, <2>1, <3>1, <3>4, TruncateMatches
      <4>4. QED
        BY <3>1, <4>1, <4>2, <4>3 DEF Agree
    <3>5. CASE o.op = "FileDelete"
      BY <1>2, <3>2, <3>5 DEF Replay, OnDisk, Agree, Tree
    <3>6. QED
      BY <2>4, <3>3, <3>4, <3>5
  <2>5. QED
    BY <2>2, <2>3, <2>4, OperationFields
<1>3. QED
  <2>1. o.to = None
    BY DEF Operation
  <2>2. QED
    BY <1>1, <1>2, <2>1 DEF Touched

\* The same of several replays.
LEMMA OpcodesDo ==
    ASSUME NEW s \in Seq(Opcode)
    PROVE  \A j \in 1 .. Len(s) : s[j].do \in Operation
<1>1. \A j \in 1 .. Len(s) : s[j] \in Opcode
  BY ElementOfSeq
<1>2. QED
  BY <1>1 DEF Opcode

LEMMA RunStaysTree ==
    ASSUME NEW r \in Tree, NEW s \in Seq(Opcode), NEW g, Run(r, s, Len(s), g)
    PROVE  \A j \in 0 .. Len(s) : g[j] \in Tree
<1> DEFINE n == Len(s)
           B == {j \in 0 .. n : g[j] \in Tree}
<1>1. n \in Nat /\ \A j \in 1 .. n : s[j].do \in Operation
  BY LenProperties, OpcodesDo
<1>2. g[0] = r /\ \A j \in 0 .. n - 1 : g[j + 1] = Replay(g[j], s[j + 1].do)
  <2>1. n \in Nat /\ Run(r, s, n, g)
    BY <1>1
  <2> HIDE DEF n
  <2>2. StepByStep(r, s, n, g)
    BY ONLY <2>1, RunSteps
  <2>3. QED
    BY <2>2 DEF StepByStep
<1> HIDE DEF n
<1>3. 0 \in B
  BY <1>1, <1>2
<1>4. ASSUME NEW j \in 0 .. n - 1, j \in B PROVE j + 1 \in B
  <2>1. j + 1 \in 0 .. n /\ j + 1 \in 1 .. n /\ g[j] \in Tree
    BY <1>1, <1>4
  <2>2. s[j + 1].do \in Operation
    BY <1>1, <2>1
  <2>3. Replay(g[j], s[j + 1].do) \in Tree
    BY ONLY <2>1, <2>2, ReplayStaysTree
  <2>4. QED
    BY <1>2, <2>1, <2>3
<1>5. 0 .. n \subseteq B
  <2> HIDE DEF B
  <2>1. \A j \in 0 .. n - 1 : j \in B => j + 1 \in B
    BY <1>4
  <2>2. QED
    BY ONLY <1>1, <1>3, <2>1, Counting
<1>6. QED
  BY <1>5 DEF n

LEMMA ReplayedRun ==
    ASSUME NEW r \in Tree, NEW s \in Seq(Opcode)
    PROVE  \E g : Run(r, s, Len(s), g) /\ Replayed(r, s) = g[Len(s)]
<1>1. Len(s) \in Nat
  BY LenProperties
<1>2. PICK g : Run(r, s, Len(s), g)
  BY ONLY <1>1, RunExists
<1>3. Replayed(r, s) = g[Len(s)]
  BY ONLY <1>1, <1>2, ReplayedBy
<1>4. QED
  BY <1>2, <1>3

LEMMA ReplayedStaysTree ==
    ASSUME NEW r \in Tree, NEW s \in Seq(Opcode)
    PROVE  Replayed(r, s) \in Tree
<1>1. PICK g : Run(r, s, Len(s), g) /\ Replayed(r, s) = g[Len(s)]
  BY ReplayedRun
<1>2. \A j \in 0 .. Len(s) : g[j] \in Tree
  BY ONLY <1>1, RunStaysTree, r \in Tree, s \in Seq(Opcode)
<1>3. Len(s) \in 0 .. Len(s)
  BY LenProperties
<1>4. QED
  BY <1>1, <1>2, <1>3

LEMMA ReplayedAgrees ==
    ASSUME NEW r1 \in Tree, NEW r2 \in Tree, NEW s \in Seq(Opcode), NEW p \in Path,
           r1[p] = r2[p],
           \A k \in 1 .. Len(s) : s[k].do.op = "FileRename" => p \notin Touched(s[k].do)
    PROVE  Replayed(r1, s)[p] = Replayed(r2, s)[p]
<1> DEFINE n == Len(s)
<1>1. n \in Nat /\ \A j \in 1 .. n : s[j].do \in Operation
  BY LenProperties, OpcodesDo
<1>2. PICK g : Run(r1, s, n, g) /\ Replayed(r1, s) = g[n]
  BY ReplayedRun
<1>3. PICK h : Run(r2, s, n, h) /\ Replayed(r2, s) = h[n]
  BY ReplayedRun
<1> DEFINE B == {j \in 0 .. n : g[j][p] = h[j][p]}
<1>4. \A j \in 0 .. n : g[j] \in Tree /\ h[j] \in Tree
  <2>1. \A j \in 0 .. n : g[j] \in Tree
    BY ONLY <1>2, RunStaysTree, r1 \in Tree, s \in Seq(Opcode)
  <2>2. \A j \in 0 .. n : h[j] \in Tree
    BY ONLY <1>3, RunStaysTree, r2 \in Tree, s \in Seq(Opcode)
  <2>3. QED
    BY <2>1, <2>2
<1>5. \A j \in 1 .. n : s[j].do.op = "FileRename" => p \notin Touched(s[j].do)
  OBVIOUS
<1> HIDE DEF n
<1>6. g[0] = r1 /\ \A j \in 0 .. n - 1 : g[j + 1] = Replay(g[j], s[j + 1].do)
  <2>1. n \in Nat /\ Run(r1, s, n, g)
    BY <1>1, <1>2
  <2>2. StepByStep(r1, s, n, g)
    BY ONLY <2>1, RunSteps
  <2>3. QED
    BY <2>2 DEF StepByStep
<1>7. h[0] = r2 /\ \A j \in 0 .. n - 1 : h[j + 1] = Replay(h[j], s[j + 1].do)
  <2>1. n \in Nat /\ Run(r2, s, n, h)
    BY <1>1, <1>3
  <2>2. StepByStep(r2, s, n, h)
    BY ONLY <2>1, RunSteps
  <2>3. QED
    BY <2>2 DEF StepByStep
<1>8. 0 \in B
  BY <1>1, <1>6, <1>7
<1>9. ASSUME NEW j \in 0 .. n - 1, j \in B PROVE j + 1 \in B
  <2>1. j + 1 \in 0 .. n /\ j + 1 \in 1 .. n /\ j \in 0 .. n /\ g[j][p] = h[j][p]
    BY <1>1, <1>9
  <2>2. s[j + 1].do \in Operation
        /\ (s[j + 1].do.op = "FileRename" => p \notin Touched(s[j + 1].do))
    BY <1>1, <1>5, <2>1
  <2>3. g[j] \in Tree /\ h[j] \in Tree
    BY <1>4, <2>1
  <2>4. Replay(g[j], s[j + 1].do)[p] = Replay(h[j], s[j + 1].do)[p]
    BY ONLY <2>1, <2>2, <2>3, ReplayAgrees, p \in Path
  <2>5. QED
    BY <1>6, <1>7, <2>1, <2>4
<1>10. n \in B
  <2> HIDE DEF B
  <2>1. \A j \in 0 .. n - 1 : j \in B => j + 1 \in B
    BY <1>9
  <2>2. 0 .. n \subseteq B
    BY ONLY <1>1, <1>8, <2>1, Counting
  <2>3. QED
    BY <1>1, <2>2
<1>11. QED
  BY <1>2, <1>3, <1>10

\* Replays that leave a path alone leave what the repository holds there.
LEMMA ReplayedElsewhere ==
    ASSUME NEW r \in Tree, NEW s \in Seq(Opcode), NEW p \in Path,
           \A k \in 1 .. Len(s) : p \notin Touched(s[k].do)
    PROVE  Replayed(r, s)[p] = r[p]
<1> DEFINE n == Len(s)
<1>1. n \in Nat /\ \A j \in 1 .. n : s[j].do \in Operation
  BY LenProperties, OpcodesDo
<1>2. PICK g : Run(r, s, n, g) /\ Replayed(r, s) = g[n]
  BY ReplayedRun
<1> DEFINE B == {j \in 0 .. n : g[j][p] = r[p]}
<1>3. \A j \in 0 .. n : g[j] \in Tree
  BY ONLY <1>2, RunStaysTree, r \in Tree, s \in Seq(Opcode)
<1>4. \A j \in 1 .. n : p \notin Touched(s[j].do)
  OBVIOUS
<1> HIDE DEF n
<1>5. g[0] = r /\ \A j \in 0 .. n - 1 : g[j + 1] = Replay(g[j], s[j + 1].do)
  <2>1. n \in Nat /\ Run(r, s, n, g)
    BY <1>1, <1>2
  <2>2. StepByStep(r, s, n, g)
    BY ONLY <2>1, RunSteps
  <2>3. QED
    BY <2>2 DEF StepByStep
<1>6. 0 \in B
  BY <1>1, <1>5
<1>7. ASSUME NEW j \in 0 .. n - 1, j \in B PROVE j + 1 \in B
  <2>1. j + 1 \in 0 .. n /\ j + 1 \in 1 .. n /\ j \in 0 .. n /\ g[j][p] = r[p]
    BY <1>1, <1>7
  <2>2. s[j + 1].do \in Operation /\ p \notin Touched(s[j + 1].do) /\ g[j] \in Tree
    BY <1>1, <1>3, <1>4, <2>1
  <2>3. Replay(g[j], s[j + 1].do)[p] = g[j][p]
    BY ONLY <2>2, ReplayElsewhere, p \in Path
  <2>4. QED
    BY <1>5, <2>1, <2>3
<1>8. n \in B
  <2> HIDE DEF B
  <2>1. \A j \in 0 .. n - 1 : j \in B => j + 1 \in B
    BY <1>7
  <2>2. 0 .. n \subseteq B
    BY ONLY <1>1, <1>6, <2>1, Counting
  <2>3. QED
    BY <1>1, <2>2
<1>9. QED
  BY <1>2, <1>8
----------------------------------------------------------------------------
(***************************************************************************)
(* The invariant.  NothingForgotten is not inductive: an opcode that fails *)
(* is skipped, and what is left of the queue then brings the other paths   *)
(* where they were bound for only because no rename on its way moves a     *)
(* file between a path that is behind and one that is not.  SettledAtExit  *)
(* needs the request that the end of the process cut short.                *)
(***************************************************************************)
RenamesBehind ==
    \A k \in 1 .. Len(queue) :
        queue[k].do.op = "FileRename" => Touched(queue[k].do) \subseteq behind

CutShortBehind == Over /\ request # None => Touched(request) \subseteq behind

\* The repository when the opcode in the consumer's hand is replayed, and when the queue
\* is; the disk when the request is carried out.
Held == IF hand = None THEN repo ELSE Replay(repo, hand.do)

Versioned == Replayed(Held, queue)

Wanted == IF request = None THEN disk ELSE OnDisk(disk, request)

CaughtUp == \A p \in Path \ behind : Agree(Versioned[p], Wanted[p])

PipelineInv ==
    /\ Typed
    /\ ~Over => CaughtUp
    /\ SettledAtExit
    /\ RenamesBehind
    /\ CutShortBehind

LEMMA InFlightReplayed == Typed => Replayed(repo, InFlight) = Versioned
<1> SUFFICES ASSUME Typed PROVE Replayed(repo, InFlight) = Versioned
  OBVIOUS
<1>1. queue \in Seq(Opcode) /\ hand \in Opcode \cup {None}
  BY DEF Typed, TypeOK
<1>2. CASE hand = None
  <2>1. InFlight = queue
    BY <1>1, <1>2, ConcatEmptySeq DEF InFlight
  <2>2. QED
    BY <1>2, <2>1 DEF Versioned, Held
<1>3. CASE hand # None
  <2>1. InFlight = <<hand>> \o queue /\ hand \in Opcode
    BY <1>1, <1>3 DEF InFlight
  <2>2. Replayed(repo, <<hand>> \o queue) = Replayed(Replay(repo, hand.do), queue)
    BY ONLY <1>1, <2>1, ReplayedFirst
  <2>3. QED
    BY <1>3, <2>1, <2>2 DEF Versioned, Held
<1>4. QED
  BY <1>2, <1>3

LEMMA CaughtUpMeans == Typed => (NothingForgotten <=> (~Over => CaughtUp))
BY InFlightReplayed DEF NothingForgotten, CaughtUp, Wanted

LEMMA TypedTrees ==
    ASSUME Typed
    PROVE  /\ repo \in Tree /\ disk \in Tree /\ Held \in Tree /\ Wanted \in Tree
           /\ queue \in Seq(Opcode) /\ Versioned \in Tree
<1>1. /\ repo \in Tree /\ disk \in Tree /\ queue \in Seq(Opcode)
      /\ hand \in Opcode \cup {None} /\ request \in Operation \cup {None}
  BY DEF Typed, TypeOK, Tree, File
<1>2. Held \in Tree
  <2>1. CASE hand = None
    BY <1>1, <2>1 DEF Held
  <2>2. CASE hand # None
    <3>1. hand.do \in Operation
      BY <1>1, <2>2 DEF Opcode
    <3>2. QED
      BY <1>1, <2>2, <3>1, ReplayStaysTree DEF Held
  <2>3. QED
    BY <2>1, <2>2
<1>3. Wanted \in Tree
  <2>1. CASE request = None
    BY <1>1, <2>1 DEF Wanted
  <2>2. CASE request # None
    <3>1. request \in Operation
          /\ (request.op \in {"FileWrite", "FileTruncate"} => disk[request.path] # None)
      BY <1>1, <2>2 DEF Typed, RequestFindsFile
    <3>2. OnDisk(disk, request) \in Tree
      BY <1>1, <3>1, DiskStaysTree
    <3>3. QED
      BY <2>2, <3>2 DEF Wanted
  <2>3. QED
    BY <2>1, <2>2
<1>4. Versioned \in Tree
  BY <1>1, <1>2, ReplayedStaysTree DEF Versioned
<1>5. QED
  BY <1>1, <1>2, <1>3, <1>4

LEMMA PipelineInit == Init => PipelineInv
<1> SUFFICES ASSUME Init PROVE PipelineInv
  OBVIOUS
<1>1. Typed
  BY TypedInit
<1>2. Versioned = repo /\ Wanted = disk
  BY ReplayedNothing DEF Init, Versioned, Held, Wanted
<1>3. CaughtUp
  BY <1>2 DEF CaughtUp, Agree, Init
<1>4. ~Over /\ RenamesBehind
  BY DEF Init, Over, RenamesBehind
<1>5. QED
  BY <1>1, <1>3, <1>4 DEF PipelineInv, SettledAtExit, CutShortBehind

\* An opcode that is queued tells of the mutation that follows it; one that is not puts
\* its paths behind.
LEMMA NotifyKeeps ==
    ASSUME PipelineInv, NEW o \in Operation, Notify(o), Typed'
    PROVE  PipelineInv'
<1>1. Typed /\ CaughtUp /\ RenamesBehind
  BY DEF PipelineInv, Notify, Over
<1>2. /\ ~Over' /\ request = None /\ request' = o /\ o # None
      /\ UNCHANGED <<disk, repo, hand>>
  BY NoneAssumption DEF Notify, Over, consumerVars
<1>3. Held' = Held /\ Wanted = disk /\ Wanted' = OnDisk(disk, o)
  BY <1>2 DEF Held, Wanted
<1>4. Held \in Tree /\ disk \in Tree /\ Versioned \in Tree /\ queue \in Seq(Opcode)
  BY <1>1, TypedTrees
<1>5. behind \subseteq behind'
  BY DEF Notify
<1>6. CaughtUp'
  <2> SUFFICES ASSUME NEW p \in Path, p \notin behind'
               PROVE  Agree(Versioned'[p], Wanted'[p])
    BY DEF CaughtUp
  <2>1. Agree(Versioned[p], disk[p])
    BY <1>1, <1>3, <1>5 DEF CaughtUp
  <2>2. CASE Len(queue) >= Capacity
    <3>1. queue' = queue /\ p \notin Touched(o)
      BY <2>2, <1>4, LenProperties, PipelineAssumption DEF Notify
    <3>2. Versioned' = Versioned
      BY <1>3, <3>1 DEF Versioned
    <3>3. OnDisk(disk, o)[p] = disk[p]
      BY <1>4, <3>1, OnDiskElsewhere
    <3>4. QED
      BY <1>3, <2>1, <3>2, <3>3
  <2>3. CASE Len(queue) < Capacity
    <3> DEFINE x == [seq |-> nextSeq, do |-> o]
    <3>1. queue' = Append(queue, x) /\ x \in Opcode /\ x.do = o
      BY <1>1, <2>3, PipelineAssumption DEF Notify, Typed, TypeOK, Opcode
    <3> HIDE DEF x
    <3>2. Replayed(Held, Append(queue, x)) = Replay(Replayed(Held, queue), x.do)
      BY ONLY <1>4, <3>1, ReplayedOnto
    <3>3. Versioned' = Replay(Versioned, o)
      BY <1>3, <3>1, <3>2 DEF Versioned
    <3>4. CASE p \in Touched(o)
      <4>1. o.op # "FileRename" /\ ~(o.op = "FileTruncate" /\ o.at > Len(disk[o.path]))
        BY <3>4 DEF Notify
      <4>2. o.to = None
        BY <4>1 DEF Operation
      <4>3. p = o.path
        BY <3>4, <4>2 DEF Touched
      <4>4. IF o.op = "FileCreate" THEN disk[p] = None ELSE disk[p] # None
        BY <4>3 DEF Notify, Askable
      <4>5. o.op = "FileTruncate" => o.at <= Len(disk[p])
        <5> SUFFICES ASSUME o.op = "FileTruncate" PROVE o.at <= Len(disk[p])
          OBVIOUS
        <5>1. disk[p] \in Content
          BY <1>4, <4>4 DEF Tree, File
        <5>2. Len(disk[p]) \in Nat /\ o.at \in Nat
          BY <5>1, LenProperties, OperationFields DEF Content
        <5>3. QED
          BY <4>1, <4>3, <5>2
      <4>6. Agree(Replay(Versioned, o)[p], OnDisk(disk, o)[p])
        BY ONLY <1>4, <2>1, <4>1, <4>4, <4>5, OneMoreAgrees, o \in Operation, p \in Path
      <4>7. QED
        BY <1>3, <3>3, <4>6
    <3>5. CASE p \notin Touched(o)
      <4>1. Replay(Versioned, o)[p] = Versioned[p]
        BY <1>4, <3>5, ReplayElsewhere
      <4>2. OnDisk(disk, o)[p] = disk[p]
        BY <1>4, <3>5, OnDiskElsewhere
      <4>3. QED
        BY <1>3, <2>1, <3>3, <4>1, <4>2
    <3>6. QED
      BY <3>4, <3>5
  <2>4. QED
    BY <2>2, <2>3, <1>4, LenProperties, PipelineAssumption
<1>7. RenamesBehind'
  <2>1. CASE queue' = queue
    BY <1>1, <1>5, <2>1 DEF RenamesBehind
  <2>2. CASE queue' = Append(queue, [seq |-> nextSeq, do |-> o])
    <3> DEFINE x == [seq |-> nextSeq, do |-> o]
    <3>1. queue' = Append(queue, x) /\ x \in Opcode /\ x.do = o
      BY <1>1, <2>2, PipelineAssumption DEF Notify, Typed, TypeOK, Opcode
    <3> HIDE DEF x
    <3>2. /\ Len(queue') = Len(queue) + 1 /\ queue'[Len(queue) + 1] = x
          /\ \A k \in 1 .. Len(queue) : queue'[k] = queue[k]
      BY <1>4, <3>1, AppendProperties
    <3>3. o.op = "FileRename" => Touched(o) \subseteq behind'
      BY DEF Notify
    <3>4. \A k \in 1 .. Len(queue') : k \in 1 .. Len(queue) \/ k = Len(queue) + 1
      BY <1>4, <3>2, LenProperties
    <3>5. QED
      BY <1>1, <1>5, <3>1, <3>2, <3>3, <3>4 DEF RenamesBehind
  <2>3. QED
    BY <2>1, <2>2 DEF Notify
<1>8. QED
  BY <1>2, <1>6, <1>7 DEF PipelineInv, SettledAtExit, CutShortBehind

\* Carrying a request out brings the disk where it was bound for.
LEMMA PerformKeeps ==
    ASSUME PipelineInv, Perform, Typed'
    PROVE  PipelineInv'
<1>1. /\ request # None /\ request' = None /\ disk' = OnDisk(disk, request)
      /\ UNCHANGED <<repo, hand, queue, phase, behind>>
  BY DEF Perform, consumerVars
<1>2. Versioned' = Versioned /\ Wanted' = Wanted /\ (Over' <=> Over)
  BY <1>1 DEF Versioned, Held, Wanted, Over
<1>3. (~Over => CaughtUp)' /\ RenamesBehind'
  BY <1>1, <1>2 DEF PipelineInv, CaughtUp, RenamesBehind
<1>4. SettledAtExit'
  <2> SUFFICES ASSUME Over, NEW p \in Path \ behind PROVE Agree(repo[p], disk'[p])
    BY <1>1, <1>2 DEF SettledAtExit
  <2>1. p \notin Touched(request)
    BY <1>1 DEF PipelineInv, CutShortBehind
  <2>2. request \in Operation /\ disk \in Tree
    BY <1>1, TypedTrees DEF PipelineInv, Typed, TypeOK
  <2>3. OnDisk(disk, request)[p] = disk[p]
    BY <2>1, <2>2, OnDiskElsewhere
  <2>4. QED
    BY <1>1, <2>3 DEF PipelineInv, SettledAtExit
<1>5. QED
  BY <1>1, <1>3, <1>4 DEF PipelineInv, CutShortBehind

\* A request that is refused leaves the disk where it was, its paths behind.
LEMMA RefuseKeeps ==
    ASSUME PipelineInv, Refuse, Typed'
    PROVE  PipelineInv'
<1>1. /\ request # None /\ request' = None /\ behind' = behind \cup Touched(request)
      /\ UNCHANGED <<disk, repo, hand, queue, phase>>
  BY DEF Refuse, consumerVars
<1>2. /\ Versioned' = Versioned /\ (Over' <=> Over)
      /\ Wanted = OnDisk(disk, request) /\ Wanted' = disk
  BY <1>1 DEF Versioned, Held, Wanted, Over
<1>3. request \in Operation /\ disk \in Tree
  BY <1>1, TypedTrees DEF PipelineInv, Typed, TypeOK
<1>4. ASSUME ~Over PROVE CaughtUp'
  <2> SUFFICES ASSUME NEW p \in Path, p \notin behind'
               PROVE  Agree(Versioned'[p], Wanted'[p])
    BY DEF CaughtUp
  <2>1. Agree(Versioned[p], Wanted[p]) /\ p \notin Touched(request)
    BY <1>1, <1>4 DEF PipelineInv, CaughtUp
  <2>2. OnDisk(disk, request)[p] = disk[p]
    BY <1>3, <2>1, OnDiskElsewhere
  <2>3. QED
    BY <1>2, <2>1, <2>2
<1>5. SettledAtExit' /\ RenamesBehind' /\ CutShortBehind'
  BY <1>1, <1>2 DEF PipelineInv, SettledAtExit, RenamesBehind, CutShortBehind
<1>6. QED
  BY <1>2, <1>4, <1>5 DEF PipelineInv

\* The opcode that is popped is the one that is replayed first.
LEMMA PollKeeps ==
    ASSUME PipelineInv, Poll, Typed'
    PROVE  PipelineInv'
<1>1. /\ ~Over /\ ~Over' /\ hand = None
      /\ UNCHANGED <<disk, request, repo, behind>>
  BY DEF Poll, Over, fuseVars, PipelineInv, Typed, TypeOK
<1>2. Wanted' = Wanted
  BY <1>1 DEF Wanted
<1>3. CASE queue = <<>>
  <2>1. queue' = queue /\ hand' = hand
    BY <1>3 DEF Poll
  <2>2. Versioned' = Versioned
    BY <1>1, <2>1 DEF Versioned, Held
  <2>3. QED
    BY <1>1, <1>2, <2>1, <2>2
    DEF PipelineInv, CaughtUp, SettledAtExit, RenamesBehind, CutShortBehind
<1>4. CASE queue # <<>>
  <2> DEFINE x == Head(queue)
             t == Tail(queue)
  <2>1. hand' = x /\ queue' = t
    BY <1>4 DEF Poll
  <2>2. queue \in Seq(Opcode) /\ repo \in Tree
    BY TypedTrees DEF PipelineInv
  <2>3. x \in Opcode /\ t \in Seq(Opcode) /\ Len(t) = Len(queue) - 1 /\ queue = <<x>> \o t
        /\ \A k \in 1 .. Len(t) : t[k] = queue[k + 1]
    <3>1. x \in Opcode /\ t \in Seq(Opcode) /\ Len(t) = Len(queue) - 1
          /\ \A k \in 1 .. Len(queue) - 1 : t[k] = queue[k + 1]
      BY <1>4, <2>2, HeadAndTail
    <3>2. queue = <<x>> \o t
      BY <1>4, <2>2
    <3>3. QED
      BY <3>1, <3>2
  <2> HIDE DEF x, t
  <2>4. Replayed(repo, <<x>> \o t) = Replayed(Replay(repo, x.do), t)
    BY ONLY <2>3, ReplayedFirst, <2>2
  <2>5. x # None
    BY <2>3, NoneAssumption
  <2>6. Versioned' = Versioned
    BY <1>1, <2>1, <2>3, <2>4, <2>5 DEF Versioned, Held
  <2>7. RenamesBehind'
    <3>1. \A k \in 1 .. Len(t) : k + 1 \in 1 .. Len(queue)
      BY <2>2, <2>3, LenProperties
    <3>2. QED
      BY <1>1, <2>1, <2>3, <3>1 DEF PipelineInv, RenamesBehind
  <2>8. QED
    BY <1>1, <1>2, <2>6, <2>7 DEF PipelineInv, CaughtUp, SettledAtExit, CutShortBehind
<1>5. QED
  BY <1>3, <1>4

\* A replay that succeeds is the one that was to come.
LEMMA ApplyOkKeeps ==
    ASSUME PipelineInv, ApplyOk, Typed'
    PROVE  PipelineInv'
<1>1. /\ ~Over /\ ~Over' /\ hand # None /\ hand' = None /\ repo' = Replay(repo, hand.do)
      /\ UNCHANGED <<disk, request, queue>>
  BY DEF ApplyOk, Over, fuseVars, PipelineInv, Typed, TypeOK
<1>2. behind \subseteq behind'
  BY DEF ApplyOk
<1>3. Wanted' = Wanted /\ Versioned' = Versioned
  BY <1>1 DEF Wanted, Versioned, Held
<1>4. QED
  BY <1>1, <1>2, <1>3
  DEF PipelineInv, CaughtUp, SettledAtExit, RenamesBehind, CutShortBehind

\* One that fails is skipped, and what follows it does the same to the other paths.
LEMMA ApplyErrKeeps ==
    ASSUME PipelineInv, ApplyErr, Typed'
    PROVE  PipelineInv'
<1>1. /\ ~Over /\ ~Over' /\ hand # None /\ hand' = None
      /\ behind' = behind \cup Touched(hand.do)
      /\ UNCHANGED <<disk, request, queue, repo>>
  BY DEF ApplyErr, Over, fuseVars, PipelineInv, Typed, TypeOK
<1>2. Wanted' = Wanted /\ Held = Replay(repo, hand.do) /\ Held' = repo
  BY <1>1 DEF Wanted, Held
<1>3. /\ repo \in Tree /\ Held \in Tree /\ queue \in Seq(Opcode) /\ hand.do \in Operation
  BY <1>1, TypedTrees DEF PipelineInv, Typed, TypeOK, Opcode
<1>4. CaughtUp'
  <2> SUFFICES ASSUME NEW p \in Path, p \notin behind'
               PROVE  Agree(Versioned'[p], Wanted'[p])
    BY DEF CaughtUp
  <2>1. p \notin behind /\ p \notin Touched(hand.do)
    BY <1>1
  <2>2. repo[p] = Held[p]
    BY <1>2, <1>3, <2>1, ReplayElsewhere
  <2>3. \A k \in 1 .. Len(queue) :
            queue[k].do.op = "FileRename" => p \notin Touched(queue[k].do)
    BY <2>1 DEF PipelineInv, RenamesBehind
  <2>4. Replayed(repo, queue)[p] = Replayed(Held, queue)[p]
    BY ONLY <1>3, <2>2, <2>3, ReplayedAgrees, p \in Path
  <2>5. Versioned'[p] = Versioned[p]
    BY <1>1, <1>2, <2>4 DEF Versioned
  <2>6. QED
    BY <1>1, <1>2, <2>1, <2>5 DEF PipelineInv, CaughtUp
<1>5. RenamesBehind'
  BY <1>1 DEF PipelineInv, RenamesBehind
<1>6. QED
  BY <1>1, <1>4, <1>5 DEF PipelineInv, SettledAtExit, CutShortBehind

\* The end of the process puts everything behind that was still to happen, so that the
\* repository and the disk are where they were bound for.
LEMMA ExitKeeps ==
    ASSUME PipelineInv, NEW how \in {"returned", "killed"}, ~Over, Exit(how), Typed'
    PROVE  PipelineInv'
<1>1. /\ Over' /\ behind' = behind \cup Lost
      /\ UNCHANGED <<disk, request, hand, queue, repo>>
  BY DEF Exit, Over, fuseVars, consumerVars
<1>2. /\ repo \in Tree /\ disk \in Tree /\ Held \in Tree /\ queue \in Seq(Opcode)
      /\ hand \in Opcode \cup {None} /\ request \in Operation \cup {None}
  BY TypedTrees DEF PipelineInv, Typed, TypeOK
<1>3. /\ \A k \in 1 .. Len(queue) : Touched(queue[k].do) \subseteq Lost
      /\ hand # None => Touched(hand.do) \subseteq Lost
      /\ request # None => Touched(request) \subseteq Lost
  <2>1. \A k \in 1 .. Len(queue) : Touched(queue[k].do) \subseteq Lost
    BY DEF Lost
  <2>2. hand # None => Touched(hand.do) \subseteq Lost
    BY DEF Lost
  <2>3. request # None => Touched(request) \subseteq Lost
    BY DEF Lost
  <2>4. QED
    BY <2>1, <2>2, <2>3
<1>4. SettledAtExit'
  <2> SUFFICES ASSUME NEW p \in Path, p \notin behind, p \notin Lost
               PROVE  Agree(repo[p], disk[p])
    BY <1>1 DEF SettledAtExit
  <2>1. Held[p] = repo[p]
    <3>1. CASE hand = None
      BY <3>1 DEF Held
    <3>2. CASE hand # None
      <4>1. hand.do \in Operation /\ p \notin Touched(hand.do)
        BY <1>2, <1>3, <3>2 DEF Opcode
      <4>2. Replay(repo, hand.do)[p] = repo[p]
        BY <1>2, <4>1, ReplayElsewhere
      <4>3. QED
        BY <3>2, <4>2 DEF Held
    <3>3. QED
      BY <3>1, <3>2
  <2>2. Versioned[p] = Held[p]
    <3>1. \A k \in 1 .. Len(queue) : p \notin Touched(queue[k].do)
      BY <1>3
    <3>2. Replayed(Held, queue)[p] = Held[p]
      BY ONLY <1>2, <3>1, ReplayedElsewhere, p \in Path
    <3>3. QED
      BY <3>2 DEF Versioned
  <2>3. Wanted[p] = disk[p]
    <3>1. CASE request = None
      BY <3>1 DEF Wanted
    <3>2. CASE request # None
      <4>1. request \in Operation /\ p \notin Touched(request)
        BY <1>2, <1>3, <3>2
      <4>2. OnDisk(disk, request)[p] = disk[p]
        BY <1>2, <4>1, OnDiskElsewhere
      <4>3. QED
        BY <3>2, <4>2 DEF Wanted
    <3>3. QED
      BY <3>1, <3>2
  <2>4. Agree(Versioned[p], Wanted[p])
    BY DEF PipelineInv, CaughtUp
  <2>5. QED
    BY <2>1, <2>2, <2>3, <2>4
<1>5. RenamesBehind' /\ CutShortBehind'
  BY <1>1, <1>3 DEF PipelineInv, RenamesBehind, CutShortBehind
<1>6. QED
  BY <1>1, <1>4, <1>5 DEF PipelineInv

\* A new mount starts where the last one ended.
LEMMA RemountKeeps ==
    ASSUME PipelineInv, Remount, Typed'
    PROVE  PipelineInv'
<1>1. /\ Over /\ ~Over' /\ hand' = None /\ queue' = <<>> /\ request' = None
      /\ UNCHANGED <<disk, repo, behind>>
  BY DEF Remount, Over
<1>2. Versioned' = repo /\ Wanted' = disk
  BY <1>1, ReplayedNothing DEF Versioned, Held, Wanted
<1>3. CaughtUp'
  BY <1>1, <1>2 DEF PipelineInv, SettledAtExit, CaughtUp
<1>4. QED
  BY <1>1, <1>3 DEF PipelineInv, SettledAtExit, RenamesBehind, CutShortBehind

LEMMA PipelineStep == PipelineInv /\ [Next]_vars => PipelineInv'
<1> SUFFICES ASSUME PipelineInv, [Next]_vars PROVE PipelineInv'
  OBVIOUS
<1>1. Typed'
  BY TypedStep DEF PipelineInv
<1>2. ASSUME NEW o \in Operation, Notify(o) PROVE PipelineInv'
  BY <1>1, <1>2, NotifyKeeps
<1>3. CASE Perform
  BY <1>1, <1>3, PerformKeeps
<1>4. CASE Refuse
  BY <1>1, <1>4, RefuseKeeps
<1>5. CASE Poll
  BY <1>1, <1>5, PollKeeps
<1>6. CASE ApplyOk
  BY <1>1, <1>6, ApplyOkKeeps
<1>7. CASE ApplyErr
  BY <1>1, <1>7, ApplyErrKeeps
<1>8. CASE MainReturns \/ Killed
  BY <1>1, <1>8, ExitKeeps DEF MainReturns, Killed, Over
<1>9. CASE Remount
  BY <1>1, <1>9, RemountKeeps
<1>10. CASE /\ UNCHANGED <<disk, request, repo, hand, queue, behind>> /\ (Over' <=> Over)
            /\ \/ OpenBackend \/ LoopHead \/ Unmount \/ ClearRunning \/ UNCHANGED vars
  <2>1. Versioned' = Versioned /\ Wanted' = Wanted
    BY <1>10 DEF Versioned, Held, Wanted
  <2>2. QED
    BY <1>1, <1>10, <2>1
    DEF PipelineInv, CaughtUp, SettledAtExit, RenamesBehind, CutShortBehind
<1>11. QED
  BY <1>2, <1>3, <1>4, <1>5, <1>6, <1>7, <1>8, <1>9, <1>10
  DEF Next, Consume, OpenBackend, LoopHead, Unmount, ClearRunning, Over, vars, fuseVars,
      consumerVars

\* The two threads share a queue and nothing else, the process may end between any two
\* steps, replays may fail and requests be refused: whatever they do, what every path is
\* bound for in the repository is what it is bound for on disk, the paths of lost changes
\* apart (recorder.rs:129-138, queue.rs:91-145, main.rs:269-302, backend.rs:382-450).
THEOREM PipelineInvariance == Spec => []PipelineInv
BY PipelineInit, PipelineStep, PTL DEF Spec

\* No interleaving of the notifications with the replays reorders, repeats or forgets a
\* change (recorder.rs:129-138, main.rs:269-289, operations.rs:142-228).
THEOREM NoChangeForgotten == Spec => []NothingForgotten
<1>1. PipelineInv => NothingForgotten
  BY CaughtUpMeans DEF PipelineInv
<1>2. QED
  BY <1>1, PipelineInvariance, PTL

\* When the process has returned or was killed, at whatever step, the repository and the
\* disk agree on every path of which no change was lost (main.rs:198-213, 295-302).
THEOREM SettledWhenOver == Spec => []SettledAtExit
<1>1. PipelineInv => SettledAtExit
  BY DEF PipelineInv
<1>2. QED
  BY <1>1, PipelineInvariance, PTL
=============================================================================
