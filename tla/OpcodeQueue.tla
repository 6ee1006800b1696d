---------------------------- MODULE OpcodeQueue ----------------------------
(***************************************************************************)
(* operations/queue.rs: the Mutex<VecDeque> with a Condvar that carries    *)
(* opcodes from the filesystem thread to the thread that replays them.     *)
(*                                                                         *)
(* Every method body holds the mutex from its first line, and no state is  *)
(* reached without it, so a critical section is one step.  What is NOT in  *)
(* a critical section is a step of its own: notify_one, which a producer   *)
(* calls after it has dropped the lock, and the return from Condvar::wait, *)
(* which needs the lock again and finds whatever others left behind.       *)
(***************************************************************************)
EXTENDS Naturals, Sequences, FiniteSets

CONSTANTS Producers,   \* threads that hold an OpcodeSender
          Consumers,   \* threads that take opcodes out
          Capacity,    \* the soft limit given to with_capacity
          MaxSent      \* bound: opcodes each producer makes

ASSUME QueueAssumption ==
    /\ IsFiniteSet(Producers)
    /\ IsFiniteSet(Consumers)
    /\ Capacity \in Nat
    /\ MaxSent \in Nat

VARIABLES queue,       \* inner.queue, oldest first
          sent,        \* how many opcodes each producer has made
          notifying,   \* producers between drop(inner) and notify_one
          waiting,     \* consumers blocked in not_empty.wait
          woken,       \* consumers wait has returned in, before the re-check
          forced,      \* history: opcodes that went in through push
          taken        \* history: opcodes taken out, in order

vars == <<queue, sent, notifying, waiting, woken, forced, taken>>

\* The n-th opcode of producer p.
Opcode == [from : Producers, nr : 1 .. MaxSent]
Fresh(p) == [from |-> p, nr |-> sent[p] + 1]

TypeOK ==
    /\ queue \in Seq(Opcode)
    /\ sent \in [Producers -> 0 .. MaxSent]
    /\ notifying \subseteq Producers
    /\ waiting \subseteq Consumers
    /\ woken \subseteq Consumers \ waiting
    /\ forced \subseteq Opcode
    /\ taken \in Seq(Opcode)

Init ==
    /\ queue = <<>>
    /\ sent = [p \in Producers |-> 0]
    /\ notifying = {}
    /\ waiting = {}
    /\ woken = {}
    /\ forced = {}
    /\ taken = <<>>
----------------------------------------------------------------------------
\* A producer that is not between its two steps and still has an opcode to make.
Ready(p) == p \notin notifying /\ sent[p] < MaxSent

\* push_back under the lock; the notification is still owed.
Enqueue(p) ==
    /\ queue' = Append(queue, Fresh(p))
    /\ sent' = [sent EXCEPT ![p] = @ + 1]
    /\ notifying' = notifying \cup {p}
    /\ UNCHANGED <<waiting, woken, taken>>

\* Mutant: the limit is tested as if it were inclusive.
TryPushOffByOne(p) ==
    /\ Ready(p)
    /\ Len(queue) <= Capacity
    /\ Enqueue(p)
    /\ UNCHANGED forced

TryPush(p) ==
    /\ Ready(p)
    /\ Len(queue) < Capacity
    /\ Enqueue(p)
    /\ UNCHANGED forced

\* Err(opcode): the queue is as it was and the caller gives the opcode up, as
\* OpcodeRecorder does.  (A caller that retries takes no step here.)
TryPushRejected(p) ==
    /\ Ready(p)
    /\ Len(queue) >= Capacity
    /\ sent' = [sent EXCEPT ![p] = @ + 1]
    /\ UNCHANGED <<queue, notifying, waiting, woken, forced, taken>>

\* Mutant: the opcode goes to the front.
PushFront(p) ==
    /\ Ready(p)
    /\ queue' = <<Fresh(p)>> \o queue
    /\ sent' = [sent EXCEPT ![p] = @ + 1]
    /\ notifying' = notifying \cup {p}
    /\ forced' = forced \cup {Fresh(p)}
    /\ UNCHANGED <<waiting, woken, taken>>

Push(p) ==
    /\ Ready(p)
    /\ Enqueue(p)
    /\ forced' = forced \cup {Fresh(p)}

\* Mutant: wake a consumer only when the queue went from empty to non-empty.
NotifyOnFirst(p) ==
    /\ p \in notifying
    /\ notifying' = notifying \ {p}
    /\ IF waiting = {} \/ Len(queue) > 1
       THEN UNCHANGED <<waiting, woken>>
       ELSE \E c \in waiting : waiting' = waiting \ {c} /\ woken' = woken \cup {c}
    /\ UNCHANGED <<queue, sent, forced, taken>>

\* Mutant: the consumer that is woken stays on the list of waiters.
NotifyKeepsWaiter(p) ==
    /\ p \in notifying
    /\ notifying' = notifying \ {p}
    /\ \/ waiting = {} /\ UNCHANGED <<waiting, woken>>
       \/ \E c \in waiting : woken' = woken \cup {c} /\ UNCHANGED waiting
    /\ UNCHANGED <<queue, sent, forced, taken>>

\* notify_one: some blocked consumer returns from wait; with none it is lost.
NotifyOne(p) ==
    /\ p \in notifying
    /\ notifying' = notifying \ {p}
    /\ \/ waiting = {} /\ UNCHANGED <<waiting, woken>>
       \/ \E c \in waiting : waiting' = waiting \ {c} /\ woken' = woken \cup {c}
    /\ UNCHANGED <<queue, sent, forced, taken>>
----------------------------------------------------------------------------
Idle(c) == c \notin waiting \cup woken

TakeHead ==
    /\ queue # <<>>
    /\ queue' = Tail(queue)
    /\ taken' = Append(taken, Head(queue))
    /\ UNCHANGED <<sent, notifying, forced>>

\* pop, first look at the queue: take the front or block.
Pop(c) ==
    /\ Idle(c)
    /\ TakeHead
    /\ UNCHANGED <<waiting, woken>>

PopBlocks(c) ==
    /\ Idle(c)
    /\ queue = <<>>
    /\ waiting' = waiting \cup {c}
    /\ UNCHANGED <<queue, sent, notifying, woken, forced, taken>>

\* pop, after wait has returned: the while loop looks again.
WokenPop(c) ==
    /\ c \in woken
    /\ TakeHead
    /\ woken' = woken \ {c}
    /\ UNCHANGED waiting

WokenBlocks(c) ==
    /\ c \in woken
    /\ queue = <<>>
    /\ woken' = woken \ {c}
    /\ waiting' = waiting \cup {c}
    /\ UNCHANGED <<queue, sent, notifying, forced, taken>>

\* Condvar::wait may return with no notification.
SpuriousWakeup(c) ==
    /\ c \in waiting
    /\ waiting' = waiting \ {c}
    /\ woken' = woken \cup {c}
    /\ UNCHANGED <<queue, sent, notifying, forced, taken>>

\* try_pop: never blocks, None on an empty queue is no step.
TryPop(c) ==
    /\ Idle(c)
    /\ TakeHead
    /\ UNCHANGED <<waiting, woken>>

\* Mutant: the drained opcodes come out newest first.
DrainBackwards(c) ==
    /\ Idle(c)
    /\ queue # <<>>
    /\ queue' = <<>>
    /\ taken' = taken \o [i \in 1 .. Len(queue) |-> queue[Len(queue) + 1 - i]]
    /\ UNCHANGED <<sent, notifying, waiting, woken, forced>>

Drain(c) ==
    /\ Idle(c)
    /\ queue # <<>>
    /\ queue' = <<>>
    /\ taken' = taken \o queue
    /\ UNCHANGED <<sent, notifying, waiting, woken, forced>>
----------------------------------------------------------------------------
Produce(p) == TryPush(p) \/ TryPushRejected(p) \/ Push(p) \/ NotifyOne(p)

\* The steps of a thread inside pop.
InPop(c) == Pop(c) \/ PopBlocks(c) \/ WokenPop(c) \/ WokenBlocks(c)

Next ==
    \/ \E p \in Producers : Produce(p)
    \/ \E c \in Consumers : InPop(c) \/ SpuriousWakeup(c) \/ TryPop(c) \/ Drain(c)

Spec == Init /\ [][Next]_vars

(***************************************************************************)
(* A producer that has dropped the lock reaches notify_one, a consumer     *)
(* whose wait returned gets the mutex back, and a processor thread calls   *)
(* pop in a loop.  Nobody has to produce, and nobody has to wake up        *)
(* spuriously or to call try_pop or drain.                                 *)
(***************************************************************************)
Fairness ==
    /\ \A p \in Producers : WF_vars(NotifyOne(p))
    /\ \A c \in Consumers : WF_vars(InPop(c))

FairSpec == Spec /\ Fairness
----------------------------------------------------------------------------
\* Everything that went in, in the order it went in.
Stream == taken \o queue

\* The opcodes of one producer keep their order through the queue and none is
\* there twice (queue.rs, push_back and pop_front; opcode.rs:45: operations on
\* the same path are applied in sequence order).
ProducerOrder ==
    \A i, j \in 1 .. Len(Stream) :
        i < j /\ Stream[i].from = Stream[j].from => Stream[i].nr < Stream[j].nr

\* The soft limit is strict for try_push: only opcodes that came in through push
\* stand beyond it (queue.rs:71-72, "try_push will fail when at capacity").
SoftLimit ==
    \A i \in 1 .. Len(queue) : queue[i] \notin forced => i <= Capacity

\* No lost wakeup: a consumer stays blocked beside a non-empty queue only while
\* a notification or a wakeup is on its way for every opcode in it.
NoLostWakeup ==
    waiting # {} => Len(queue) <= Cardinality(notifying) + Cardinality(woken)

\* Every opcode that entered the queue is taken out, whichever thread blocks,
\* drains or is woken for nothing in between.
EveryOpcodeTaken ==
    \A op \in Opcode :
        (\E i \in 1 .. Len(queue) : queue[i] = op)
            ~> (\E i \in 1 .. Len(taken) : taken[i] = op)

Fifo == INSTANCE BoundedFifo WITH items <- queue

\* The queue with its mutex and condition variable is the FIFO it promises to be,
\* its progress included.
ImplementsFifo == Fifo!FairSpec
============================================================================
