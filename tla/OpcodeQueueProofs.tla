------------------------- MODULE OpcodeQueueProofs -------------------------
(***************************************************************************)
(* The safety of OpcodeQueue for every number of threads, every capacity   *)
(* and every number of opcodes.                                            *)
(***************************************************************************)
EXTENDS OpcodeQueue, SequenceTheorems, FiniteSetTheorems, TLAPS

LEMMA FreshOpcode ==
    ASSUME TypeOK, NEW p \in Producers, Ready(p)
    PROVE  /\ Fresh(p) \in Opcode
           /\ sent[p] + 1 \in 0 .. MaxSent
BY QueueAssumption DEF TypeOK, Ready, Fresh, Opcode

\* Every variable of OpcodeQueue keeps its type (queue.rs:42-52).
THEOREM TypeCorrect == Spec => []TypeOK
<1>1. Init => TypeOK
  BY QueueAssumption DEF Init, TypeOK
<1>2. TypeOK /\ [Next]_vars => TypeOK'
  <2> SUFFICES ASSUME TypeOK, [Next]_vars PROVE TypeOK'
    OBVIOUS
  <2>1. ASSUME NEW p \in Producers, Ready(p), Enqueue(p), forced' \subseteq Opcode
        PROVE  TypeOK'
    BY <2>1, FreshOpcode DEF Enqueue, TypeOK
  <2>2. ASSUME NEW p \in Producers, TryPush(p) PROVE TypeOK'
    BY <2>1, <2>2 DEF TryPush, TypeOK
  <2>3. ASSUME NEW p \in Producers, TryPushRejected(p) PROVE TypeOK'
    BY <2>3, FreshOpcode DEF TryPushRejected, TypeOK
  <2>4. ASSUME NEW p \in Producers, Push(p) PROVE TypeOK'
    BY <2>1, <2>4, FreshOpcode DEF Push, TypeOK
  <2>5. ASSUME NEW p \in Producers, NotifyOne(p) PROVE TypeOK'
    BY <2>5 DEF NotifyOne, TypeOK
  <2>6. ASSUME TakeHead, waiting' \subseteq Consumers, woken' \subseteq Consumers \ waiting'
        PROVE  TypeOK'
    BY <2>6, HeadTailProperties, AppendProperties DEF TakeHead, TypeOK
  <2>7. ASSUME NEW c \in Consumers, InPop(c) PROVE TypeOK'
    <3>1. CASE Pop(c)
      BY <2>6, <3>1 DEF Pop, TypeOK
    <3>2. CASE PopBlocks(c)
      BY <3>2 DEF PopBlocks, Idle, TypeOK
    <3>3. CASE WokenPop(c)
      BY <2>6, <3>3 DEF WokenPop, TypeOK
    <3>4. CASE WokenBlocks(c)
      BY <3>4 DEF WokenBlocks, TypeOK
    <3>5. QED
      BY <2>7, <3>1, <3>2, <3>3, <3>4 DEF InPop
  <2>8. ASSUME NEW c \in Consumers, SpuriousWakeup(c) PROVE TypeOK'
    BY <2>8 DEF SpuriousWakeup, TypeOK
  <2>9. ASSUME NEW c \in Consumers, TryPop(c) PROVE TypeOK'
    BY <2>6, <2>9 DEF TryPop, TypeOK
  <2>10. ASSUME NEW c \in Consumers, Drain(c) PROVE TypeOK'
    BY <2>10, EmptySeq, ConcatProperties DEF Drain, TypeOK
  <2>11. CASE UNCHANGED vars
    BY <2>11 DEF vars, TypeOK
  <2>12. QED
    BY <2>2, <2>3, <2>4, <2>5, <2>7, <2>8, <2>9, <2>10, <2>11 DEF Next, Produce
<1>3. QED
  BY <1>1, <1>2, PTL DEF Spec
----------------------------------------------------------------------------
(***************************************************************************)
(* No lost wakeup.  The invariant is inductive once types are known: a     *)
(* push adds one opcode and one pending notification, notify_one turns a   *)
(* notification into a wakeup, and a woken consumer that gives its wakeup  *)
(* up either takes an opcode or has seen an empty queue.                   *)
(***************************************************************************)
LEMMA FiniteThreads ==
    ASSUME TypeOK
    PROVE  /\ IsFiniteSet(notifying) /\ Cardinality(notifying) \in Nat
           /\ IsFiniteSet(waiting) /\ Cardinality(waiting) \in Nat
           /\ IsFiniteSet(woken) /\ Cardinality(woken) \in Nat
           /\ Len(queue) \in Nat
<1>1. notifying \in SUBSET Producers /\ waiting \in SUBSET Consumers
      /\ woken \in SUBSET Consumers /\ queue \in Seq(Opcode)
  BY DEF TypeOK
<1>2. IsFiniteSet(notifying) /\ IsFiniteSet(waiting) /\ IsFiniteSet(woken)
  BY <1>1, FS_Subset, QueueAssumption
<1>3. QED
  BY <1>1, <1>2, FS_CardinalityType

\* Taking the front opcode without touching the wait set keeps NoLostWakeup even
\* when the taker gives up a wakeup.
LEMMA TakeHeadKeepsWakeups ==
    ASSUME TypeOK, NoLostWakeup, TakeHead, waiting' = waiting,
           \/ woken' = woken
           \/ \E c \in woken : woken' = woken \ {c}
    PROVE  NoLostWakeup'
<1>1. Len(queue') = Len(queue) - 1 /\ notifying' = notifying
  BY HeadTailProperties DEF TypeOK, TakeHead
<1>2. Cardinality(woken') >= Cardinality(woken) - 1 /\ Cardinality(woken') \in Nat
  <2>1. CASE woken' = woken
    BY <2>1, FiniteThreads
  <2>2. ASSUME NEW c \in woken, woken' = woken \ {c}
        PROVE  /\ Cardinality(woken') = Cardinality(woken) - 1
               /\ Cardinality(woken') \in Nat
    <3>1. IsFiniteSet(woken') /\ Cardinality(woken') = Cardinality(woken) - 1
      BY <2>2, FiniteThreads, FS_RemoveElement
    <3>2. QED
      BY <3>1, FS_CardinalityType
  <2>3. QED
    BY <2>1, <2>2, FiniteThreads
<1>3. QED
  BY <1>1, <1>2, FiniteThreads DEF NoLostWakeup

LEMMA EnqueueKeepsWakeups ==
    ASSUME TypeOK, NoLostWakeup, NEW p \in Producers, Ready(p), Enqueue(p)
    PROVE  NoLostWakeup'
<1>1. Len(queue') = Len(queue) + 1
  BY FreshOpcode, AppendProperties DEF TypeOK, Enqueue
<1>2. Cardinality(notifying') = Cardinality(notifying) + 1
  BY FiniteThreads, FS_AddElement DEF Enqueue, Ready
<1>3. QED
  BY <1>1, <1>2, FiniteThreads DEF NoLostWakeup, Enqueue

\* A consumer that moves from the wait set to the woken ones adds a wakeup.
LEMMA WakeAddsOne ==
    ASSUME TypeOK, NEW c \in waiting, woken' = woken \cup {c}
    PROVE  Cardinality(woken') = Cardinality(woken) + 1
BY FiniteThreads, FS_AddElement DEF TypeOK

\* No consumer stays blocked while opcodes nobody was notified of are queued
\* (queue.rs:98-110 and 151-155).
THEOREM WakeupsNotLost == Spec => []NoLostWakeup
<1>1. Init => NoLostWakeup
  BY DEF Init, NoLostWakeup
<1>2. TypeOK /\ NoLostWakeup /\ [Next]_vars => NoLostWakeup'
  <2> SUFFICES ASSUME TypeOK, NoLostWakeup, [Next]_vars PROVE NoLostWakeup'
    OBVIOUS
  <2>1. ASSUME NEW p \in Producers, TryPush(p) \/ Push(p) PROVE NoLostWakeup'
    BY <2>1, EnqueueKeepsWakeups DEF TryPush, Push
  <2>2. ASSUME NEW p \in Producers, TryPushRejected(p) PROVE NoLostWakeup'
    BY <2>2 DEF TryPushRejected, NoLostWakeup
  <2>3. ASSUME NEW p \in Producers, NotifyOne(p) PROVE NoLostWakeup'
    <3>1. Cardinality(notifying') = Cardinality(notifying) - 1
      BY <2>3, FiniteThreads, FS_RemoveElement DEF NotifyOne
    <3>2. CASE waiting = {} /\ UNCHANGED <<waiting, woken>>
      BY <3>2 DEF NoLostWakeup
    <3>3. ASSUME NEW c \in waiting, woken' = woken \cup {c} PROVE NoLostWakeup'
      <4>1. Cardinality(woken') = Cardinality(woken) + 1
        BY <3>3, WakeAddsOne
      <4>2. Len(queue') = Len(queue)
        BY <2>3 DEF NotifyOne
      <4>3. QED
        BY <3>1, <3>3, <4>1, <4>2, FiniteThreads DEF NoLostWakeup
    <3>4. QED
      BY <2>3, <3>2, <3>3 DEF NotifyOne
  <2>4. ASSUME NEW c \in Consumers, Pop(c) \/ TryPop(c) PROVE NoLostWakeup'
    BY <2>4, TakeHeadKeepsWakeups DEF Pop, TryPop
  <2>5. ASSUME NEW c \in Consumers, WokenPop(c) PROVE NoLostWakeup'
    BY <2>5, TakeHeadKeepsWakeups DEF WokenPop
  <2>6. ASSUME queue' = <<>>, notifying' = notifying,
               woken' \subseteq Consumers
        PROVE  NoLostWakeup'
    <3>1. IsFiniteSet(woken') /\ Cardinality(woken') \in Nat
      BY <2>6, FS_Subset, FS_CardinalityType, QueueAssumption
    <3>2. QED
      BY <2>6, <3>1, FiniteThreads DEF NoLostWakeup
  <2>7. ASSUME NEW c \in Consumers, PopBlocks(c) \/ WokenBlocks(c) \/ Drain(c)
        PROVE  NoLostWakeup'
    BY <2>6, <2>7 DEF PopBlocks, WokenBlocks, Drain, TypeOK
  <2>8. ASSUME NEW c \in Consumers, SpuriousWakeup(c) PROVE NoLostWakeup'
    <3>1. c \in waiting /\ woken' = woken \cup {c}
      BY <2>8 DEF SpuriousWakeup
    <3>2. Cardinality(woken') = Cardinality(woken) + 1
      BY <3>1, WakeAddsOne
    <3>3. QED
      BY <2>8, <3>1, <3>2, FiniteThreads DEF SpuriousWakeup, NoLostWakeup
  <2>9. CASE UNCHANGED vars
    BY <2>9 DEF vars, NoLostWakeup
  <2>10. QED
    BY <2>1, <2>2, <2>3, <2>4, <2>5, <2>7, <2>8, <2>9 DEF Next, Produce, InPop
<1>3. QED
  BY <1>1, <1>2, TypeCorrect, PTL DEF Spec
----------------------------------------------------------------------------
\* Only what push forced in stands beyond the capacity (queue.rs:97-102).
THEOREM LimitIsStrictForTryPush == Spec => []SoftLimit
<1>1. Init => SoftLimit
  BY DEF Init, SoftLimit
<1>2. TypeOK /\ SoftLimit /\ [Next]_vars => SoftLimit'
  <2> SUFFICES ASSUME TypeOK, SoftLimit, [Next]_vars PROVE SoftLimit'
    OBVIOUS
  <2> USE QueueAssumption
  <2>1. ASSUME NEW p \in Producers, TryPush(p) PROVE SoftLimit'
    BY <2>1, FreshOpcode, AppendProperties DEF TryPush, Enqueue, SoftLimit, TypeOK
  <2>2. ASSUME NEW p \in Producers, Push(p) PROVE SoftLimit'
    <3>1. queue' = Append(queue, Fresh(p)) /\ forced' = forced \cup {Fresh(p)}
      BY <2>2 DEF Push, Enqueue
    <3>2. Len(queue') = Len(queue) + 1 /\ Len(queue) \in Nat
          /\ queue'[Len(queue) + 1] \in forced'
          /\ \A i \in 1 .. Len(queue) : queue'[i] = queue[i]
      BY <2>2, <3>1, FreshOpcode, AppendProperties DEF Push, TypeOK
    <3>3. QED
      BY <3>1, <3>2 DEF SoftLimit
  <2>3. ASSUME TakeHead PROVE SoftLimit'
    <3>1. Len(queue) \in Nat \ {0} /\ Len(queue') = Len(queue) - 1
          /\ forced' = forced
          /\ \A i \in 1 .. Len(queue) - 1 : queue'[i] = queue[i + 1]
      BY <2>3 DEF TakeHead, TypeOK
    <3>2. QED
      BY <3>1 DEF SoftLimit
  <2>4. CASE queue' = <<>>
    BY <2>4 DEF SoftLimit
  <2>5. CASE queue' = queue /\ forced' = forced
    BY <2>5 DEF SoftLimit
  <2>6. ASSUME NEW p \in Producers, Produce(p) PROVE SoftLimit'
    BY <2>1, <2>2, <2>5, <2>6 DEF Produce, TryPushRejected, NotifyOne
  <2>7. ASSUME NEW c \in Consumers,
               InPop(c) \/ SpuriousWakeup(c) \/ TryPop(c) \/ Drain(c)
        PROVE  SoftLimit'
    BY <2>3, <2>4, <2>5, <2>7
       DEF InPop, Pop, PopBlocks, WokenPop, WokenBlocks, SpuriousWakeup, TryPop, Drain
  <2>8. CASE UNCHANGED vars
    BY <2>5, <2>8 DEF vars
  <2>9. QED
    BY <2>6, <2>7, <2>8 DEF Next
<1>3. QED
  BY <1>1, <1>2, TypeCorrect, PTL DEF Spec
----------------------------------------------------------------------------
(***************************************************************************)
(* Order.  Every step leaves Stream alone or appends the next opcode of    *)
(* one producer, so what has to be carried along is that no opcode in it   *)
(* is newer than its producer's count.                                     *)
(***************************************************************************)
StreamNotAhead == \A i \in 1 .. Len(Stream) : Stream[i].nr <= sent[Stream[i].from]

OrderInv == ProducerOrder /\ StreamNotAhead

LEMMA StreamType ==
    ASSUME TypeOK
    PROVE  /\ Stream \in Seq(Opcode)
           /\ Len(Stream) \in Nat
           /\ \A i \in 1 .. Len(Stream) : Stream[i] \in Opcode
<1>1. Stream \in Seq(Opcode)
  BY ConcatProperties DEF TypeOK, Stream
<1>2. QED
  BY <1>1, ElementOfSeq, LenProperties

\* An enqueue appends to the stream.
LEMMA EnqueueStream ==
    ASSUME TypeOK, NEW p \in Producers, Ready(p), Enqueue(p)
    PROVE  Stream' = Append(Stream, Fresh(p))
<1>1. taken' = taken /\ queue' = Append(queue, Fresh(p))
  BY DEF Enqueue
<1>2. taken \in Seq(Opcode) /\ queue \in Seq(Opcode) /\ Fresh(p) \in Opcode
  BY FreshOpcode DEF TypeOK
<1>3. taken \o Append(queue, Fresh(p)) = Append(taken \o queue, Fresh(p))
  <2>1. taken \o (queue \o <<Fresh(p)>>) = (taken \o queue) \o <<Fresh(p)>>
    BY <1>2, ConcatAssociative
  <2>2. Append(queue, Fresh(p)) = queue \o <<Fresh(p)>>
    BY <1>2, AppendIsConcat
  <2>3. taken \o queue \in Seq(Opcode)
    BY <1>2, ConcatProperties
  <2>4. Append(taken \o queue, Fresh(p)) = (taken \o queue) \o <<Fresh(p)>>
    BY <1>2, <2>3, AppendIsConcat
  <2>5. QED
    BY <2>1, <2>2, <2>4
<1>4. QED
  BY <1>1, <1>3 DEF Stream

\* Taking the front opcode moves it within the stream.
LEMMA TakeHeadStream ==
    ASSUME TypeOK, TakeHead
    PROVE  Stream' = Stream
<1> DEFINE h == Head(queue)
           t == Tail(queue)
<1>1. /\ taken \in Seq(Opcode) /\ queue \in Seq(Opcode) /\ queue # <<>>
      /\ queue' = t /\ taken' = Append(taken, h)
  BY DEF TypeOK, TakeHead
<1>2. h \in Opcode /\ t \in Seq(Opcode)
  BY <1>1, HeadTailProperties
<1>3. <<h>> \in Seq(Opcode) /\ queue = <<h>> \o t
  BY <1>1, <1>2
<1>4. Append(taken, h) = taken \o <<h>>
  BY <1>1, <1>2, AppendIsConcat
<1>5. (taken \o <<h>>) \o t = taken \o (<<h>> \o t)
  BY <1>1, <1>2, <1>3, ConcatAssociative
<1>6. QED
  BY <1>1, <1>3, <1>4, <1>5 DEF Stream

\* Draining moves the whole queue within the stream.
LEMMA DrainStream ==
    ASSUME TypeOK, NEW c \in Consumers, Drain(c)
    PROVE  Stream' = Stream
<1>1. taken \o queue \in Seq(Opcode)
  BY ConcatProperties DEF TypeOK
<1>2. QED
  BY <1>1, ConcatEmptySeq DEF Drain, Stream

\* The opcodes of one producer leave in the order it made them, none of them
\* twice (queue.rs:108, 126, 136, 155, 164).
THEOREM OrderKept == Spec => []ProducerOrder
<1>1. Init => OrderInv
  BY DEF Init, OrderInv, ProducerOrder, StreamNotAhead, Stream
<1>2. TypeOK /\ OrderInv /\ [Next]_vars => OrderInv'
  <2> SUFFICES ASSUME TypeOK, OrderInv, [Next]_vars PROVE OrderInv'
    OBVIOUS
  <2>1. ASSUME NEW p \in Producers, Ready(p), Enqueue(p) PROVE OrderInv'
    <3>1. /\ Len(Stream') = Len(Stream) + 1
          /\ \A i \in 1 .. Len(Stream) : Stream'[i] = Stream[i]
          /\ Stream'[Len(Stream) + 1] = Fresh(p)
      BY <2>1, EnqueueStream, StreamType, FreshOpcode, AppendProperties
    <3>2. Fresh(p).from = p /\ Fresh(p).nr = sent[p] + 1
      BY DEF Fresh
    <3>3. /\ sent' = [sent EXCEPT ![p] = sent[p] + 1]
          /\ sent \in [Producers -> 0 .. MaxSent]
      BY <2>1 DEF Enqueue, TypeOK
    <3>4. \A i \in 1 .. Len(Stream) : Stream[i].nr \in Nat /\ Stream[i].from \in Producers
      BY StreamType, QueueAssumption DEF Opcode
    <3>5. StreamNotAhead'
      <4>1. ASSUME NEW i \in 1 .. Len(Stream)
            PROVE  Stream'[i].nr <= sent'[Stream'[i].from]
        <5>1. Stream[i].nr <= sent[Stream[i].from]
          BY DEF OrderInv, StreamNotAhead
        <5>2. sent[Stream[i].from] <= sent'[Stream[i].from]
              /\ sent[Stream[i].from] \in Nat /\ sent'[Stream[i].from] \in Nat
          BY <3>3, <3>4, QueueAssumption
        <5>3. QED
          BY <3>1, <3>4, <5>1, <5>2
      <4>2. Stream'[Len(Stream) + 1].nr <= sent'[Stream'[Len(Stream) + 1].from]
        BY <3>1, <3>2, <3>3, QueueAssumption
      <4>3. QED
        BY <3>1, <4>1, <4>2, StreamType DEF StreamNotAhead
    <3>6. ProducerOrder'
      <4>1. ASSUME NEW i \in 1 .. Len(Stream), Stream[i].from = p
            PROVE  Stream[i].nr < sent[p] + 1
        BY <3>3, <3>4, <4>1, QueueAssumption DEF OrderInv, StreamNotAhead
      <4>2. ASSUME NEW i \in 1 .. Len(Stream'), NEW j \in 1 .. Len(Stream'),
                   i < j, Stream'[i].from = Stream'[j].from
            PROVE  Stream'[i].nr < Stream'[j].nr
        <5>1. CASE j = Len(Stream) + 1
          BY <3>1, <3>2, <4>1, <4>2, <5>1, StreamType
        <5>2. CASE j # Len(Stream) + 1
          BY <3>1, <4>2, <5>2, StreamType DEF OrderInv, ProducerOrder
        <5>3. QED
          BY <5>1, <5>2
      <4>3. QED
        BY <4>2 DEF ProducerOrder
    <3>7. QED
      BY <3>5, <3>6 DEF OrderInv
  <2>2. CASE Stream' = Stream /\ sent' = sent
    BY <2>2 DEF OrderInv, ProducerOrder, StreamNotAhead
  <2>3. ASSUME NEW p \in Producers, TryPushRejected(p) PROVE OrderInv'
    <3>1. Stream' = Stream
      BY <2>3 DEF TryPushRejected, Stream
    <3>2. \A q \in Producers : sent[q] \in Nat /\ sent'[q] \in Nat /\ sent[q] <= sent'[q]
      BY <2>3, QueueAssumption DEF TryPushRejected, TypeOK
    <3>3. \A i \in 1 .. Len(Stream) : Stream[i].nr \in Nat /\ Stream[i].from \in Producers
      BY StreamType, QueueAssumption DEF Opcode
    <3>4. ASSUME NEW i \in 1 .. Len(Stream)
          PROVE  Stream[i].nr <= sent'[Stream[i].from]
      BY <3>2, <3>3 DEF OrderInv, StreamNotAhead
    <3>5. StreamNotAhead'
      BY <3>1, <3>4 DEF StreamNotAhead
    <3>6. ProducerOrder'
      BY <3>1 DEF OrderInv, ProducerOrder
    <3>7. QED
      BY <3>5, <3>6 DEF OrderInv
  <2>4. ASSUME NEW p \in Producers, Produce(p) PROVE OrderInv'
    BY <2>1, <2>2, <2>3, <2>4 DEF Produce, TryPush, Push, NotifyOne, Stream
  <2>5. ASSUME TakeHead PROVE OrderInv'
    BY <2>2, <2>5, TakeHeadStream DEF TakeHead
  <2>6. ASSUME NEW c \in Consumers, Drain(c) PROVE OrderInv'
    BY <2>2, <2>6, DrainStream DEF Drain
  <2>7. ASSUME NEW c \in Consumers, InPop(c) \/ SpuriousWakeup(c) \/ TryPop(c)
        PROVE  OrderInv'
    BY <2>2, <2>5, <2>7
       DEF InPop, Pop, PopBlocks, WokenPop, WokenBlocks, SpuriousWakeup, TryPop, Stream
  <2>8. CASE UNCHANGED vars
    BY <2>2, <2>8 DEF vars, Stream
  <2>9. QED
    BY <2>4, <2>6, <2>7, <2>8 DEF Next
<1>3. OrderInv => ProducerOrder
  BY DEF OrderInv
<1>4. QED
  BY <1>1, <1>2, <1>3, TypeCorrect, PTL DEF Spec
----------------------------------------------------------------------------
\* The mutex and condition variable implement the plain FIFO: each step is a step
\* of BoundedFifo or leaves it alone (its progress part is left to TLC).
THEOREM RefinesFifo == Spec => Fifo!Spec
<1>1. Init => Fifo!Init
  BY DEF Init, Fifo!Init
<1>2. TypeOK /\ [Next]_vars => [Fifo!Next]_(Fifo!fifoVars)
  <2> SUFFICES ASSUME TypeOK, [Next]_vars
               PROVE  Fifo!Next \/ UNCHANGED Fifo!fifoVars
    OBVIOUS
  <2>1. ASSUME NEW p \in Producers, TryPush(p) PROVE Fifo!Next
    BY <2>1, FreshOpcode DEF TryPush, Enqueue, Fifo!Next, Fifo!Offer
  <2>2. ASSUME NEW p \in Producers, Push(p) PROVE Fifo!Next
    BY <2>2, FreshOpcode DEF Push, Enqueue, Fifo!Next, Fifo!Force
  <2>3. ASSUME TakeHead PROVE Fifo!Next
    BY <2>3 DEF TakeHead, Fifo!Next, Fifo!Take
  <2>4. ASSUME NEW c \in Consumers, Drain(c) PROVE Fifo!Next
    BY <2>4 DEF Drain, Fifo!Next, Fifo!TakeAll
  <2>5. CASE UNCHANGED <<queue, forced, taken>>
    BY <2>5 DEF Fifo!fifoVars
  <2>6. ASSUME NEW p \in Producers, Produce(p)
        PROVE  Fifo!Next \/ UNCHANGED Fifo!fifoVars
    BY <2>1, <2>2, <2>5, <2>6 DEF Produce, TryPushRejected, NotifyOne
  <2>7. ASSUME NEW c \in Consumers,
               InPop(c) \/ SpuriousWakeup(c) \/ TryPop(c) \/ Drain(c)
        PROVE  Fifo!Next \/ UNCHANGED Fifo!fifoVars
    BY <2>3, <2>4, <2>5, <2>7
       DEF InPop, Pop, PopBlocks, WokenPop, WokenBlocks, SpuriousWakeup, TryPop
  <2>8. CASE UNCHANGED vars
    BY <2>5, <2>8 DEF vars
  <2>9. QED
    BY <2>6, <2>7, <2>8 DEF Next
<1>3. QED
  BY <1>1, <1>2, TypeCorrect, PTL DEF Spec, Fifo!Spec
============================================================================
