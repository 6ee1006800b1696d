---------------------------- MODULE BoundedFifo ----------------------------
(***************************************************************************)
(* What OpcodeQueue promises the threads that share it, with no mutex and  *)
(* no condition variable: opcodes leave in the order they entered, an      *)
(* opcode offered at the soft limit is turned away, one that is pushed     *)
(* regardless may overflow the limit, and what is in the queue is taken    *)
(* out eventually.                                                         *)
(***************************************************************************)
EXTENDS Naturals, Sequences

CONSTANTS Opcode,      \* what may be put into the queue
          Capacity     \* the soft limit

VARIABLES items,       \* the opcodes held, oldest first
          forced,      \* the opcodes that were put in without regard to Capacity
          taken        \* every opcode taken out so far, in the order it left

fifoVars == <<items, forced, taken>>

Init == items = <<>> /\ forced = {} /\ taken = <<>>

Offer(op) ==
    /\ Len(items) < Capacity
    /\ items' = Append(items, op)
    /\ UNCHANGED <<forced, taken>>

Force(op) ==
    /\ items' = Append(items, op)
    /\ forced' = forced \cup {op}
    /\ UNCHANGED taken

Take ==
    /\ items # <<>>
    /\ items' = Tail(items)
    /\ taken' = Append(taken, Head(items))
    /\ UNCHANGED forced

TakeAll ==
    /\ items # <<>>
    /\ items' = <<>>
    /\ taken' = taken \o items
    /\ UNCHANGED forced

Next ==
    \/ \E op \in Opcode : Offer(op)
    \/ \E op \in Opcode : Force(op)
    \/ Take
    \/ TakeAll

Spec == Init /\ [][Next]_fifoVars

FairSpec == Spec /\ WF_fifoVars(Take \/ TakeAll)
============================================================================
