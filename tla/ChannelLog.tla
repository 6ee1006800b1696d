----------------------------- MODULE ChannelLog -----------------------------
(***************************************************************************)
(* What a repository promises about its channels: they are created,        *)
(* forked and made current, and a channel's log only grows, by one change  *)
(* at a time that is new to it; until the database is lost as a whole.     *)
(***************************************************************************)
EXTENDS Sequences, SequencesExt

CONSTANTS Channel, Change, None

VARIABLES channels, log, current

channelVars == <<channels, log, current>>

NoLog == [c \in Channel |-> <<>>]

Init == channels = {} /\ log = NoLog /\ current = None

Adds(c, changes) ==
    /\ c \notin channels
    /\ channels' = channels \cup {c}
    /\ log' = [log EXCEPT ![c] = changes]

First(c) == channels = {} /\ Adds(c, <<>>) /\ current' = c

Create(c) == Adds(c, <<>>) /\ UNCHANGED current

Fork(a, b) == a \in channels /\ Adds(b, log[a]) /\ UNCHANGED current

Switch(c) == c \in channels /\ current' = c /\ UNCHANGED <<channels, log>>

Record(c, x) ==
    /\ c \in channels /\ x \notin ToSet(log[c])
    /\ log' = [log EXCEPT ![c] = Append(@, x)]
    /\ UNCHANGED <<channels, current>>

Lost == channels' = {} /\ log' = NoLog /\ current' = None

Next ==
    \/ \E c \in Channel : First(c) \/ Create(c) \/ Switch(c)
    \/ \E a, b \in Channel : Fork(a, b)
    \/ \E c \in Channel, x \in Change : Record(c, x)
    \/ Lost

Spec == Init /\ [][Next]_channelVars
=============================================================================
