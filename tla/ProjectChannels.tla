-------------------------- MODULE ProjectChannels --------------------------
(***************************************************************************)
(* The repositories of the project store, each as a ChannelLog: the        *)
(* detailed one has processes, transactions and a lock, the abstract one   *)
(* only channels whose logs grow.                                          *)
(***************************************************************************)
EXTENDS ProjectStore

\* The database of a project is a log of channels.
Repository(p) == INSTANCE ChannelLog WITH channels <- channels[p], log <- log[p],
                                          current <- current[p]

\* Every step keeps what a repository promises about its channels: they are created, forked
\* and made current, logs grow by one new change at a time, and no process undoes what
\* another has committed (backend.rs:681-764, backend.rs:816-835).
ChannelsKept ==
    [][\A p \in Project : \/ Repository(p)!Next
                          \/ UNCHANGED <<channels[p], log[p], current[p]>>]_vars
=============================================================================
