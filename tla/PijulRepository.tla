-------------------------- MODULE PijulRepository --------------------------
(***************************************************************************)
(* pijul/backend.rs: the repositories of the central store, each with a    *)
(* transactional database of channels (libpijul's pristine) beside a       *)
(* directory of change files.  The database and its lock are libpijul's;   *)
(* a change is a hash.  Which changes an opcode makes is RecordPipeline's. *)
(***************************************************************************)
EXTENDS Naturals, Sequences, SequencesExt, FiniteSets

CONSTANTS Project,    \* project directories of the central store, by UUID
          Channel,    \* names of channels
          Main,       \* libpijul::DEFAULT_CHANNEL
          Change,     \* hashes of changes
          None        \* no project, no channel, no change, no process

ASSUME RepositoryAssumption ==
    /\ Main \in Channel
    /\ None \notin Channel \cup Change \cup Project

VARIABLES parts,      \* what stands of a project's directory
          channels,   \* the channels in its database
          log,        \* the changes of a channel
          current,    \* the current channel, None in an empty database
          saved,      \* the changes in its change store
          lock        \* who has a mutable transaction

repositoryVars == <<parts, channels, log, current, saved, lock>>

\* Directories and files, save for those that stand and fall with another part.
Part == {"pristine", "db", "changes", "working", "toml"}

NoLog == [c \in Channel |-> <<>>]

Empty ==
    /\ parts = [p \in Project |-> {}]
    /\ channels = [p \in Project |-> {}]
    /\ log = [p \in Project |-> NoLog]
    /\ current = [p \in Project |-> None]
    /\ saved = [p \in Project |-> {}]
    /\ lock = [p \in Project |-> None]

Logged(p) == UNION {ToSet(log[p][c]) : c \in channels[p]}

\* Mutant: an empty database has no channel to fall back on.
CurrentOrNone(p) == current[p]

\* The channel a backend is opened on.
CurrentChannel(p) == IF current[p] = None THEN Main ELSE current[p]

\* Pristine::new makes the database file when it is not there.
OpenDb(p) == parts' = [parts EXCEPT ![p] = @ \cup {"db"}]
----------------------------------------------------------------------------
\* init: the directories and an empty database.
InitDirs(p) == parts' = [parts EXCEPT ![p] = @ \cup {"pristine", "db", "changes"}]

\* init: the transaction that makes the first channel.
InitChannel(p) ==
    /\ channels' = [channels EXCEPT ![p] = {Main}]
    /\ current' = [current EXCEPT ![p] = Main]

\* create_channel: open_or_create_channel.
CreateChannel(p, c) ==
    /\ channels' = [channels EXCEPT ![p] = @ \cup {c}]
    /\ UNCHANGED <<log, current>>

\* Mutant: the channel need not exist.
SwitchAnywhere(p, c) ==
    /\ current' = [current EXCEPT ![p] = c]
    /\ UNCHANGED <<channels, log>>

\* switch_channel.
SwitchChannel(p, c) ==
    /\ c \in channels[p]
    /\ current' = [current EXCEPT ![p] = c]
    /\ UNCHANGED <<channels, log>>

\* fork_channel.
ForkChannel(p, a, b) ==
    /\ a \in channels[p] /\ b \notin channels[p]
    /\ channels' = [channels EXCEPT ![p] = @ \cup {b}]
    /\ log' = [log EXCEPT ![p][b] = log[p][a]]
    /\ UNCHANGED current
----------------------------------------------------------------------------
\* What a transaction sees of the database when it begins.
Snapshot(p) == [channels |-> channels[p], log |-> log[p]]

Snapshots == [channels : SUBSET Channel, log : [Channel -> Seq(Change)]]

\* save_change: a file of the change store, outside any transaction.
SaveChange(p, x) == saved' = [saved EXCEPT ![p] = @ \cup {x}]

\* apply_local_change and commit, in a transaction that began at snapshot.
ApplyAndCommit(p, snapshot, c, x) ==
    /\ channels' = [channels EXCEPT ![p] = snapshot.channels]
    /\ log' = [log EXCEPT ![p] = [snapshot.log EXCEPT ![c] = Append(@, x)]]
----------------------------------------------------------------------------
\* A part of the directory is removed; with the database go the channels.
RemovePart(p, x) ==
    /\ parts' = [parts EXCEPT ![p] = @ \ {x}]
    /\ channels' = IF x = "db" THEN [channels EXCEPT ![p] = {}] ELSE channels
    /\ log' = IF x = "db" THEN [log EXCEPT ![p] = NoLog] ELSE log
    /\ current' = IF x = "db" THEN [current EXCEPT ![p] = None] ELSE current
    /\ lock' = IF x = "db" THEN [lock EXCEPT ![p] = None] ELSE lock
    /\ saved' = IF x = "changes" THEN [saved EXCEPT ![p] = {}] ELSE saved
=============================================================================
