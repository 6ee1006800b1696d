----------------------- MODULE ProjectChannelsProofs -----------------------
(***************************************************************************)
(* Each repository of the project store is a ChannelLog, for every set of  *)
(* projects, processes, channels and changes.  Subject is any project.     *)
(*                                                                         *)
(* Every step does to the database of its project one of the five things   *)
(* below.  Beside Inv this takes that a project that is being made has an  *)
(* empty database, that a channel that is not there has no log, and that   *)
(* the change that is about to be committed is new to the channel.         *)
(***************************************************************************)
EXTENDS ProjectStoreProofs

CONSTANT Subject

Repository == INSTANCE ChannelLog WITH channels <- channels[Subject], log <- log[Subject],
                                       current <- current[Subject]

\* What the store holds of every project, also of one that is being deleted.
Kept(p) ==
    /\ "db" \notin parts[p] => channels[p] = {}
    /\ \A c \in Channel \ channels[p] : log[p][c] = <<>>
    /\ "changes" \in parts[p] => \A c \in Channel : ToSet(log[p][c]) \subseteq saved[p]

\* What a process may rely on.
Ready(q) ==
    LET p == job[q].proj
    IN  /\ job[q].stage \in {"repository", "channel"} => channels[p] = {} /\ log[p] = NoLog
        /\ q \in attached /\ job[q].stage \in {"record", "saved"} =>
              job[q].chan \in job[q].base.channels
        /\ q \in attached /\ job[q].stage = "saved" =>
              job[q].change \notin ToSet(job[q].base.log[job[q].chan])
        /\ job[q].stage = "saved" /\ "changes" \in parts[p] => job[q].change \in saved[p]

ChannelInv == Inv /\ (\A q \in Proc : Ready(q)) /\ (\A p \in Project : Kept(p))
----------------------------------------------------------------------------
\* The database stays as it is; the change store may grow, or go as a whole.
Quiet(q, p) ==
    /\ channels'[p] = channels[p] /\ log'[p] = log[p] /\ current'[p] = current[p]
    /\ "db" \in parts[p] => "db" \in parts'[p]
    /\ "changes" \in parts'[p] =>
          /\ "changes" \in parts[p] \/ job[q].stage = "repository"
          /\ saved[p] \subseteq saved'[p]

\* The database is deleted.
Loses(p) ==
    /\ channels'[p] = {} /\ log'[p] = NoLog /\ current'[p] = None
    /\ parts'[p] \subseteq parts[p] /\ saved'[p] = saved[p]

\* A channel comes, empty or with the log of another.
AddsChannel(p) ==
    \E c \in Channel \ channels[p] :
        /\ channels'[p] = channels[p] \cup {c}
        /\ \/ /\ log'[p] = log[p]
              /\ current'[p] = current[p] \/ (channels[p] = {} /\ current'[p] = c)
           \/ \E a \in channels[p] : /\ log'[p] = [log[p] EXCEPT ![c] = log[p][a]]
                                     /\ current'[p] = current[p]
        /\ "db" \in parts[p] /\ parts'[p] = parts[p] /\ saved'[p] = saved[p]

Switches(p) ==
    /\ current'[p] \in channels[p]
    /\ channels'[p] = channels[p] /\ log'[p] = log[p]
    /\ parts'[p] = parts[p] /\ saved'[p] = saved[p]

\* A new change comes to a channel.
Records(p) ==
    \E c \in channels[p], x \in Change :
        /\ x \notin ToSet(log[p][c])
        /\ log'[p] = [log[p] EXCEPT ![c] = Append(@, x)]
        /\ "changes" \in parts[p] => x \in saved[p]
        /\ channels'[p] = channels[p] /\ current'[p] = current[p]
        /\ parts'[p] = parts[p] /\ saved'[p] = saved[p]

OneOf(q, p) == Quiet(q, p) \/ Loses(p) \/ AddsChannel(p) \/ Switches(p) \/ Records(p)

\* The step of q: others keep what they work on, other projects all they have.
Effect(q) ==
    /\ attached' \subseteq attached \cup {q}
    /\ \A r \in Proc \ {q} :
         /\ job'[r].stage = job[r].stage /\ job'[r].proj = job[r].proj
         /\ job'[r].chan = job[r].chan /\ job'[r].change = job[r].change
         /\ job'[r].base = job[r].base
    /\ \A p \in Project \ {job[q].proj} :
         /\ parts'[p] = parts[p] /\ channels'[p] = channels[p] /\ log'[p] = log[p]
         /\ current'[p] = current[p] /\ saved'[p] = saved[p]
    /\ \A p \in Project \cap {job[q].proj} : OneOf(q, p)
----------------------------------------------------------------------------
LEMMA KeptByStep ==
    ASSUME ChannelInv, NEW q \in Proc, NEW p \in Project, job[q].proj = p, OneOf(q, p)
    PROVE  Kept(p)'
<1>1. /\ Kept(p) /\ Ready(q) /\ log[p] \in [Channel -> Seq(Change)]
      /\ channels[p] \in SUBSET Channel
  BY DEF ChannelInv, Inv, Typed, StoreTyped
<1>2. CASE Quiet(q, p)
  <2>1. ASSUME "changes" \in parts'[p], NEW c \in Channel
        PROVE  ToSet(log'[p][c]) \subseteq saved'[p]
    <3>1. CASE "changes" \in parts[p]
      BY <1>1, <1>2, <2>1, <3>1 DEF Kept, Quiet
    <3>2. CASE job[q].stage = "repository"
      BY <1>1, <1>2, <3>2 DEF Ready, Quiet, NoLog, ToSet
    <3>3. QED
      BY <1>2, <2>1, <3>1, <3>2 DEF Quiet
  <2>2. QED
    BY <1>1, <1>2, <2>1 DEF Kept, Quiet
<1>3. CASE Loses(p)
  BY <1>3 DEF Loses, Kept, NoLog, ToSet
<1>4. CASE AddsChannel(p)
  <2>1. PICK c \in Channel \ channels[p] :
            /\ channels'[p] = channels[p] \cup {c}
            /\ \/ log'[p] = log[p]
               \/ \E a \in channels[p] : log'[p] = [log[p] EXCEPT ![c] = log[p][a]]
            /\ "db" \in parts[p] /\ parts'[p] = parts[p] /\ saved'[p] = saved[p]
    BY <1>4 DEF AddsChannel
  <2>2. \A d \in Channel \ {c} : log'[p][d] = log[p][d]
    BY <1>1, <2>1
  <2>3. log'[p][c] = log[p][c] \/ \E a \in Channel : log'[p][c] = log[p][a]
    BY <1>1, <2>1
  <2>4. QED
    BY <1>1, <2>1, <2>2, <2>3 DEF Kept
<1>5. CASE Switches(p)
  BY <1>1, <1>5 DEF Kept, Switches
<1>6. CASE Records(p)
  <2>1. PICK c \in channels[p], x \in Change :
            /\ log'[p] = [log[p] EXCEPT ![c] = Append(@, x)]
            /\ "changes" \in parts[p] => x \in saved[p]
            /\ channels'[p] = channels[p]
            /\ parts'[p] = parts[p] /\ saved'[p] = saved[p]
    BY <1>6 DEF Records
  <2>2. \A d \in Channel \ {c} : log'[p][d] = log[p][d]
    BY <1>1, <2>1
  <2>3. ToSet(log'[p][c]) \subseteq ToSet(log[p][c]) \cup {x}
    BY <1>1, <2>1, AppendedSet
  <2>4. QED
    BY <1>1, <2>1, <2>2, <2>3 DEF Kept
<1>7. QED
  BY <1>2, <1>3, <1>4, <1>5, <1>6 DEF OneOf

\* An Add, a Switch, a Record or nothing of ChannelLog.
LEMMA SubjectByStep ==
    ASSUME ChannelInv, NEW q \in Proc, Subject \in Project, OneOf(q, Subject)
    PROVE  [Repository!Next]_(Repository!channelVars)
<1> DEFINE p == Subject
<1>1. /\ Kept(p) /\ log[p] \in [Channel -> Seq(Change)] /\ channels[p] \in SUBSET Channel
  BY DEF ChannelInv, Inv, Typed, StoreTyped
<1>2. CASE Quiet(q, p)
  BY <1>2 DEF Quiet, Repository!channelVars
<1>3. CASE Loses(p)
  BY <1>3 DEF Loses, Repository!Next, Repository!Lost, Repository!NoLog, NoLog
<1>4. CASE AddsChannel(p)
  <2>1. PICK c \in Channel \ channels[p] :
            /\ channels'[p] = channels[p] \cup {c}
            /\ \/ /\ log'[p] = log[p]
                  /\ current'[p] = current[p] \/ (channels[p] = {} /\ current'[p] = c)
               \/ \E a \in channels[p] : /\ log'[p] = [log[p] EXCEPT ![c] = log[p][a]]
                                         /\ current'[p] = current[p]
    BY <1>4 DEF AddsChannel
  <2>2. CASE log'[p] = log[p]
    <3>1. log[p] = [log[p] EXCEPT ![c] = <<>>]
      BY <1>1 DEF Kept
    <3>2. Repository!Adds(c, <<>>)
      BY <2>1, <2>2, <3>1 DEF Repository!Adds
    <3>3. Repository!First(c) \/ Repository!Create(c) \/ log'[p] # log[p]
             \/ \E a \in channels[p] : /\ log'[p] = [log[p] EXCEPT ![c] = log[p][a]]
                                       /\ current'[p] = current[p]
      BY <2>1, <3>2 DEF Repository!First, Repository!Create
    <3>4. current'[p] = current[p] => Repository!Create(c)
      BY <3>2 DEF Repository!Create
    <3>5. QED
      BY <2>2, <3>3, <3>4 DEF Repository!Next
  <2>3. ASSUME NEW a \in channels[p], log'[p] = [log[p] EXCEPT ![c] = log[p][a]],
               current'[p] = current[p]
        PROVE  Repository!Fork(a, c)
    BY <2>1, <2>3 DEF Repository!Fork, Repository!Adds
  <2>4. QED
    BY <1>1, <2>1, <2>2, <2>3 DEF Repository!Next
<1>5. CASE Switches(p)
  <2>1. Repository!Switch(current'[p])
    BY <1>5 DEF Switches, Repository!Switch
  <2>2. QED
    BY <1>1, <1>5, <2>1 DEF Switches, Repository!Next
<1>6. CASE Records(p)
  <2>1. PICK c \in channels[p], x \in Change :
            /\ x \notin ToSet(log[p][c])
            /\ log'[p] = [log[p] EXCEPT ![c] = Append(@, x)]
            /\ channels'[p] = channels[p] /\ current'[p] = current[p]
    BY <1>6 DEF Records
  <2>2. Repository!Record(c, x)
    BY <2>1 DEF Repository!Record, Repository!ToSet, ToSet
  <2>3. QED
    BY <1>1, <2>1, <2>2 DEF Repository!Next
<1>7. QED
  BY <1>2, <1>3, <1>4, <1>5, <1>6 DEF OneOf

\* What another process may rely on, it may rely on after the step of q.
LEMMA ReadyByStep ==
    ASSUME ChannelInv, NEW q \in Proc, Effect(q), NEW r \in Proc \ {q}
    PROVE  Ready(r)'
<1> DEFINE p == job[r].proj
<1>1. /\ job'[r].stage = job[r].stage /\ job'[r].proj = p
      /\ job'[r].chan = job[r].chan /\ job'[r].change = job[r].change
      /\ job'[r].base = job[r].base
      /\ r \in attached' => r \in attached
  BY DEF Effect
<1>2. Ready(r) /\ Own(r) /\ Own(q) /\ JobTyped(r)
  BY DEF ChannelInv, Inv, Typed
<1>3. ASSUME job[r].stage \in {"repository", "channel"}
      PROVE  channels'[p] = {} /\ log'[p] = NoLog
  <2>1. p \in Project /\ p # job[q].proj
    BY <1>2, <1>3 DEF Own, Alone, JobTyped, Making
  <2>2. QED
    BY <1>2, <1>3, <2>1 DEF Effect, Ready
<1>4. ASSUME job[r].stage = "saved", "changes" \in parts'[p]
      PROVE  job[r].change \in saved'[p]
  <2>1. p \in Project
    BY <1>2, <1>4 DEF JobTyped
  <2>2. CASE p = job[q].proj
    <3>1. OneOf(q, p)
      BY <2>1, <2>2 DEF Effect
    <3>2. job[q].stage # "repository"
      BY <1>2, <2>2 DEF Own, Alone, Making
    <3>3. "changes" \in parts[p] /\ saved[p] \subseteq saved'[p]
      BY <1>4, <3>1, <3>2 DEF OneOf, Quiet, Loses, AddsChannel, Switches, Records
    <3>4. QED
      BY <1>2, <1>4, <3>3 DEF Ready
  <2>3. CASE p # job[q].proj
    BY <1>2, <1>4, <2>1, <2>3 DEF Effect, Ready
  <2>4. QED
    BY <2>2, <2>3
<1>5. QED
  BY <1>1, <1>2, <1>3, <1>4 DEF Ready
----------------------------------------------------------------------------
\* Only the job of q changes, in a field or as a whole.
LEMMA JobsOfOthers ==
    ASSUME Inv, NEW q \in Proc, NEW j, job' = [job EXCEPT ![q] = j], NEW r \in Proc \ {q}
    PROVE  job'[r] = job[r]
  BY DEF Inv, Typed

\* A step that leaves the repositories alone but for what is added to a directory.
LEMMA QuietEffect ==
    ASSUME Inv, NEW q \in Proc, UNCHANGED <<repositoryVars>>,
           attached' \subseteq attached \cup {q}, \A r \in Proc \ {q} : job'[r] = job[r]
    PROVE  Effect(q)
  BY DEF Effect, OneOf, Quiet, repositoryVars

LEMMA LeavesEffect ==
    ASSUME Inv, NEW q \in Proc, Ends(q)
    PROVE  /\ attached' \subseteq attached /\ q \notin attached'
           /\ job'[q] = NoJob /\ \A r \in Proc \ {q} : job'[r] = job[r]
           /\ Ready(q)'
  BY NoJobIsJob DEF Ends, Inv, Typed, Ready

LEMMA FindingEffect ==
    ASSUME ChannelInv, NEW q \in Proc, Start(q) \/ Scan(q) \/ Open(q) \/ OpenPristine(q) \/ Opened(q)
    PROVE  Effect(q) /\ Ready(q)'
<1>0. /\ Inv /\ job \in [Proc -> Jobs] /\ JobTyped(q) /\ StoreTyped
      /\ None \notin Project
  BY RepositoryAssumption DEF ChannelInv, Inv, Typed
<1>1. CASE Start(q)
  <2>1. job'[q].stage = "scan" /\ \A r \in Proc \ {q} : job'[r] = job[r]
    BY <1>0, <1>1 DEF Start, NoJob
  <2>2. QED
    BY <1>0, <1>1, <2>1, QuietEffect DEF Start, Ready
<1>2. CASE Ends(q) /\ UNCHANGED repositoryVars
  BY <1>0, <1>2, LeavesEffect, QuietEffect
<1>3. CASE Scan(q)
  <2>1. CASE Ends(q)
    BY <1>2, <1>3, <2>1 DEF Scan, repositoryVars
  <2>2. CASE UNCHANGED attached /\ job'[q].stage \in {"open", "scan", "make"}
             /\ \A r \in Proc \ {q} : job'[r] = job[r]
    BY <1>0, <1>3, <2>2, QuietEffect DEF Scan, Ready
  <2>3. CASE UNCHANGED attached /\ \E p \in Found(job[q].dir) :
                 job' = [job EXCEPT ![q].stage = "open", ![q].proj = p]
    BY <1>0, <2>2, <2>3 DEF Jobs
  <2>4. CASE UNCHANGED attached /\ \E s \in {"make", "scan"} :
                 job' = [job EXCEPT ![q].again = TRUE, ![q].stage = s]
    BY <1>0, <2>2, <2>4 DEF Jobs
  <2>5. QED
    BY <1>3, <2>1, <2>3, <2>4 DEF Scan
<1>4. CASE Open(q)
  <2>1. CASE Leaves(q)
    BY <1>2, <2>1 DEF Leaves
  <2>2. CASE Goes(q, "pristine") /\ UNCHANGED <<repositoryVars, attached>>
    <3>1. job'[q].stage = "pristine" /\ \A r \in Proc \ {q} : job'[r] = job[r]
      BY <1>0, <2>2 DEF Goes, Jobs
    <3>2. QED
      BY <1>0, <2>2, <3>1, QuietEffect DEF Ready
  <2>3. QED
    BY <1>4, <2>1, <2>2 DEF Open
<1>5. CASE OpenPristine(q)
  <2> DEFINE p == job[q].proj
  <2>1. CASE Leaves(q)
    BY <1>2, <2>1 DEF Leaves
  <2>2. CASE /\ OpenDb(p)
             /\ job' = [job EXCEPT ![q].stage = "opened", ![q].chan = CurrentChannel(p)]
             /\ attached' = attached \cup {q}
             /\ UNCHANGED <<channels, log, current, saved, lock>>
    <3>1. job'[q].stage = "opened" /\ \A r \in Proc \ {q} : job'[r] = job[r]
      BY <1>0, <2>2 DEF Jobs
    <3>2. Effect(q)
      BY <1>0, <2>2, <3>1 DEF Effect, OneOf, Quiet, OpenDb, StoreTyped
    <3>3. QED
      BY <3>1, <3>2 DEF Ready
  <2>3. QED
    BY <1>5, <2>1, <2>2 DEF OpenPristine
<1>6. CASE Opened(q)
  <2>1. CASE Ends(q)
    BY <1>2, <1>6, <2>1 DEF Opened
  <2>2. CASE \E s \in {"mount", "txn", "exported"} : Goes(q, s) /\ UNCHANGED attached
    <3>1. /\ job'[q].stage \in {"mount", "txn", "exported"}
          /\ \A r \in Proc \ {q} : job'[r] = job[r]
      BY <1>0, <2>2 DEF Goes, Jobs
    <3>2. QED
      BY <1>0, <1>6, <2>2, <3>1, QuietEffect DEF Opened, Ready
  <2>3. CASE StartRemove(q) /\ ~Ends(q)
    <3>1. /\ job'[q].stage \in {"scan", "delete"}
          /\ \A r \in Proc \ {q} : job'[r] = job[r]
          /\ attached' \subseteq attached
      <4>1. CASE /\ job' = [job EXCEPT ![q] = [NoJob EXCEPT !.cmd = "remove", !.dir = job[q].dir,
                                                           !.stage = "scan", !.again = TRUE]]
                 /\ attached' = attached \ {q}
        BY <1>0, <4>1 DEF NoJob
      <4>2. CASE /\ job' = [job EXCEPT ![q].stage = "delete", ![q].left = parts[job[q].proj]]
                 /\ UNCHANGED attached
        BY <1>0, <4>2 DEF Jobs
      <4>3. QED
        BY <2>3, <4>1, <4>2 DEF StartRemove
    <3>2. QED
      BY <1>0, <1>6, <3>1, QuietEffect DEF Opened, Ready
  <2>4. QED
    BY <1>6, <2>1, <2>2, <2>3
       DEF Opened, Refused, Status, StartMount, StartChannel, StartExport
<1>7. QED
  BY <1>1, <1>3, <1>4, <1>5, <1>6

LEMMA MakingEffect ==
    ASSUME ChannelInv, NEW q \in Proc,
           Make(q) \/ MakeRepository(q) \/ MakeChannel(q) \/ CopyTree(q) \/ WriteToml(q)
    PROVE  Effect(q) /\ Ready(q)'
<1> DEFINE p == job[q].proj
<1>0. /\ Inv /\ job \in [Proc -> Jobs] /\ JobTyped(q) /\ StoreTyped /\ Ready(q) /\ Own(q)
      /\ \A r \in Project : Kept(r) /\ Held(r)
  BY DEF ChannelInv, Inv, Typed
<1>1. CASE Make(q)
  <2>1. PICK r \in Project :
            /\ parts[r] = {}
            /\ job' = [job EXCEPT ![q].stage = "repository", ![q].proj = r]
    BY <1>1 DEF Make
  <2>2. /\ job'[q].stage = "repository" /\ job'[q].proj = r
        /\ \A s \in Proc \ {q} : job'[s] = job[s]
    BY <1>0, <2>1 DEF Jobs
  <2>3. channels[r] = {} /\ log[r] = NoLog
    BY <1>0, <2>1 DEF Kept, Held, NoDbNoLog
  <2>4. Ready(q)'
    BY <1>1, <2>2, <2>3 DEF Make, Ready, repositoryVars
  <2>5. QED
    BY <1>0, <1>1, <2>2, <2>4, QuietEffect DEF Make
<1>2. CASE MakeRepository(q)
  <2>1. /\ job'[q].stage = "channel" /\ job'[q].proj = p
        /\ \A s \in Proc \ {q} : job'[s] = job[s]
    BY <1>0, <1>2 DEF MakeRepository, Goes, Jobs
  <2>2. p \in Project
    BY <1>0, <1>2 DEF MakeRepository, JobTyped
  <2>3. Ready(q)'
    BY <1>0, <1>2, <2>1 DEF MakeRepository, Ready
  <2>4. Effect(q)
    BY <1>0, <1>2, <2>1, <2>2 DEF MakeRepository, InitDirs, Effect, OneOf, Quiet, StoreTyped
  <2>5. QED
    BY <2>3, <2>4
<1>3. CASE MakeChannel(q)
  <2>1. /\ job'[q].stage = "copy" /\ \A s \in Proc \ {q} : job'[s] = job[s]
    BY <1>0, <1>3 DEF MakeChannel, Jobs
  <2>2. p \in Project /\ channels[p] = {} /\ "db" \in parts[p]
    BY <1>0, <1>3 DEF MakeChannel, JobTyped, Ready, Own, Made
  <2>3. AddsChannel(p)
    BY <1>0, <1>3, <2>2, RepositoryAssumption DEF MakeChannel, InitChannel, AddsChannel, StoreTyped
  <2>4. Effect(q)
    BY <1>0, <1>3, <2>1, <2>2, <2>3 DEF MakeChannel, InitChannel, Effect, OneOf, StoreTyped
  <2>5. QED
    BY <2>1, <2>4 DEF Ready
<1>4. CASE CopyTree(q)
  <2>1. /\ job'[q].stage = "toml" /\ \A s \in Proc \ {q} : job'[s] = job[s]
    BY <1>0, <1>4 DEF CopyTree, Goes, Jobs
  <2>2. Effect(q)
    BY <1>0, <1>4, <2>1 DEF CopyTree, Effect, OneOf, Quiet, StoreTyped
  <2>3. QED
    BY <2>1, <2>2 DEF Ready
<1>5. CASE WriteToml(q)
  <2> DEFINE job1 == [r \in Proc |-> IF job[r].cmd = "init" /\ job[r].dir = job[q].dir
                                     THEN [job[r] EXCEPT !.rivals = @ \cup {p}] ELSE job[r]]
  <2>1. \A s \in Proc :
            /\ job1[s] \in {job[s], [job[s] EXCEPT !.rivals = @ \cup {p}]}
            /\ job[s] \in Jobs
    BY <1>0
  <2>2. \A s \in Proc :
            /\ job1[s].stage = job[s].stage /\ job1[s].proj = job[s].proj
            /\ job1[s].chan = job[s].chan /\ job1[s].change = job[s].change
            /\ job1[s].base = job[s].base
    BY <2>1 DEF Jobs
  <2>3. /\ \A s \in Proc \ {q} : job'[s] = job1[s]
        /\ job'[q].stage \in {"idle", "txn"}
        /\ attached' \subseteq attached
    <3>1. CASE job' = [job1 EXCEPT ![q] = NoJob]
      BY <1>5, <3>1, NoJobIsJob DEF WriteToml
    <3>2. CASE job' = [job1 EXCEPT ![q].cmd = "create", ![q].stage = "txn"]
      <4>1. job'[q] = [job1[q] EXCEPT !.cmd = "create", !.stage = "txn"]
        BY <3>2
      <4>2. job'[q].stage = "txn"
        BY <2>1, <4>1 DEF Jobs
      <4>3. QED
        BY <1>5, <3>2, <4>2 DEF WriteToml
    <3>3. QED
      BY <1>5, <3>1, <3>2 DEF WriteToml
  <2>4. \A s \in Proc \ {q} :
            /\ job'[s].stage = job[s].stage /\ job'[s].proj = job[s].proj
            /\ job'[s].chan = job[s].chan /\ job'[s].change = job[s].change
            /\ job'[s].base = job[s].base
    BY <2>2, <2>3
  <2>5. Effect(q)
    BY <1>0, <1>5, <2>3, <2>4 DEF WriteToml, Effect, OneOf, Quiet, StoreTyped
  <2>6. QED
    BY <2>3, <2>5 DEF Ready
<1>6. QED
  BY <1>1, <1>2, <1>3, <1>4, <1>5

LEMMA TransactionEffect ==
    ASSUME ChannelInv, NEW q \in Proc, NEW c \in Channel, Create(q, c) \/ Switch(q, c) \/ Fork(q, c)
    PROVE  Effect(q) /\ Ready(q)'
<1> DEFINE p == job[q].proj
<1>0. Inv /\ Own(q) /\ p \in Project /\ StoreTyped /\ Kept(p)
  BY DEF ChannelInv, Inv, Typed, JobTyped, Create, Switch, Fork, Transaction
<1>1. Ends(q) /\ UNCHANGED <<parts, saved, lock>>
  BY DEF Create, Switch, Fork, Transaction
<1>2. /\ attached' \subseteq attached /\ Ready(q)'
      /\ \A r \in Proc \ {q} : job'[r] = job[r]
  BY <1>0, <1>1, LeavesEffect
<1>3. CASE UNCHANGED <<channels, log, current>>
  BY <1>0, <1>1, <1>2, <1>3, QuietEffect DEF repositoryVars
<1>4. ASSUME q \in attached,
             \/ CreateChannel(p, c) \/ SwitchChannel(p, c) \/ \E a : ForkChannel(p, a, c)
      PROVE  Effect(q)
  <2>1. "db" \in parts[p]
    BY <1>0, <1>4 DEF Own, Attachable
  <2>2. /\ \A r \in Project \ {p} : /\ channels'[r] = channels[r] /\ log'[r] = log[r]
                                    /\ current'[r] = current[r]
        /\ OneOf(q, p)
    <3>1. CASE CreateChannel(p, c)
      <4>1. CASE c \in channels[p]
        BY <1>0, <1>1, <3>1, <4>1 DEF CreateChannel, StoreTyped, OneOf, Quiet
      <4>2. CASE c \notin channels[p]
        BY <1>0, <1>1, <2>1, <3>1, <4>2 DEF CreateChannel, StoreTyped, OneOf, AddsChannel
      <4>3. QED
        BY <4>1, <4>2
    <3>2. CASE SwitchChannel(p, c)
      BY <1>0, <1>1, <3>2 DEF SwitchChannel, StoreTyped, OneOf, Switches
    <3>3. ASSUME NEW a, ForkChannel(p, a, c)
          PROVE  /\ \A r \in Project \ {p} : /\ channels'[r] = channels[r] /\ log'[r] = log[r]
                                             /\ current'[r] = current[r]
                 /\ OneOf(q, p)
      <4>1. a \in channels[p] /\ c \in Channel \ channels[p]
        BY <3>3 DEF ForkChannel
      <4>2. AddsChannel(p)
        BY <1>0, <1>1, <2>1, <3>3, <4>1 DEF ForkChannel, StoreTyped, AddsChannel
      <4>3. QED
        BY <1>0, <3>3, <4>2 DEF ForkChannel, StoreTyped, OneOf
    <3>4. QED
      BY <1>4, <3>1, <3>2, <3>3
  <2>3. QED
    BY <1>1, <1>2, <2>2 DEF Effect
<1>5. QED
  BY <1>2, <1>3, <1>4 DEF Create, Switch, Fork, Transaction

LEMMA ServingEffect ==
    ASSUME ChannelInv, NEW q \in Proc, Mount(q) \/ Connect(q) \/ Begin(q) \/ Save(q)
    PROVE  Effect(q) /\ Ready(q)'
<1> DEFINE p == job[q].proj
<1>0. /\ Inv /\ job \in [Proc -> Jobs] /\ StoreTyped /\ Ready(q) /\ Own(q) /\ Kept(p)
      /\ p \in Project
  BY DEF ChannelInv, Inv, Typed, JobTyped, Mount, Connect, Begin, Save
<1>1. CASE Mount(q)
  <2>1. CASE Leaves(q)
    BY <1>0, <2>1, LeavesEffect, QuietEffect DEF Leaves
  <2>2. CASE \E s \in {"connect", "deaf"} : Goes(q, s) /\ UNCHANGED <<repositoryVars, attached>>
    <3>1. job'[q].stage \in {"connect", "deaf"} /\ \A r \in Proc \ {q} : job'[r] = job[r]
      BY <1>0, <2>2 DEF Goes, Jobs
    <3>2. QED
      BY <1>0, <2>2, <3>1, QuietEffect DEF Ready
  <2>3. QED
    BY <1>1, <2>1, <2>2 DEF Mount
<1>2. CASE Connect(q)
  <2>1. job'[q].stage \in {"serving", "deaf"} /\ \A r \in Proc \ {q} : job'[r] = job[r]
    BY <1>0, <1>2 DEF Connect, Goes, Jobs
  <2>2. attached' \subseteq attached \cup {q}
    BY <1>2 DEF Connect
  <2>3. QED
    BY <1>0, <1>2, <2>1, <2>2, QuietEffect DEF Connect, Ready
<1>3. CASE Begin(q)
  <2>1. /\ job'[q].stage = "record" /\ \A r \in Proc \ {q} : job'[r] = job[r]
        /\ UNCHANGED <<parts, channels, log, current, saved, attached>>
    BY <1>0, <1>3 DEF Begin, Goes, Jobs
  <2>2. q \in attached => job'[q].chan \in job'[q].base.channels
    <3>1. ASSUME q \in attached
          PROVE  /\ job[q].chan \in channels[p]
                 /\ job' = [job EXCEPT ![q].stage = "record", ![q].base = Snapshot(p)]
      BY <1>3, <3>1 DEF Begin
    <3>2. ASSUME q \in attached
          PROVE  job'[q].chan = job[q].chan /\ job'[q].base = Snapshot(p)
      BY <1>0, <3>1, <3>2 DEF Jobs
    <3>3. QED
      BY <3>1, <3>2 DEF Snapshot
  <2>3. QED
    BY <2>1, <2>2 DEF Effect, OneOf, Quiet, Ready
<1>4. CASE Save(q)
  <2>1. PICK x \in Change \ UNION {saved[r] : r \in Project} :
            /\ SaveChange(p, x)
            /\ job' = [job EXCEPT ![q].stage = "saved", ![q].change = x]
    BY <1>4 DEF Save
  <2>2. /\ job'[q].stage = "saved" /\ job'[q].change = x /\ job'[q].proj = p
        /\ job'[q].chan = job[q].chan /\ job'[q].base = job[q].base
        /\ \A r \in Proc \ {q} : job'[r] = job[r]
    BY <1>0, <2>1 DEF Jobs
  <2>3. /\ saved'[p] = saved[p] \cup {x}
        /\ \A r \in Project \ {p} : saved'[r] = saved[r]
        /\ "changes" \in parts[p]
        /\ UNCHANGED <<parts, channels, log, current, attached>>
    BY <1>0, <1>4, <2>1 DEF Save, SaveChange, StoreTyped
  <2>4. Effect(q)
    BY <2>2, <2>3 DEF Effect, OneOf, Quiet
  <2>5. ASSUME q \in attached
        PROVE  job[q].chan \in job[q].base.channels /\ x \notin ToSet(job[q].base.log[job[q].chan])
    <3>1. job[q].chan \in job[q].base.channels /\ job[q].base = Snapshot(p)
      BY <1>0, <1>4, <2>5 DEF Ready, Own, Isolated, Save
    <3>2. job[q].chan \in Channel /\ job[q].base.log = log[p]
      BY <1>0, <3>1 DEF Snapshot, StoreTyped
    <3>3. ToSet(log[p][job[q].chan]) \subseteq saved[p]
      BY <1>0, <2>3, <3>2 DEF Kept
    <3>4. QED
      BY <1>0, <3>1, <3>2, <3>3
  <2>6. Ready(q)'
    BY <2>2, <2>3, <2>5 DEF Ready
  <2>7. QED
    BY <2>4, <2>6
<1>5. QED
  BY <1>1, <1>2, <1>3, <1>4

LEMMA UnlockingEffect ==
    ASSUME ChannelInv, NEW q \in Proc, Commit(q) \/ Abort(q) \/ Unmount(q) \/ Stops(q)
    PROVE  Effect(q) /\ Ready(q)'
<1> DEFINE p == job[q].proj
<1>0. /\ Inv /\ job \in [Proc -> Jobs] /\ StoreTyped /\ Ready(q) /\ Own(q) /\ JobTyped(q)
      /\ UNCHANGED <<parts, current, saved>>
  BY DEF ChannelInv, Inv, Typed, Commit, Abort, Unmount, Stops
<1>1. CASE Commit(q) \/ Abort(q)
  <2>1. job'[q].stage = "serving" /\ (\A r \in Proc \ {q} : job'[r] = job[r])
        /\ UNCHANGED attached
    BY <1>0, <1>1 DEF Commit, Abort, Jobs
  <2>2. CASE UNCHANGED <<channels, log>>
    BY <1>0, <2>1, <2>2 DEF Effect, OneOf, Quiet, Ready
  <2>3. CASE /\ job[q].stage = "saved" /\ q \in attached
             /\ ApplyAndCommit(p, job[q].base, job[q].chan, job[q].change)
    <3> DEFINE c == job[q].chan
               x == job[q].change
    <3>1. p \in Project /\ x \in Change
      BY <1>0, <2>3 DEF JobTyped
    <3>2. job[q].base.channels = channels[p] /\ job[q].base.log = log[p]
      BY <1>0, <2>3 DEF Own, Isolated, Snapshot
    <3>3. /\ c \in channels[p] /\ x \notin ToSet(log[p][c])
          /\ "changes" \in parts[p] => x \in saved[p]
      BY <1>0, <2>3, <3>2 DEF Ready
    <3>4. /\ channels'[p] = channels[p]
          /\ log'[p] = [log[p] EXCEPT ![c] = Append(@, x)]
          /\ \A r \in Project \ {p} : channels'[r] = channels[r] /\ log'[r] = log[r]
      BY <1>0, <2>3, <3>1, <3>2 DEF ApplyAndCommit, StoreTyped
    <3>5. Records(p)
      BY <1>0, <3>1, <3>3, <3>4 DEF Records
    <3>6. QED
      BY <1>0, <2>1, <3>4, <3>5 DEF Effect, OneOf, Ready
  <2>4. QED
    BY <1>1, <2>2, <2>3 DEF Commit, Abort
<1>2. CASE Unmount(q) \/ Stops(q)
  <2>1. Ends(q) /\ UNCHANGED <<channels, log>>
    BY <1>2 DEF Unmount, Stops
  <2>2. QED
    BY <1>0, <2>1, LeavesEffect DEF Effect, OneOf, Quiet
<1>3. QED
  BY <1>1, <1>2

LEMMA EndingEffect ==
    ASSUME ChannelInv, NEW q \in Proc, Delete(q) \/ Deleted(q) \/ Exported(q)
    PROVE  Effect(q) /\ Ready(q)'
<1> DEFINE p == job[q].proj
<1>0. /\ Inv /\ job \in [Proc -> Jobs] /\ StoreTyped /\ JobTyped(q)
  BY DEF ChannelInv, Inv, Typed
<1>1. CASE Delete(q)
  <2>1. CASE Ends(q) /\ UNCHANGED repositoryVars
    BY <1>0, <2>1, LeavesEffect, QuietEffect
  <2>2. ASSUME NEW x, RemovePart(p, x), job' = [job EXCEPT ![q].left = @ \ {x}],
               attached' \subseteq attached
        PROVE  Effect(q) /\ Ready(q)'
    <3>1. p \in Project /\ job[q].stage = "delete"
      BY <1>0, <1>1 DEF Delete, JobTyped
    <3>2. job'[q].stage = "delete" /\ \A r \in Proc \ {q} : job'[r] = job[r]
      BY <1>0, <2>2, <3>1 DEF Jobs
    <3>3. \A r \in Project \ {p} :
              /\ parts'[r] = parts[r] /\ channels'[r] = channels[r] /\ log'[r] = log[r]
              /\ current'[r] = current[r] /\ saved'[r] = saved[r]
      BY <1>0, <2>2, <3>1 DEF RemovePart, StoreTyped
    <3>4. OneOf(q, p)
      <4>1. CASE x = "db"
        BY <1>0, <2>2, <3>1, <4>1 DEF RemovePart, StoreTyped, OneOf, Loses
      <4>2. CASE x # "db"
        BY <1>0, <2>2, <3>1, <4>2 DEF RemovePart, StoreTyped, OneOf, Quiet
      <4>3. QED
        BY <4>1, <4>2
    <3>5. QED
      BY <2>2, <3>2, <3>3, <3>4 DEF Effect, Ready
  <2>3. PICK x \in job[q].left :
            \/ Ends(q) /\ UNCHANGED repositoryVars
            \/ /\ RemovePart(p, x) /\ job' = [job EXCEPT ![q].left = @ \ {x}]
               /\ attached' = IF x = "db" THEN {r \in attached : job[r].proj # p} ELSE attached
    BY <1>1 DEF Delete
  <2>4. QED
    BY <2>1, <2>2, <2>3
<1>2. CASE Deleted(q) \/ Exported(q)
  BY <1>0, <1>2, LeavesEffect, QuietEffect DEF Deleted, Exported, Leaves
<1>3. QED
  BY <1>1, <1>2
----------------------------------------------------------------------------
LEMMA ChannelInvInit == Init => ChannelInv
<1> SUFFICES ASSUME Init PROVE ChannelInv
  OBVIOUS
<1>1. \A q \in Proc : Ready(q)
  BY NoJobIsJob DEF Init, Ready
<1>2. \A p \in Project : Kept(p)
  BY DEF Init, Empty, Kept, NoLog
<1>3. QED
  BY <1>1, <1>2, InvInit DEF ChannelInv

LEMMA ChannelInvStep ==
    ASSUME ChannelInv, Inv', [Next]_vars
    PROVE  ChannelInv' /\ (Subject \in Project => [Repository!Next]_(Repository!channelVars))
<1>1. ASSUME NEW q \in Proc, Step(q)
      PROVE  ChannelInv' /\ (Subject \in Project => [Repository!Next]_(Repository!channelVars))
  <2>1. Effect(q) /\ Ready(q)'
    BY <1>1, FindingEffect, MakingEffect, TransactionEffect, ServingEffect, UnlockingEffect,
       EndingEffect DEF Step
  <2>2. \A r \in Proc : Ready(r)'
    BY <2>1, ReadyByStep
  <2>3. ASSUME NEW p \in Project PROVE Kept(p)'
    <3>1. CASE p = job[q].proj
      BY <2>1, <3>1, KeptByStep DEF Effect
    <3>2. CASE p # job[q].proj
      BY <2>1, <3>2 DEF Effect, ChannelInv, Kept
    <3>3. QED
      BY <3>1, <3>2
  <2>4. ASSUME Subject \in Project PROVE [Repository!Next]_(Repository!channelVars)
    <3>1. CASE Subject = job[q].proj
      BY <2>1, <2>4, <3>1, SubjectByStep DEF Effect
    <3>2. CASE Subject # job[q].proj
      BY <2>1, <2>4, <3>2 DEF Effect, Repository!channelVars
    <3>3. QED
      BY <3>1, <3>2
  <2>5. QED
    BY <2>2, <2>3, <2>4 DEF ChannelInv
<1>2. CASE UNCHANGED <<repositoryVars, job, attached>>
  BY <1>2 DEF ChannelInv, Ready, Kept, repositoryVars, Repository!channelVars
<1>3. QED
  BY <1>1, <1>2 DEF Next, vars, Fusermount

\* The inductive invariant, Inv with what a repository is about to do.
THEOREM ChannelInvariance == Spec => []ChannelInv
  BY ChannelInvInit, ChannelInvStep, Invariance, PTL DEF Spec

\* The store implements what a repository promises about its channels, whatever processes
\* do: logs grow by one new change at a time, channels come empty or forked, and no commit
\* undoes another's.  See ChannelsKept.
THEOREM RefinesChannelLog == Subject \in Project => (Spec => Repository!Spec)
<1> SUFFICES ASSUME Subject \in Project PROVE Spec => Repository!Spec
  OBVIOUS
<1>1. Init => Repository!Init
  BY DEF Init, Empty, Repository!Init, Repository!NoLog, NoLog
<1>2. ChannelInv /\ Inv' /\ [Next]_vars => [Repository!Next]_(Repository!channelVars)
  BY ChannelInvStep
<1>3. QED
  BY <1>1, <1>2, ChannelInvariance, Invariance, PTL DEF Spec, Repository!Spec
=============================================================================
