------------------------- MODULE ProjectStoreProofs -------------------------
(***************************************************************************)
(* The safety of the project store, for every set of projects, processes,  *)
(* directories, channels and changes, and every number of commands.        *)
(*                                                                         *)
(* Inv is the inductive invariant.  Typed is TypeOK with what it needs of  *)
(* jobs.  Own(q) says who may be in the way of process q (nobody, while it *)
(* makes a project; nobody who writes, while it has a transaction) and     *)
(* what it may rely on; Held(p) what the store holds of project p, unless  *)
(* a removal has begun to delete it.                                       *)
(***************************************************************************)
EXTENDS ProjectStore, SequenceTheorems, TLAPS

\* What a job holds at the stages that use it.
JobTyped(q) ==
    /\ job[q].stage # "idle" => job[q].dir \in Source
    /\ job[q].stage \notin {"idle", "scan", "make"} => job[q].proj \in Project
    /\ job[q].stage \in Serving \cup {"opened", "mount"} => job[q].chan \in Channel
    /\ job[q].stage = "saved" => job[q].change \in Change
    /\ q \in attached /\ job[q].stage \in {"record", "saved"} => job[q].base \in Snapshots

StoreTyped ==
    /\ parts \in [Project -> SUBSET Part]
    /\ channels \in [Project -> SUBSET Channel]
    /\ log \in [Project -> [Channel -> Seq(Change)]]
    /\ current \in [Project -> Channel \cup {None}]
    /\ saved \in [Project -> SUBSET Change]
    /\ lock \in [Project -> Proc \cup {None}]
    /\ source \in [Project -> Source \cup {None}]
    /\ attached \subseteq Proc
    /\ runs \in 0 .. MaxRuns
    /\ dead \subseteq Source
    /\ doomed \subseteq Project

Typed == StoreTyped /\ job \in [Proc -> Jobs] /\ \A q \in Proc : JobTyped(q)

\* A process that holds a database is past opening it.
Attachable(q) ==
    q \in attached =>
        /\ job[q].stage \notin {"idle", "scan", "open", "pristine", "make", "repository"}
        /\ "db" \in parts[job[q].proj]

\* The job of a command that has found its project, or has none yet.
AtWork(q) == job[q].stage \notin {"idle", "scan", "make"} \cup Making

\* Nobody knows of a project that is being made but the process that makes it.
Alone(q) ==
    job[q].stage \in Making =>
        /\ \A r \in Proc \ {q} : job[r].proj # job[q].proj
        /\ job[q].proj \notin doomed
        /\ "toml" \notin parts[job[q].proj]

\* An open transaction has the lock, and the database is as it saw it.
Isolated(q) ==
    q \in attached /\ job[q].stage \in {"record", "saved"} =>
        lock[job[q].proj] = q /\ job[q].base = Snapshot(job[q].proj)

\* A process that has not come to a project names none.
Unbound(q) ==
    /\ job[q].stage \in {"idle", "scan", "make"} => job[q].proj = None
    /\ job[q].stage \in {"scan", "make", "repository", "channel"} => job[q].chan = None

\* What init has made of a project when it is at some stage.
Made(q) ==
    LET p == job[q].proj
    IN  /\ job[q].stage \in {"channel", "copy", "toml"} =>
              {"pristine", "db", "changes"} \subseteq parts[p]
        /\ job[q].stage \in {"copy", "toml"} => Main \in channels[p] /\ current[p] \in channels[p]
        /\ job[q].stage = "toml" => "working" \in parts[p]

\* A project that was found is found again, until it is removed.
StillThere(q) ==
    AtWork(q) /\ job[q].proj \notin doomed => "toml" \in parts[job[q].proj]

\* The channel that was cached, see CachedChannelExists.
CachedExists(q) ==
    q \in attached /\ job[q].chan # None /\ job[q].proj \notin doomed =>
        job[q].chan \in channels[job[q].proj]

\* The change that is about to be committed is saved.
ChangeSaved(q) ==
    job[q].stage = "saved" /\ job[q].proj \notin doomed =>
        job[q].change \in saved[job[q].proj]

\* Init has seen no project of the directory but those that came meanwhile.
Tracked(q) ==
    job[q].stage \in Making \cup {"make"} =>
        job[q].cmd = "init" /\ Found(job[q].dir) \subseteq job[q].rivals

LogsSaved(p) == p \notin doomed => \A c \in Channel : ToSet(log[p][c]) \subseteq saved[p]

NoDbNoLog(p) == "db" \notin parts[p] => log[p] = NoLog

FoundWhole(p) == p \notin doomed /\ "toml" \in parts[p] => Whole(p)

\* What holds of every process, and of every project.
Own(q) ==
    /\ Attachable(q) /\ Alone(q) /\ Isolated(q) /\ Unbound(q)
    /\ Made(q) /\ StillThere(q) /\ CachedExists(q)
    /\ ChangeSaved(q) /\ Tracked(q)

Held(p) == LogsSaved(p) /\ NoDbNoLog(p) /\ FoundWhole(p)

Inv == Typed /\ (\A q \in Proc : Own(q)) /\ (\A p \in Project : Held(p))
----------------------------------------------------------------------------
LEMMA LogTypes ==
    ASSUME StoreTyped, NEW p \in Project
    PROVE  /\ NoLog \in [Channel -> Seq(Change)]
           /\ Logged(p) \subseteq Change
           /\ CurrentChannel(p) \in Channel
           /\ Snapshot(p) \in Snapshots
<1>1. NoLog \in [Channel -> Seq(Change)]
  BY EmptySeq DEF NoLog
<1>2. ASSUME NEW c \in channels[p]
      PROVE  ToSet(log[p][c]) \subseteq Change
  <2>1. log[p][c] \in Seq(Change)
    BY DEF StoreTyped
  <2>2. \A k \in 1 .. Len(log[p][c]) : log[p][c][k] \in Change
    BY <2>1, ElementOfSeq
  <2>3. QED
    BY <2>1, <2>2 DEF ToSet
<1>3. Logged(p) \subseteq Change
  BY <1>2 DEF Logged
<1>4. CurrentChannel(p) \in Channel
  BY RepositoryAssumption DEF StoreTyped, CurrentChannel
<1>5. Snapshot(p) \in Snapshots
  BY DEF StoreTyped, Snapshot, Snapshots
<1>6. QED
  BY <1>1, <1>3, <1>4, <1>5

LEMMA TypedImpliesTypeOK == Typed => TypeOK
  BY DEF Typed, TypeOK, StoreTyped, JobTyped

LEMMA TypedInit == Init => Typed
<1> SUFFICES ASSUME Init PROVE Typed
  OBVIOUS
<1>1. NoLog \in [Channel -> Seq(Change)]
  BY EmptySeq DEF NoLog
<1>2. NoJob \in Jobs
  BY DEF NoJob, Jobs, Stage
<1>3. StoreTyped
  BY <1>1, StoreAssumption DEF Init, Empty, StoreTyped
<1>4. job \in [Proc -> Jobs] /\ \A q \in Proc : JobTyped(q)
  BY <1>2 DEF Init, JobTyped, NoJob, Serving
<1>5. QED
  BY <1>3, <1>4 DEF Typed

LEMMA Stages ==
    {"idle", "scan", "open", "pristine", "opened", "mount", "txn", "delete", "exported",
     "repository", "channel", "copy", "toml", "make", "connect", "deaf", "serving",
     "record", "saved"} = Stage
  BY DEF Stage, Making, Serving

\* A job with a field replaced is a job.
LEMMA JobUpdate ==
    ASSUME NEW j \in Jobs
    PROVE  /\ \A s \in Stage : [j EXCEPT !.stage = s] \in Jobs
           /\ \A p \in Project : [j EXCEPT !.proj = p] \in Jobs
           /\ \A b \in BOOLEAN : [j EXCEPT !.again = b] \in Jobs
           /\ \A c \in Channel : [j EXCEPT !.chan = c] \in Jobs
           /\ \A c \in Command \cup {"create", None} : [j EXCEPT !.cmd = c] \in Jobs
           /\ \A x \in Change \cup {None} : [j EXCEPT !.change = x] \in Jobs
           /\ \A b \in Snapshots \cup {None} : [j EXCEPT !.base = b] \in Jobs
           /\ \A s \in Source \cup {None} : [j EXCEPT !.dir = s] \in Jobs
           /\ \A l \in SUBSET Part : [j EXCEPT !.left = l] \in Jobs
           /\ \A p \in SUBSET Project : [j EXCEPT !.rivals = p] \in Jobs
  BY DEF Jobs

LEMMA NoJobIsJob == NoJob \in Jobs /\ NoJob.stage = "idle" /\ NoJob.proj = None /\ NoJob.chan = None
  BY DEF NoJob, Jobs, Stage

\* A process that ends leaves no job behind.
LEMMA TypedEnds ==
    ASSUME Typed, NEW q \in Proc, Ends(q), StoreTyped'
    PROVE  Typed'
<1>1. job' \in [Proc -> Jobs]
  BY NoJobIsJob DEF Typed, Ends
<1>2. \A r \in Proc : JobTyped(r)'
  BY NoJobIsJob DEF Typed, Ends, JobTyped, Serving
<1>3. QED
  BY <1>1, <1>2 DEF Typed

\* The step of a process that goes on with job j.
LEMMA TypedJob ==
    ASSUME Typed, NEW q \in Proc, NEW j \in Jobs, job' = [job EXCEPT ![q] = j],
           StoreTyped', attached' \subseteq attached \cup {q}, JobTyped(q)'
    PROVE  Typed'
<1>1. job' \in [Proc -> Jobs]
  BY DEF Typed
<1>2. ASSUME NEW r \in Proc PROVE JobTyped(r)'
  BY DEF Typed, JobTyped
<1>3. QED
  BY <1>1, <1>2 DEF Typed

LEMMA TypedFinding ==
    ASSUME Typed, NEW q \in Proc,
           Start(q) \/ Scan(q) \/ Open(q) \/ OpenPristine(q) \/ Opened(q)
    PROVE  Typed'
<1> USE DEF repositoryVars
<1>0. job[q] \in Jobs /\ StoreTyped /\ JobTyped(q)
  BY DEF Typed
<1>1. CASE Start(q)
  <2>1. PICK c \in Command, s \in Source \ dead :
            job' = [job EXCEPT ![q] = [NoJob EXCEPT !.cmd = c, !.dir = s, !.stage = "scan"]]
    BY <1>1 DEF Start
  <2> DEFINE j == [NoJob EXCEPT !.cmd = c, !.dir = s, !.stage = "scan"]
  <2>2. j \in Jobs
    BY NoJobIsJob, JobUpdate, Stages
  <2>3. StoreTyped'
    <3>1. runs' \in 0 .. MaxRuns
      <4>1. runs < MaxRuns /\ runs' = runs + 1
        BY <1>1 DEF Start
      <4>2. runs \in 0 .. MaxRuns /\ MaxRuns \in Nat
        BY <1>0, StoreAssumption DEF StoreTyped
      <4>3. QED
        BY <4>1, <4>2
    <3>2. QED
      BY <1>0, <1>1, <3>1 DEF Start, StoreTyped
  <2>4. JobTyped(q)'
    BY <2>1, <2>2 DEF JobTyped, Typed, Serving, Jobs
  <2>5. QED
    BY <1>1, <2>1, <2>2, <2>3, <2>4, TypedJob DEF Start
<1>2. CASE Scan(q)
  <2>0. job[q].dir \in Source
    BY <1>0, <1>2 DEF Scan, JobTyped
  <2>1. StoreTyped'
    BY <1>0, <1>2 DEF Scan, StoreTyped, Ends
  <2>2. CASE \E p \in Found(job[q].dir) :
                 job' = [job EXCEPT ![q].stage = "open", ![q].proj = p] /\ attached' = attached
    <3>1. PICK p \in Project :
              job' = [job EXCEPT ![q].stage = "open", ![q].proj = p] /\ attached' = attached
      BY <2>2 DEF Found
    <3> DEFINE j == [job[q] EXCEPT !.stage = "open", !.proj = p]
    <3>2. j \in Jobs /\ job' = [job EXCEPT ![q] = j]
      BY <1>0, <3>1, JobUpdate, Stages DEF Typed
    <3>3. JobTyped(q)'
      BY <1>0, <2>0, <3>1, <3>2 DEF JobTyped, Typed, Serving, Jobs
    <3>4. QED
      BY <2>1, <3>1, <3>2, <3>3, TypedJob
  <2>3. CASE \E s \in {"make", "scan"} :
                 job' = [job EXCEPT ![q].again = TRUE, ![q].stage = s] /\ attached' = attached
    <3>1. PICK s \in {"make", "scan"} :
              job' = [job EXCEPT ![q].again = TRUE, ![q].stage = s] /\ attached' = attached
      BY <2>3
    <3> DEFINE j == [job[q] EXCEPT !.again = TRUE, !.stage = s]
    <3>2. j \in Jobs /\ job' = [job EXCEPT ![q] = j]
      BY <1>0, <3>1, JobUpdate, Stages DEF Typed
    <3>3. JobTyped(q)'
      BY <1>0, <2>0, <3>1, <3>2 DEF JobTyped, Typed, Serving, Jobs
    <3>4. QED
      BY <2>1, <3>1, <3>2, <3>3, TypedJob
  <2>4. CASE Ends(q)
    BY <2>1, <2>4, TypedEnds
  <2>5. QED
    BY <1>2, <2>2, <2>3, <2>4 DEF Scan
<1>3. CASE Open(q)
  <2>1. StoreTyped'
    BY <1>0, <1>3 DEF Open, StoreTyped, Ends, Leaves
  <2>2. CASE Goes(q, "pristine") /\ attached' = attached
    <3> DEFINE j == [job[q] EXCEPT !.stage = "pristine"]
    <3>1. j \in Jobs /\ job' = [job EXCEPT ![q] = j]
      BY <1>0, <2>2, JobUpdate, Stages DEF Goes
    <3>2. JobTyped(q)'
      BY <1>0, <1>3, <3>1 DEF JobTyped, Typed, Serving, Jobs, Open
    <3>3. QED
      BY <2>1, <2>2, <3>1, <3>2, TypedJob
  <2>3. CASE Ends(q)
    BY <2>1, <2>3, TypedEnds
  <2>4. QED
    BY <1>3, <2>2, <2>3 DEF Open, Leaves
<1>4. CASE OpenPristine(q)
  <2>1. job[q].proj \in Project
    BY <1>0, <1>4 DEF OpenPristine, JobTyped
  <2>2. StoreTyped'
    <3>1. parts' \in [Project -> SUBSET Part]
      <4>1. parts' = parts \/ OpenDb(job[q].proj)
        BY <1>4 DEF OpenPristine, Leaves
      <4>2. parts \in [Project -> SUBSET Part] /\ "db" \in Part
        BY <1>0 DEF StoreTyped, Part
      <4>3. QED
        BY <2>1, <4>1, <4>2 DEF OpenDb
    <3>2. attached' \subseteq Proc
      BY <1>0, <1>4 DEF OpenPristine, StoreTyped, Leaves, Ends
    <3>3. QED
      BY <1>0, <1>4, <3>1, <3>2 DEF OpenPristine, StoreTyped, Leaves
  <2>3. CASE job' = [job EXCEPT ![q].stage = "opened",
                                ![q].chan = CurrentChannel(job[q].proj)]
             /\ attached' = attached \cup {q}
    <3> DEFINE j == [job[q] EXCEPT !.stage = "opened", !.chan = CurrentChannel(job[q].proj)]
    <3>1. CurrentChannel(job[q].proj) \in Channel
      BY <1>0, <2>1, LogTypes
    <3>2. j \in Jobs /\ job' = [job EXCEPT ![q] = j]
      BY <1>0, <2>3, <3>1, JobUpdate, Stages DEF Typed
    <3>3. JobTyped(q)'
      BY <1>0, <1>4, <2>1, <3>1, <3>2, <2>3 DEF JobTyped, Typed, Serving, Jobs, OpenPristine
    <3>4. QED
      BY <2>2, <2>3, <3>2, <3>3, TypedJob
  <2>4. CASE Ends(q)
    BY <2>2, <2>4, TypedEnds
  <2>5. QED
    BY <1>4, <2>3, <2>4 DEF OpenPristine, Leaves
<1>5. CASE Opened(q)
  <2>1. StoreTyped'
    BY <1>0, <1>5 DEF Opened, Refused, Status, StartMount, StartRemove, StartChannel,
                      StartExport, Goes, Ends, StoreTyped
  <2>2. CASE Ends(q)
    BY <2>1, <2>2, TypedEnds
  <2>3. CASE \E s \in {"mount", "txn", "exported"} : Goes(q, s) /\ attached' = attached
    <3>1. PICK s \in {"mount", "txn", "exported"} : Goes(q, s) /\ attached' = attached
      BY <2>3
    <3> DEFINE j == [job[q] EXCEPT !.stage = s]
    <3>2. j \in Jobs /\ job' = [job EXCEPT ![q] = j]
      BY <1>0, <3>1, JobUpdate, Stages DEF Goes
    <3>3. JobTyped(q)'
      BY <1>0, <1>5, <3>1, <3>2 DEF JobTyped, Typed, Serving, Jobs, Opened
    <3>4. QED
      BY <2>1, <3>1, <3>2, <3>3, TypedJob
  <2>4. CASE job' = [job EXCEPT ![q] = [NoJob EXCEPT !.cmd = "remove", !.dir = job[q].dir,
                                                     !.stage = "scan", !.again = TRUE]]
             /\ attached' = attached \ {q} /\ job[q].cmd = "remove"
    <3> DEFINE j == [NoJob EXCEPT !.cmd = "remove", !.dir = job[q].dir, !.stage = "scan",
                                  !.again = TRUE]
    <3>1. "remove" \in Command \cup {"create", None} /\ job[q].dir \in Source \cup {None}
      BY <1>0, <2>4 DEF Jobs
    <3>2. j \in Jobs
      BY <3>1, NoJobIsJob, JobUpdate, Stages
    <3>3. JobTyped(q)'
      BY <1>0, <1>5, <2>4, <3>2 DEF JobTyped, Typed, Serving, Jobs, Opened
    <3>4. QED
      BY <2>1, <2>4, <3>2, <3>3, TypedJob
  <2>5. CASE \E l \in SUBSET Part : /\ job' = [job EXCEPT ![q].stage = "delete", ![q].left = l]
                                  /\ attached' = attached
    <3>1. PICK l \in SUBSET Part : /\ job' = [job EXCEPT ![q].stage = "delete", ![q].left = l]
                                   /\ attached' = attached
      BY <2>5
    <3> DEFINE j == [job[q] EXCEPT !.stage = "delete", !.left = l]
    <3>2. j \in Jobs /\ job' = [job EXCEPT ![q] = j]
      BY <1>0, <3>1, JobUpdate, Stages DEF Typed
    <3>3. JobTyped(q)'
      BY <1>0, <1>5, <3>1, <3>2 DEF JobTyped, Typed, Serving, Jobs, Opened
    <3>4. QED
      BY <2>1, <3>1, <3>2, <3>3, TypedJob
  <2>6. parts[job[q].proj] \in SUBSET Part
    BY <1>0, <1>5 DEF Opened, JobTyped, StoreTyped
  <2>7. QED
    BY <1>5, <2>2, <2>3, <2>4, <2>5, <2>6
       DEF Opened, Refused, Status, StartMount, StartRemove, StartChannel, StartExport
<1>6. QED
  BY <1>1, <1>2, <1>3, <1>4, <1>5

LEMMA TypedMaking ==
    ASSUME Typed, NEW q \in Proc,
           Make(q) \/ MakeRepository(q) \/ MakeChannel(q) \/ CopyTree(q) \/ WriteToml(q)
    PROVE  Typed'
<1>0. job[q] \in Jobs /\ StoreTyped /\ JobTyped(q)
  BY DEF Typed
<1>1. CASE Make(q)
  <2>1. PICK p \in Project : job' = [job EXCEPT ![q].stage = "repository", ![q].proj = p]
    BY <1>1 DEF Make
  <2> DEFINE j == [job[q] EXCEPT !.stage = "repository", !.proj = p]
  <2>2. j \in Jobs /\ job' = [job EXCEPT ![q] = j]
    BY <1>0, <2>1, JobUpdate, Stages DEF Typed
  <2>3. StoreTyped'
    BY <1>0, <1>1 DEF Make, StoreTyped, repositoryVars
  <2>4. JobTyped(q)'
    BY <1>0, <1>1, <2>2 DEF JobTyped, Typed, Serving, Jobs, Make
  <2>5. QED
    BY <1>1, <2>2, <2>3, <2>4, TypedJob DEF Make
<1>2. CASE MakeRepository(q)
  <2> DEFINE j == [job[q] EXCEPT !.stage = "channel"]
  <2>1. job[q].proj \in Project
    BY <1>0, <1>2 DEF MakeRepository, JobTyped
  <2>2. j \in Jobs /\ job' = [job EXCEPT ![q] = j]
    BY <1>0, <1>2, JobUpdate, Stages DEF MakeRepository, Goes
  <2>3. parts' \in [Project -> SUBSET Part]
    BY <1>0, <1>2 DEF MakeRepository, InitDirs, StoreTyped, Part
  <2>4. StoreTyped'
    BY <1>0, <1>2, <2>3 DEF MakeRepository, StoreTyped
  <2>5. JobTyped(q)'
    BY <1>0, <1>2, <2>1, <2>2 DEF JobTyped, Typed, Serving, Jobs, MakeRepository
  <2>6. QED
    BY <1>2, <2>2, <2>4, <2>5, TypedJob DEF MakeRepository
<1>3. CASE MakeChannel(q)
  <2> DEFINE j == [job[q] EXCEPT !.stage = "copy", !.chan = Main]
  <2>1. job[q].proj \in Project
    BY <1>0, <1>3 DEF MakeChannel, JobTyped
  <2>2. j \in Jobs /\ job' = [job EXCEPT ![q] = j]
    BY <1>0, <1>3, JobUpdate, Stages, RepositoryAssumption DEF MakeChannel, Typed
  <2>3. channels' \in [Project -> SUBSET Channel] /\ current' \in [Project -> Channel \cup {None}]
    BY <1>0, <1>3, RepositoryAssumption DEF MakeChannel, InitChannel, StoreTyped
  <2>4. StoreTyped'
    BY <1>0, <1>3, <2>3 DEF MakeChannel, StoreTyped
  <2>5. JobTyped(q)'
    BY <1>0, <1>3, <2>1, <2>2 DEF JobTyped, Typed, Serving, Jobs, MakeChannel
  <2>6. QED
    BY <1>3, <2>2, <2>4, <2>5, TypedJob DEF MakeChannel
<1>4. CASE CopyTree(q)
  <2> DEFINE j == [job[q] EXCEPT !.stage = "toml"]
  <2>1. job[q].proj \in Project
    BY <1>0, <1>4 DEF CopyTree, JobTyped
  <2>2. j \in Jobs /\ job' = [job EXCEPT ![q] = j]
    BY <1>0, <1>4, JobUpdate, Stages DEF CopyTree, Goes
  <2>3. parts' \in [Project -> SUBSET Part]
    BY <1>0, <1>4 DEF CopyTree, StoreTyped, Part
  <2>4. StoreTyped'
    BY <1>0, <1>4, <2>3 DEF CopyTree, StoreTyped
  <2>5. JobTyped(q)'
    BY <1>0, <1>4, <2>1, <2>2 DEF JobTyped, Typed, Serving, Jobs, CopyTree
  <2>6. QED
    BY <1>4, <2>2, <2>4, <2>5, TypedJob DEF CopyTree
<1>5. CASE WriteToml(q)
  <2> DEFINE p == job[q].proj
             told(r) == IF job[r].cmd = "init" /\ job[r].dir = job[q].dir
                        THEN [job[r] EXCEPT !.rivals = @ \cup {p}] ELSE job[r]
             job1 == [r \in Proc |-> told(r)]
  <2>1. p \in Project
    BY <1>0, <1>5 DEF WriteToml, JobTyped
  <2>2. ASSUME NEW r \in Proc
        PROVE  /\ told(r) \in Jobs
               /\ told(r).stage = job[r].stage /\ told(r).proj = job[r].proj
               /\ told(r).chan = job[r].chan /\ told(r).change = job[r].change
               /\ told(r).base = job[r].base /\ told(r).dir = job[r].dir
    <3>1. job[r] \in Jobs
      BY DEF Typed
    <3>2. job[r].rivals \cup {p} \in SUBSET Project
      BY <2>1, <3>1 DEF Jobs
    <3>3. [job[r] EXCEPT !.rivals = @ \cup {p}] \in Jobs
      BY <3>1, <3>2, JobUpdate
    <3>4. QED
      BY <3>1, <3>3 DEF Jobs
  <2> HIDE DEF told
  <2>3. StoreTyped'
    <3>1. parts' \in [Project -> SUBSET Part]
      BY <1>0, <1>5 DEF WriteToml, StoreTyped, Part
    <3>2. source' \in [Project -> Source \cup {None}]
      BY <1>0, <1>5 DEF WriteToml, StoreTyped, Jobs
    <3>3. attached' \subseteq Proc
      BY <1>0, <1>5 DEF WriteToml, StoreTyped
    <3>4. QED
      BY <1>0, <1>5, <3>1, <3>2, <3>3 DEF WriteToml, StoreTyped
  <2>4. CASE job' = [job1 EXCEPT ![q] = NoJob] /\ attached' = attached \ {q}
    <3>1. job' \in [Proc -> Jobs]
      BY <2>2, <2>4, NoJobIsJob
    <3>2. ASSUME NEW r \in Proc PROVE JobTyped(r)'
      <4>1. CASE r = q
        BY <2>4, <4>1, NoJobIsJob DEF JobTyped, Serving
      <4>2. CASE r # q
        <5>1. job'[r] = told(r) /\ (r \in attached' => r \in attached)
          BY <2>4, <4>2
        <5>2. QED
          BY <2>2, <5>1 DEF JobTyped, Typed
      <4>3. QED
        BY <4>1, <4>2
    <3>3. QED
      BY <2>3, <3>1, <3>2 DEF Typed
  <2>5. CASE job' = [job1 EXCEPT ![q].cmd = "create", ![q].stage = "txn"] /\ attached' = attached
    <3>1. [told(q) EXCEPT !.cmd = "create", !.stage = "txn"] \in Jobs
      BY <2>2, JobUpdate, Stages
    <3>2. job' = [job1 EXCEPT ![q] = [told(q) EXCEPT !.cmd = "create", !.stage = "txn"]]
      BY <2>5
    <3>3. job' \in [Proc -> Jobs]
      BY <2>2, <3>1, <3>2
    <3>4. ASSUME NEW r \in Proc PROVE JobTyped(r)'
      <4>1. CASE r = q
        <5>1. job'[q].stage = "txn" /\ job'[q].proj = p /\ job'[q].dir = job[q].dir
          BY <2>2, <3>2 DEF Jobs
        <5>2. QED
          BY <1>0, <1>5, <2>1, <4>1, <5>1 DEF JobTyped, Serving, WriteToml
      <4>2. CASE r # q
        <5>1. job'[r] = told(r) /\ (r \in attached' => r \in attached)
          BY <2>5, <3>2, <4>2
        <5>2. QED
          BY <2>2, <5>1 DEF JobTyped, Typed
      <4>3. QED
        BY <4>1, <4>2
    <3>5. QED
      BY <2>3, <3>3, <3>4 DEF Typed
  <2>6. QED
    BY <1>5, <2>4, <2>5 DEF WriteToml, told
<1>6. QED
  BY <1>1, <1>2, <1>3, <1>4, <1>5

LEMMA TypedChannel ==
    ASSUME Typed, NEW q \in Proc, NEW c \in Channel, Create(q, c) \/ Switch(q, c) \/ Fork(q, c)
    PROVE  Typed'
<1>1. StoreTyped /\ Ends(q) /\ job[q].proj \in Project
  BY DEF Typed, JobTyped, Create, Switch, Fork, Transaction
<1>2. /\ channels' \in [Project -> SUBSET Channel]
      /\ log' \in [Project -> [Channel -> Seq(Change)]]
      /\ current' \in [Project -> Channel \cup {None}]
  <2>1. CASE UNCHANGED <<channels, log, current>>
    BY <1>1, <2>1 DEF StoreTyped
  <2>2. CASE CreateChannel(job[q].proj, c)
    BY <1>1, <2>2 DEF StoreTyped, CreateChannel
  <2>3. CASE SwitchChannel(job[q].proj, c)
    BY <1>1, <2>3 DEF StoreTyped, SwitchChannel
  <2>4. ASSUME NEW a, ForkChannel(job[q].proj, a, c)
        PROVE  /\ channels' \in [Project -> SUBSET Channel]
               /\ log' \in [Project -> [Channel -> Seq(Change)]]
               /\ current' \in [Project -> Channel \cup {None}]
    <3>1. a \in Channel
      BY <1>1, <2>4 DEF StoreTyped, ForkChannel
    <3>2. QED
      BY <1>1, <2>4, <3>1 DEF StoreTyped, ForkChannel
  <2>5. QED
    BY <2>1, <2>2, <2>3, <2>4 DEF Create, Switch, Fork, Transaction
<1>3. StoreTyped'
  BY <1>1, <1>2 DEF StoreTyped, Create, Switch, Fork, Transaction, Ends
<1>4. QED
  BY <1>1, <1>3, TypedEnds

LEMMA TypedMounting ==
    ASSUME Typed, NEW q \in Proc,
           \/ Mount(q) \/ Connect(q) \/ Begin(q) \/ Save(q)
           \/ Commit(q) \/ Abort(q) \/ Unmount(q)
    PROVE  Typed'
<1>0. job[q] \in Jobs /\ StoreTyped /\ JobTyped(q)
  BY DEF Typed
<1>9. \A s \in Stage : [job[q] EXCEPT !.stage = s] \in Jobs
  BY <1>0, JobUpdate
<1>1. CASE Mount(q)
  <2>1. StoreTyped'
    BY <1>0, <1>1 DEF Mount, StoreTyped, Leaves, Ends, repositoryVars
  <2>2. CASE \E s \in {"connect", "deaf"} : Goes(q, s) /\ attached' = attached
    <3>1. PICK s \in {"connect", "deaf"} : Goes(q, s) /\ attached' = attached
      BY <2>2
    <3> DEFINE j == [job[q] EXCEPT !.stage = s]
    <3>2. j \in Jobs /\ job' = [job EXCEPT ![q] = j]
      BY <1>9, <3>1, Stages DEF Goes
    <3>3. JobTyped(q)'
      BY <1>0, <1>1, <3>1, <3>2 DEF JobTyped, Typed, Serving, Jobs, Mount
    <3>4. QED
      BY <2>1, <3>1, <3>2, <3>3, TypedJob
  <2>3. CASE Ends(q)
    BY <2>1, <2>3, TypedEnds
  <2>4. QED
    BY <1>1, <2>2, <2>3 DEF Mount, Leaves
<1>2. CASE Connect(q)
  <2>1. job[q].proj \in Project
    BY <1>0, <1>2 DEF Connect, JobTyped
  <2>2. StoreTyped'
    BY <1>0, <1>2 DEF Connect, StoreTyped, repositoryVars
  <2>3. CASE job' = [job EXCEPT ![q].stage = "serving",
                                ![q].chan = CurrentChannel(job[q].proj)]
             /\ attached' = attached \cup {q}
    <3> DEFINE j == [job[q] EXCEPT !.stage = "serving", !.chan = CurrentChannel(job[q].proj)]
    <3>1. CurrentChannel(job[q].proj) \in Channel
      BY <1>0, <2>1, LogTypes
    <3>2. j \in Jobs /\ job' = [job EXCEPT ![q] = j]
      BY <1>0, <2>3, <3>1, JobUpdate, Stages DEF Typed
    <3>3. JobTyped(q)'
      BY <1>0, <1>2, <2>1, <3>1, <3>2, <2>3 DEF JobTyped, Typed, Serving, Jobs, Connect
    <3>4. QED
      BY <2>2, <2>3, <3>2, <3>3, TypedJob
  <2>4. CASE Goes(q, "deaf") /\ attached' = attached
    <3> DEFINE j == [job[q] EXCEPT !.stage = "deaf"]
    <3>1. j \in Jobs /\ job' = [job EXCEPT ![q] = j]
      BY <1>9, <2>4, Stages DEF Goes
    <3>2. JobTyped(q)'
      BY <1>0, <1>2, <2>4, <3>1 DEF JobTyped, Typed, Serving, Jobs, Connect
    <3>3. QED
      BY <2>2, <2>4, <3>1, <3>2, TypedJob
  <2>5. QED
    BY <1>2, <2>3, <2>4 DEF Connect
<1>3. CASE Begin(q)
  <2>1. job[q].proj \in Project
    BY <1>0, <1>3 DEF Begin, JobTyped, Serving
  <2>2. StoreTyped'
    BY <1>0, <1>3 DEF Begin, StoreTyped
  <2>3. CASE job' = [job EXCEPT ![q].stage = "record", ![q].base = Snapshot(job[q].proj)]
    <3> DEFINE j == [job[q] EXCEPT !.stage = "record", !.base = Snapshot(job[q].proj)]
    <3>1. Snapshot(job[q].proj) \in Snapshots
      BY <1>0, <2>1, LogTypes
    <3>2. j \in Jobs /\ job' = [job EXCEPT ![q] = j]
      BY <1>0, <2>3, <3>1, JobUpdate, Stages DEF Typed
    <3>3. JobTyped(q)'
      BY <1>0, <1>3, <2>1, <3>1, <3>2 DEF JobTyped, Typed, Serving, Jobs, Begin
    <3>4. QED
      BY <1>3, <2>2, <3>2, <3>3, TypedJob DEF Begin
  <2>4. CASE Goes(q, "record") /\ q \notin attached
    <3> DEFINE j == [job[q] EXCEPT !.stage = "record"]
    <3>1. j \in Jobs /\ job' = [job EXCEPT ![q] = j]
      BY <1>9, <2>4, Stages DEF Goes
    <3>2. JobTyped(q)'
      BY <1>0, <1>3, <2>4, <3>1 DEF JobTyped, Typed, Serving, Jobs, Begin
    <3>3. QED
      BY <1>3, <2>2, <3>1, <3>2, TypedJob DEF Begin
  <2>5. QED
    BY <1>3, <2>3, <2>4 DEF Begin
<1>4. CASE Save(q)
  <2>1. PICK x \in Change : /\ SaveChange(job[q].proj, x)
                            /\ job' = [job EXCEPT ![q].stage = "saved", ![q].change = x]
    BY <1>4 DEF Save
  <2> DEFINE j == [job[q] EXCEPT !.stage = "saved", !.change = x]
  <2>2. j \in Jobs /\ job' = [job EXCEPT ![q] = j]
    BY <1>0, <2>1, JobUpdate, Stages DEF Typed
  <2>3. saved' \in [Project -> SUBSET Change]
    BY <1>0, <2>1 DEF SaveChange, StoreTyped
  <2>4. StoreTyped'
    BY <1>0, <1>4, <2>3 DEF Save, StoreTyped
  <2>5. JobTyped(q)'
    BY <1>0, <1>4, <2>2 DEF JobTyped, Typed, Serving, Jobs, Save
  <2>6. QED
    BY <1>4, <2>2, <2>4, <2>5, TypedJob DEF Save
<1>5. CASE Commit(q) \/ Abort(q)
  <2> DEFINE j == [job[q] EXCEPT !.stage = "serving", !.base = None, !.change = None]
  <2>1. job' = [job EXCEPT ![q].stage = "serving", ![q].base = None, ![q].change = None]
    BY <1>5 DEF Commit, Abort
  <2>2. j \in Jobs
    BY <1>0, JobUpdate, Stages
  <2>3. job' = [job EXCEPT ![q] = j]
    BY <2>1 DEF Typed
  <2>4. job[q].proj \in Project /\ job[q].chan \in Channel
    BY <1>0, <1>5 DEF Commit, Abort, JobTyped, Serving
  <2>5. lock' \in [Project -> Proc \cup {None}]
    BY <1>0, <1>5 DEF Commit, Abort, Released, StoreTyped
  <2>6. /\ channels' \in [Project -> SUBSET Channel]
        /\ log' \in [Project -> [Channel -> Seq(Change)]]
    <3>1. CASE UNCHANGED <<channels, log>>
      BY <1>0, <3>1 DEF StoreTyped
    <3>2. CASE Commit(q) /\ q \in attached
      <4>1. job[q].base \in Snapshots /\ job[q].change \in Change
        BY <1>0, <3>2 DEF Commit, JobTyped
      <4>2. /\ job[q].base.channels \in SUBSET Channel
            /\ job[q].base.log \in [Channel -> Seq(Change)]
        BY <4>1 DEF Snapshots
      <4>3. Append(job[q].base.log[job[q].chan], job[q].change) \in Seq(Change)
        BY <2>4, <4>1, <4>2, AppendProperties
      <4>4. [job[q].base.log EXCEPT ![job[q].chan] = Append(@, job[q].change)]
                \in [Channel -> Seq(Change)]
        BY <2>4, <4>2, <4>3
      <4>5. ApplyAndCommit(job[q].proj, job[q].base, job[q].chan, job[q].change)
        BY <3>2 DEF Commit
      <4>6. channels' \in [Project -> SUBSET Channel]
        BY <1>0, <2>4, <4>2, <4>5 DEF ApplyAndCommit, StoreTyped
      <4>7. log' \in [Project -> [Channel -> Seq(Change)]]
        BY <1>0, <2>4, <4>4, <4>5 DEF ApplyAndCommit, StoreTyped
      <4>8. QED
        BY <4>6, <4>7
    <3>3. QED
      BY <1>5, <3>1, <3>2 DEF Commit, Abort
  <2>7. StoreTyped'
    BY <1>0, <1>5, <2>5, <2>6 DEF Commit, Abort, StoreTyped
  <2>8. JobTyped(q)'
    BY <1>0, <1>5, <2>2, <2>3, <2>4 DEF JobTyped, Typed, Serving, Jobs, Commit, Abort
  <2>9. QED
    BY <1>5, <2>2, <2>3, <2>7, <2>8, TypedJob DEF Commit, Abort
<1>6. CASE Unmount(q)
  <2>1. StoreTyped'
    BY <1>0, <1>6 DEF Unmount, Released, StoreTyped, Ends
  <2>2. QED
    BY <1>6, <2>1, TypedEnds DEF Unmount
<1>7. QED
  BY <1>1, <1>2, <1>3, <1>4, <1>5, <1>6

LEMMA TypedEnding ==
    ASSUME Typed, NEW q \in Proc,
           Delete(q) \/ Deleted(q) \/ Exported(q) \/ Stops(q)
    PROVE  Typed'
<1>0. job[q] \in Jobs /\ StoreTyped /\ JobTyped(q)
  BY DEF Typed
<1>1. CASE Delete(q)
  <2>1. job[q].proj \in Project
    BY <1>0, <1>1 DEF Delete, JobTyped
  <2>2. CASE Ends(q) /\ UNCHANGED <<repositoryVars, source, runs, doomed, dead>>
    BY <1>0, <2>2, TypedEnds DEF StoreTyped, Ends, repositoryVars
  <2>3. ASSUME NEW x \in job[q].left, RemovePart(job[q].proj, x),
               source' = IF x = "toml" THEN [source EXCEPT ![job[q].proj] = None] ELSE source,
               attached' \subseteq attached,
               job' = [job EXCEPT ![q].left = @ \ {x}],
               doomed' = doomed \cup {job[q].proj}, UNCHANGED <<runs, dead>>
        PROVE  Typed'
    <3> DEFINE j == [job[q] EXCEPT !.left = @ \ {x}]
    <3>1. job[q].left \ {x} \in SUBSET Part
      BY <1>0 DEF Jobs
    <3>2. j \in Jobs /\ job' = [job EXCEPT ![q] = j]
      BY <1>0, <2>3, <3>1, JobUpdate
    <3>3. NoLog \in [Channel -> Seq(Change)]
      BY <1>0, <2>1, LogTypes
    <3>4. /\ parts' \in [Project -> SUBSET Part]
          /\ channels' \in [Project -> SUBSET Channel]
          /\ log' \in [Project -> [Channel -> Seq(Change)]]
          /\ current' \in [Project -> Channel \cup {None}]
          /\ lock' \in [Project -> Proc \cup {None}]
          /\ saved' \in [Project -> SUBSET Change]
      BY <1>0, <2>3, <3>3 DEF RemovePart, StoreTyped
    <3>5. source' \in [Project -> Source \cup {None}] /\ doomed' \subseteq Project
      BY <1>0, <2>1, <2>3 DEF StoreTyped
    <3>6. StoreTyped'
      BY <1>0, <2>3, <3>4, <3>5 DEF StoreTyped
    <3>7. JobTyped(q)'
      BY <1>0, <1>1, <3>2 DEF JobTyped, Typed, Serving, Jobs, Delete
    <3>8. QED
      BY <2>3, <3>2, <3>6, <3>7, TypedJob
  <2>4. QED
    BY <1>1, <2>2, <2>3 DEF Delete
<1>2. CASE Deleted(q) \/ Exported(q)
  <2>1. StoreTyped'
    BY <1>0, <1>2 DEF Deleted, Exported, Leaves, Ends, StoreTyped, repositoryVars
  <2>2. QED
    BY <1>2, <2>1, TypedEnds DEF Deleted, Exported, Leaves
<1>3. CASE Stops(q)
  <2>1. dead' \subseteq Source
    BY <1>0, <1>3 DEF Stops, StoreTyped, JobTyped
  <2>2. StoreTyped'
    BY <1>0, <1>3, <2>1 DEF Stops, Released, StoreTyped, Ends
  <2>3. QED
    BY <1>3, <2>2, TypedEnds DEF Stops
<1>4. QED
  BY <1>1, <1>2, <1>3

\* The types of the store and of the jobs (TypeOK).
THEOREM TypeCorrect == Spec => []TypeOK
<1>1. ASSUME Typed, [Next]_vars PROVE Typed'
  <2>1. CASE \E q \in Proc : Step(q)
    BY <1>1, <2>1, TypedFinding, TypedMaking, TypedChannel, TypedMounting, TypedEnding DEF Step
  <2>2. CASE \E s \in Source : Fusermount(s)
    BY <1>1, <2>2 DEF Fusermount, Typed, StoreTyped, JobTyped, repositoryVars
  <2>3. CASE UNCHANGED vars
    BY <1>1, <2>3 DEF vars, Typed, StoreTyped, JobTyped, repositoryVars
  <2>4. QED
    BY <1>1, <2>1, <2>2, <2>3 DEF Next
<1>2. QED
  BY <1>1, TypedInit, TypedImpliesTypeOK, PTL DEF Spec
----------------------------------------------------------------------------
\* The step of q leaves the jobs of others alone, save that init is told of new rivals.
OthersKept(q) ==
    /\ attached' \subseteq attached \cup {q}
    /\ \A r \in Proc \ {q} :
         /\ job'[r].stage = job[r].stage /\ job'[r].proj = job[r].proj
         /\ job'[r].cmd = job[r].cmd /\ job'[r].dir = job[r].dir
         /\ job'[r].chan = job[r].chan /\ job'[r].change = job[r].change
         /\ job'[r].base = job[r].base /\ job'[r].left = job[r].left
         /\ job[r].rivals \subseteq job'[r].rivals
         /\ job[r].cmd = "init" =>
               Found(job[r].dir)' \subseteq Found(job[r].dir) \cup job'[r].rivals

\* It leaves other projects alone, but for a fresh UUID that is no longer a deleted one.
ElsewhereKept(q) ==
    \A p \in Project \ {job[q].proj} :
        /\ parts'[p] = parts[p] /\ channels'[p] = channels[p] /\ log'[p] = log[p]
        /\ current'[p] = current[p] /\ saved'[p] = saved[p]
        /\ lock[p] # q => lock'[p] = lock[p]
        /\ p \in doomed' => p \in doomed
        /\ p \in doomed \ doomed' => parts[p] = {} /\ \A r \in Proc : job[r].proj # p

\* And in its own project it takes nothing away that others rely on.
HereKept(q) ==
    \A p \in Project \cap {job[q].proj} :
        /\ p \in doomed => p \in doomed'
        /\ p \notin doomed' =>
              /\ parts[p] \subseteq parts'[p] /\ saved[p] \subseteq saved'[p]
              /\ (\E r \in Proc \ {q} : job[r].proj = p) => channels[p] \subseteq channels'[p]
        /\ \A r \in attached' \ {q} : job[r].proj = p =>
              /\ "db" \in parts[p] => "db" \in parts'[p]
              /\ lock[p] = r =>
                    lock'[p] = r /\ channels'[p] = channels[p] /\ log'[p] = log[p]

\* The project it comes to is one that is found, or one nobody has.
Comes(q) ==
    \/ job'[q].proj \in {job[q].proj, None}
    \/ "toml" \in parts[job'[q].proj]
    \/ \A r \in Proc : job[r].proj # job'[q].proj

Footprint(q) == OthersKept(q) /\ ElsewhereKept(q) /\ HereKept(q) /\ Comes(q)

\* What a step with this footprint does to the others.
LEMMA OthersOwn ==
    ASSUME Inv, Typed', NEW q \in Proc, Footprint(q), NEW r \in Proc \ {q}
    PROVE  Own(r)'
<1> DEFINE p == job[r].proj
<1>1. /\ job'[r].stage = job[r].stage /\ job'[r].proj = p
      /\ job'[r].chan = job[r].chan /\ job'[r].base = job[r].base
      /\ r \in attached' => r \in attached
  BY DEF Footprint, OthersKept
<1>2. Own(r) /\ JobTyped(r) /\ None \notin Project
  BY RepositoryAssumption DEF Inv, Typed
<1>3. p \in Project =>
        /\ p \in doomed => p \in doomed'
        /\ p \notin doomed' =>
              /\ parts[p] \subseteq parts'[p] /\ saved[p] \subseteq saved'[p]
              /\ channels[p] \subseteq channels'[p]
  BY DEF Footprint, HereKept, ElsewhereKept
<1>4. Attachable(r)'
  <2>1. r \in attached' /\ p \in Project /\ "db" \in parts[p] => "db" \in parts'[p]
    BY DEF Footprint, HereKept, ElsewhereKept
  <2>2. QED
    BY <1>1, <1>2, <2>1 DEF Own, Attachable, JobTyped
<1>5. Alone(r)'
  <2>1. ASSUME job[r].stage \in Making
        PROVE  /\ p \in Project /\ p # job[q].proj /\ p \notin doomed
               /\ "toml" \notin parts[p] /\ \A x \in Proc \ {r} : job[x].proj # p
    BY <1>2, <2>1 DEF Own, Alone, JobTyped, Making
  <2>2. ASSUME job[r].stage \in Making
        PROVE  p \notin doomed' /\ "toml" \notin parts'[p]
    BY <2>1, <2>2 DEF Footprint, ElsewhereKept
  <2>3. ASSUME job[r].stage \in Making
        PROVE  job'[q].proj # p
    BY <1>2, <2>1, <2>3 DEF Footprint, Comes
  <2>4. ASSUME job[r].stage \in Making, NEW x \in Proc \ {r}
        PROVE  job'[x].proj # p
    BY <2>1, <2>3, <2>4 DEF Footprint, OthersKept
  <2>5. QED
    BY <1>1, <2>2, <2>4 DEF Alone
<1>6. Isolated(r)'
  <2>1. ASSUME r \in attached', job[r].stage \in {"record", "saved"}
        PROVE  lock'[p] = r /\ job[r].base = [channels |-> channels'[p], log |-> log'[p]]
    <3>1. /\ p \in Project /\ lock[p] = r
          /\ job[r].base = [channels |-> channels[p], log |-> log[p]]
      BY <1>1, <1>2, <2>1 DEF Own, Isolated, JobTyped, Snapshot
    <3>2. CASE p = job[q].proj
      BY <2>1, <3>1, <3>2 DEF Footprint, HereKept
    <3>3. CASE p # job[q].proj
      BY <3>1, <3>3 DEF Footprint, ElsewhereKept
    <3>4. QED
      BY <3>2, <3>3
  <2>2. QED
    BY <1>1, <2>1 DEF Isolated, Snapshot
<1>7. Unbound(r)'
  BY <1>1, <1>2 DEF Own, Unbound
<1>8. Made(r)'
  <2>1. job[r].stage \in Making => p \in Project /\ p # job[q].proj
    BY <1>2 DEF Own, Alone, JobTyped, Making
  <2>2. job[r].stage \in Making =>
            /\ parts'[p] = parts[p] /\ channels'[p] = channels[p] /\ current'[p] = current[p]
    BY <2>1 DEF Footprint, ElsewhereKept
  <2>3. QED
    BY <1>1, <1>2, <2>2 DEF Own, Made, Making
<1>9. StillThere(r)'
  BY <1>1, <1>2, <1>3 DEF Own, StillThere, AtWork, JobTyped
<1>10. CachedExists(r)'
  <2>1. r \in attached' => p \in Project
    BY <1>1, <1>2 DEF Own, Attachable, JobTyped
  <2>2. QED
    BY <1>1, <1>2, <1>3, <2>1 DEF Own, CachedExists
<1>11. ChangeSaved(r)'
  <2>1. job'[r].change = job[r].change
    BY DEF Footprint, OthersKept
  <2>2. QED
    BY <1>1, <1>2, <1>3, <2>1 DEF Own, ChangeSaved, JobTyped
<1>12. Tracked(r)'
  <2>1. job[r].stage \in Making \cup {"make"} =>
            job[r].cmd = "init" /\ Found(job[r].dir) \subseteq job[r].rivals
    BY <1>2 DEF Own, Tracked
  <2>2. /\ job'[r].cmd = job[r].cmd /\ job'[r].dir = job[r].dir
        /\ job[r].rivals \subseteq job'[r].rivals
        /\ job[r].cmd = "init" =>
              Found(job[r].dir)' \subseteq Found(job[r].dir) \cup job'[r].rivals
    BY DEF Footprint, OthersKept
  <2>3. QED
    BY <1>1, <2>1, <2>2 DEF Tracked, Found
<1>13. QED
  BY <1>4, <1>5, <1>6, <1>7, <1>8, <1>9, <1>10, <1>11, <1>12 DEF Own

LEMMA ElsewhereHeld ==
    ASSUME Inv, NEW q \in Proc, Footprint(q), NEW p \in Project \ {job[q].proj}
    PROVE  Held(p)'
<1>1. /\ parts'[p] = parts[p] /\ channels'[p] = channels[p] /\ log'[p] = log[p]
      /\ current'[p] = current[p] /\ saved'[p] = saved[p]
      /\ p \in doomed \ doomed' => parts[p] = {}
  BY DEF Footprint, ElsewhereKept
<1>2. Held(p)
  BY DEF Inv
<1>3. NoDbNoLog(p)'
  BY <1>1, <1>2 DEF Held, NoDbNoLog
<1>4. LogsSaved(p)'
  <2>1. ASSUME NEW c \in Channel, p \in doomed \ doomed' PROVE ToSet(log[p][c]) = {}
    BY <1>1, <1>2, <2>1 DEF Held, NoDbNoLog, NoLog, ToSet
  <2>2. QED
    BY <1>1, <1>2, <2>1 DEF Held, LogsSaved
<1>5. FoundWhole(p)'
  BY <1>1, <1>2 DEF Held, FoundWhole, Whole
<1>6. QED
  BY <1>3, <1>4, <1>5 DEF Held

LEMMA StepKeeps ==
    ASSUME Inv, Typed', NEW q \in Proc, Footprint(q), Own(q)',
           \A p \in Project \cap {job[q].proj} : Held(p)'
    PROVE  Inv'
<1>1. \A r \in Proc : Own(r)'
  BY OthersOwn
<1>2. ASSUME NEW p \in Project PROVE Held(p)'
  <2>1. CASE p # job[q].proj
    BY <2>1, ElsewhereHeld
  <2>2. QED
    BY <2>1
<1>3. QED
  BY <1>1, <1>2 DEF Inv

LEMMA InvInit == Init => Inv
<1> SUFFICES ASSUME Init PROVE Inv
  OBVIOUS
<1>1. \A q \in Proc : Own(q)
  BY NoJobIsJob DEF Init, Own, Attachable, Alone, Isolated, Unbound, Made, StillThere, AtWork,
     CachedExists, ChangeSaved, Tracked, Making
<1>2. \A p \in Project : Held(p)
  BY DEF Init, Empty, Held, LogsSaved, NoDbNoLog, FoundWhole, NoLog, ToSet
<1>3. QED
  BY <1>1, <1>2, TypedInit DEF Inv

\* A step that changes nothing but the job of q.
LEMMA QuietKeeps ==
    ASSUME Inv, Typed', NEW q \in Proc, UNCHANGED <<repositoryVars, source, doomed>>,
           \A r \in Proc \ {q} : job'[r] = job[r],
           attached' \subseteq attached \cup {q}, Comes(q), Own(q)'
    PROVE  Inv'
<1>1. OthersKept(q)
  <2>1. \A s : Found(s)' = Found(s)
    BY DEF Found, repositoryVars
  <2>2. QED
    BY <2>1 DEF OthersKept, Found, repositoryVars
<1>2. ElsewhereKept(q)
  BY DEF ElsewhereKept, repositoryVars
<1>3. HereKept(q)
  BY DEF HereKept, repositoryVars
<1>4. \A p \in Project : Held(p)'
  BY DEF Inv, Held, LogsSaved, NoDbNoLog, FoundWhole, Whole, repositoryVars
<1>5. QED
  BY <1>1, <1>2, <1>3, <1>4, StepKeeps DEF Footprint

\* A process that has no job needs nothing.
LEMMA EndsOwn ==
    ASSUME Inv, NEW q \in Proc, Ends(q)
    PROVE  Own(q)' /\ Comes(q) /\ \A r \in Proc \ {q} : job'[r] = job[r]
<1>1. job'[q] = NoJob /\ q \notin attached' /\ \A r \in Proc \ {q} : job'[r] = job[r]
  BY DEF Ends, Inv, Typed
<1>2. QED
  BY <1>1, NoJobIsJob DEF Comes, Own, Attachable, Alone, Isolated, Unbound, Made, StillThere,
     AtWork, CachedExists, ChangeSaved, Tracked, Making

LEMMA LeavesKeeps ==
    ASSUME Inv, Typed', NEW q \in Proc, Ends(q), UNCHANGED <<repositoryVars, source, doomed>>
    PROVE  Inv'
  BY EndsOwn, QuietKeeps DEF Ends

LEMMA FindingKeeps ==
    ASSUME Inv, Typed', NEW q \in Proc, Start(q) \/ Scan(q) \/ Open(q) \/ Opened(q)
    PROVE  Inv'
<1>0. Own(q) /\ job[q] \in Jobs /\ job \in [Proc -> Jobs] /\ JobTyped(q)
  BY DEF Inv, Typed
<1>1. CASE Start(q)
  <2>1. /\ job'[q].stage = "scan" /\ job'[q].proj = None /\ job'[q].chan = None
        /\ \A r \in Proc \ {q} : job'[r] = job[r]
    BY <1>0, <1>1 DEF Start, NoJob
  <2>2. Own(q)' /\ Comes(q)
    BY <1>0, <1>1, <2>1 DEF Start, Comes, Own, Attachable, Alone, Isolated, Unbound, Made,
       StillThere, AtWork, CachedExists, ChangeSaved, Tracked, Making
  <2>3. QED
    BY <1>1, <2>1, <2>2, QuietKeeps DEF Start
<1>2. CASE Scan(q)
  <2>1. q \notin attached /\ job[q].proj = None /\ job[q].chan = None
    BY <1>0, <1>2 DEF Scan, Own, Attachable, Unbound
  <2>2. CASE \E p \in Found(job[q].dir) :
                 job' = [job EXCEPT ![q].stage = "open", ![q].proj = p] /\ attached' = attached
    <3>1. PICK p \in Project :
              /\ job' = [job EXCEPT ![q].stage = "open", ![q].proj = p] /\ attached' = attached
              /\ "toml" \in parts[p]
      BY <2>2 DEF Found
    <3>2. /\ job'[q].stage = "open" /\ job'[q].proj = p
          /\ \A r \in Proc \ {q} : job'[r] = job[r]
      BY <1>0, <3>1 DEF Jobs
    <3>3. UNCHANGED parts
      BY <1>2 DEF Scan, repositoryVars
    <3>4. Own(q)' /\ Comes(q)
      BY <2>1, <3>1, <3>2, <3>3 DEF Comes, Own, Attachable, Alone, Isolated, Unbound, Made,
         StillThere, AtWork, CachedExists, ChangeSaved, Tracked, Making
    <3>5. QED
      BY <1>2, <3>1, <3>2, <3>4, QuietKeeps DEF Scan
  <2>3. CASE /\ job[q].cmd = "init" /\ Found(job[q].dir) = {} /\ attached' = attached
             /\ \E s \in {"make", "scan"} :
                   job' = [job EXCEPT ![q].again = TRUE, ![q].stage = s]
    <3>1. PICK s \in {"make", "scan"} : job' = [job EXCEPT ![q].again = TRUE, ![q].stage = s]
      BY <2>3
    <3>2. /\ job'[q].stage = s /\ job'[q].proj = None /\ job'[q].chan = None
          /\ job'[q].cmd = "init" /\ job'[q].dir = job[q].dir
          /\ \A r \in Proc \ {q} : job'[r] = job[r]
      BY <1>0, <2>1, <2>3, <3>1 DEF Jobs
    <3>3. Found(job[q].dir)' = {}
      BY <1>2, <2>3, <3>2 DEF Scan, Found, repositoryVars
    <3>4. Own(q)' /\ Comes(q)
      BY <2>1, <2>3, <3>2, <3>3 DEF Comes, Own, Attachable, Alone, Isolated, Unbound, Made,
         StillThere, AtWork, CachedExists, ChangeSaved, Tracked, Making
    <3>5. QED
      BY <1>2, <2>3, <3>2, <3>4, QuietKeeps DEF Scan
  <2>4. CASE Ends(q)
    BY <1>2, <2>4, LeavesKeeps DEF Scan
  <2>5. QED
    BY <1>2, <2>2, <2>3, <2>4 DEF Scan
<1>3. CASE Open(q)
  <2>1. CASE Goes(q, "pristine") /\ UNCHANGED <<repositoryVars, source, attached, doomed>>
    <3>1. /\ job'[q].stage = "pristine" /\ job'[q].proj = job[q].proj
          /\ \A r \in Proc \ {q} : job'[r] = job[r]
      BY <1>0, <2>1 DEF Goes, Jobs
    <3>2. Own(q)' /\ Comes(q)
      BY <1>0, <1>3, <2>1, <3>1 DEF Open, Comes, Own, Attachable, Alone, Isolated, Unbound, Made,
         StillThere, AtWork, CachedExists, ChangeSaved, Tracked, Making, repositoryVars
    <3>3. QED
      BY <2>1, <3>1, <3>2, QuietKeeps
  <2>2. CASE Leaves(q)
    BY <2>2, LeavesKeeps DEF Leaves
  <2>3. QED
    BY <1>3, <2>1, <2>2 DEF Open
<1>4. CASE Opened(q)
  <2>0. UNCHANGED <<repositoryVars, source, doomed>>
    BY <1>4 DEF Opened
  <2>1. CASE Ends(q)
    BY <2>0, <2>1, LeavesKeeps
  <2>2. CASE \E s \in {"mount", "txn", "exported"} : Goes(q, s) /\ attached' = attached
    <3>1. PICK s \in {"mount", "txn", "exported"} : Goes(q, s) /\ attached' = attached
      BY <2>2
    <3>2. /\ job'[q].stage = s /\ job'[q].proj = job[q].proj /\ job'[q].chan = job[q].chan
          /\ \A r \in Proc \ {q} : job'[r] = job[r]
      BY <1>0, <3>1 DEF Goes, Jobs
    <3>3. Own(q)' /\ Comes(q)
      BY <1>0, <1>4, <2>0, <3>1, <3>2 DEF Opened, Comes, Own, Attachable, Alone, Isolated, Unbound,
         Made, StillThere, AtWork, CachedExists, ChangeSaved, Tracked, Making,
         repositoryVars
    <3>4. QED
      BY <2>0, <3>1, <3>2, <3>3, QuietKeeps
  <2>3. CASE /\ job' = [job EXCEPT ![q] = [NoJob EXCEPT !.cmd = "remove", !.dir = job[q].dir,
                                                        !.stage = "scan", !.again = TRUE]]
             /\ attached' = attached \ {q}
    <3>1. /\ job'[q].stage = "scan" /\ job'[q].proj = None /\ job'[q].chan = None
          /\ \A r \in Proc \ {q} : job'[r] = job[r]
      BY <1>0, <2>3 DEF NoJob
    <3>2. Own(q)' /\ Comes(q)
      BY <2>3, <3>1 DEF Comes, Own, Attachable, Alone, Isolated, Unbound, Made,
         StillThere, AtWork, CachedExists, ChangeSaved, Tracked, Making
    <3>3. QED
      BY <2>0, <2>3, <3>1, <3>2, QuietKeeps
  <2>4. CASE /\ \E l : job' = [job EXCEPT ![q].stage = "delete", ![q].left = l]
             /\ attached' = attached
    <3>1. /\ job'[q].stage = "delete"
          /\ job'[q].proj = job[q].proj /\ job'[q].chan = job[q].chan
          /\ \A r \in Proc \ {q} : job'[r] = job[r]
      BY <1>0, <2>4 DEF Jobs
    <3>2. Own(q)' /\ Comes(q)
      BY <1>0, <1>4, <2>0, <2>4, <3>1 DEF Opened, Comes, Own, Attachable, Alone, Isolated,
         Unbound, Made, StillThere, AtWork, CachedExists, ChangeSaved, Tracked, Making,
         repositoryVars
    <3>3. QED
      BY <2>0, <2>4, <3>1, <3>2, QuietKeeps
  <2>5. QED
    BY <1>4, <2>1, <2>2, <2>3, <2>4
       DEF Opened, Refused, Status, StartMount, StartRemove, StartChannel, StartExport
<1>5. QED
  BY <1>1, <1>2, <1>3, <1>4

\* No other process sees a project come that was not there.
LEMMA NoneCome ==
    ASSUME Inv, NEW q \in Proc, \A r \in Proc \ {q} : job'[r] = job[r],
           attached' \subseteq attached \cup {q},
           \A p \in Project : "toml" \in parts'[p] => "toml" \in parts[p] /\ source'[p] = source[p]
    PROVE  OthersKept(q)
<1>1. ASSUME NEW r \in Proc \ {q} PROVE Found(job[r].dir)' \subseteq Found(job[r].dir)
  BY DEF Found
<1>2. QED
  BY <1>1 DEF OthersKept

LEMMA OpenPristineKeeps ==
    ASSUME Inv, Typed', NEW q \in Proc, OpenPristine(q)
    PROVE  Inv'
<1> DEFINE p == job[q].proj
<1>0. Own(q) /\ job[q] \in Jobs /\ job \in [Proc -> Jobs] /\ p \in Project /\ StoreTyped
  BY DEF Inv, Typed, JobTyped, OpenPristine
<1>1. CASE Leaves(q)
  BY <1>1, LeavesKeeps DEF Leaves
<1>2. CASE ~Leaves(q)
  <2>1. /\ parts' = [parts EXCEPT ![p] = @ \cup {"db"}]
        /\ UNCHANGED <<channels, log, current, saved, lock, source, doomed>>
        /\ attached' = attached \cup {q}
    BY <1>2 DEF OpenPristine, OpenDb
  <2>2. /\ job'[q].stage = "opened" /\ job'[q].proj = p /\ job'[q].chan = CurrentChannel(p)
        /\ \A r \in Proc \ {q} : job'[r] = job[r]
    BY <1>0, <1>2 DEF OpenPristine, Jobs
  <2>3. p \notin doomed => Whole(p) /\ CurrentChannel(p) \in channels[p]
    BY <1>0 DEF Inv, Held, FoundWhole, Whole, CurrentChannel, Own, StillThere, AtWork,
       OpenPristine, Making
  <2>4. parts'[p] = parts[p] \cup {"db"} /\ \A r \in Project \ {p} : parts'[r] = parts[r]
    BY <1>0, <2>1 DEF StoreTyped
  <2>5. Footprint(q)
    <3>1. OthersKept(q)
      <4>1. \A r \in Project : "toml" \in parts'[r] => "toml" \in parts[r]
        BY <2>4
      <4>2. QED
        BY <2>1, <2>2, <4>1, NoneCome
    <3>2. ElsewhereKept(q) /\ HereKept(q) /\ Comes(q)
      BY <2>1, <2>2, <2>4 DEF ElsewhereKept, HereKept, Comes
    <3>3. QED
      BY <3>1, <3>2 DEF Footprint
  <2>6. Own(q)'
    BY <1>0, <2>1, <2>2, <2>3, <2>4 DEF OpenPristine, Own, Attachable, Alone, Isolated, Unbound,
       Made, StillThere, AtWork, CachedExists, ChangeSaved, Tracked, Making
  <2>7. \A r \in Project \cap {p} : Held(r)'
    BY <2>1, <2>3, <2>4, <1>0 DEF Inv, Held, LogsSaved, NoDbNoLog, FoundWhole, Whole, Part
  <2>8. QED
    BY <2>5, <2>6, <2>7, StepKeeps
<1>3. QED
  BY <1>1, <1>2

LEMMA MakingKeeps ==
    ASSUME Inv, Typed', NEW q \in Proc,
           Make(q) \/ MakeRepository(q) \/ MakeChannel(q) \/ CopyTree(q)
    PROVE  Inv'
<1> DEFINE p == job[q].proj
<1>0. Own(q) /\ job[q] \in Jobs /\ job \in [Proc -> Jobs] /\ StoreTyped /\ JobTyped(q)
  BY DEF Inv, Typed
<1>1. CASE Make(q)
  <2>1. q \notin attached /\ p = None /\ job[q].chan = None
    BY <1>0, <1>1 DEF Make, Own, Attachable, Unbound
  <2>2. PICK n \in Project : /\ parts[n] = {} /\ \A r \in Proc : job[r].proj # n
                             /\ job' = [job EXCEPT ![q].stage = "repository", ![q].proj = n]
                             /\ doomed' = doomed \ {n}
    BY <1>1 DEF Make
  <2>3. /\ job'[q].stage = "repository" /\ job'[q].proj = n /\ job'[q].chan = None
        /\ job'[q].cmd = job[q].cmd /\ job'[q].dir = job[q].dir /\ job'[q].rivals = job[q].rivals
        /\ \A r \in Proc \ {q} : job'[r] = job[r]
    BY <1>0, <2>1, <2>2 DEF Jobs
  <2>4. UNCHANGED <<parts, channels, log, current, saved, lock, source, attached>>
    BY <1>1 DEF Make, repositoryVars
  <2>5. Footprint(q)
    <3>1. OthersKept(q)
      BY <2>3, <2>4, NoneCome
    <3>2. ElsewhereKept(q) /\ HereKept(q) /\ Comes(q)
      BY <2>1, <2>2, <2>3, <2>4, RepositoryAssumption DEF ElsewhereKept, HereKept, Comes
    <3>3. QED
      BY <3>1, <3>2 DEF Footprint
  <2>6. Tracked(q)'
    BY <1>0, <1>1, <2>3, <2>4 DEF Make, Own, Tracked, Found
  <2>7. Own(q)'
    <3>1. Alone(q)'
      <4>1. \A r \in Proc \ {q} : job'[r].proj # n
        BY <2>2, <2>3
      <4>2. n \notin doomed' /\ parts'[n] = {}
        BY <2>2, <2>4
      <4>3. QED
        BY <2>3, <4>1, <4>2 DEF Alone
    <3>2. Attachable(q)' /\ Isolated(q)' /\ Unbound(q)' /\ CachedExists(q)'
      BY <2>1, <2>3, <2>4 DEF Attachable, Isolated, Unbound, CachedExists
    <3>3. Made(q)' /\ StillThere(q)' /\ ChangeSaved(q)'
      BY <2>3 DEF Made, StillThere, AtWork, ChangeSaved, Making
    <3>4. QED
      BY <2>6, <3>1, <3>2, <3>3 DEF Own
  <2>8. QED
    BY <2>1, <2>5, <2>7, StepKeeps, RepositoryAssumption
<1>2. CASE MakeRepository(q) \/ CopyTree(q)
  <2>1. p \in Project /\ Alone(q)
    BY <1>0, <1>2 DEF MakeRepository, CopyTree, JobTyped, Own
  <2>2. /\ UNCHANGED <<channels, log, current, saved, lock, source, doomed>>
        /\ attached' \subseteq attached \cup {q}
        /\ \A r \in Proc \ {q} : job'[r] = job[r]
        /\ job'[q].proj = p /\ job'[q].chan = job[q].chan
        /\ job'[q].cmd = job[q].cmd /\ job'[q].dir = job[q].dir /\ job'[q].rivals = job[q].rivals
    BY <1>0, <1>2 DEF MakeRepository, CopyTree, Goes, Jobs
  <2>3. \/ /\ job[q].stage = "repository" /\ job'[q].stage = "channel"
           /\ parts'[p] = parts[p] \cup {"pristine", "db", "changes"}
        \/ /\ job[q].stage = "copy" /\ job'[q].stage = "toml"
           /\ parts'[p] = parts[p] \cup {"working"} /\ attached' = attached
    BY <1>0, <1>2, <2>1 DEF MakeRepository, CopyTree, Goes, Jobs, InitDirs, StoreTyped
  <2>4. \A r \in Project \ {p} : parts'[r] = parts[r]
    BY <1>0, <1>2, <2>1 DEF MakeRepository, CopyTree, InitDirs, StoreTyped
  <2>5. \A r \in Project : "toml" \in parts'[r] <=> "toml" \in parts[r]
    BY <2>3, <2>4
  <2>6. Footprint(q)
    <3>1. OthersKept(q)
      BY <2>2, <2>5, NoneCome
    <3>2. ElsewhereKept(q)
      BY <2>2, <2>4 DEF ElsewhereKept
    <3>3. HereKept(q)
      BY <2>1, <2>2, <2>3 DEF HereKept
    <3>4. Comes(q)
      BY <2>2 DEF Comes
    <3>5. QED
      BY <3>1, <3>2, <3>3, <3>4 DEF Footprint
  <2>7. Tracked(q)'
    <3>1. Found(job[q].dir)' = Found(job[q].dir)
      BY <2>2, <2>5 DEF Found
    <3>2. QED
      BY <1>0, <2>2, <2>3, <3>1 DEF Own, Tracked, Making
  <2>8. Alone(q)' /\ Unbound(q)'
    BY <1>0, <2>1, <2>2, <2>3, <2>5 DEF Own, Alone, Unbound, Making
  <2>9. Made(q)' /\ Attachable(q)' /\ CachedExists(q)'
    BY <1>0, <2>1, <2>2, <2>3 DEF Own, Made, Attachable, CachedExists, Unbound
  <2>10. Own(q)'
    BY <2>3, <2>7, <2>8, <2>9 DEF Own, Isolated, StillThere, AtWork, ChangeSaved, Making
  <2>11. \A r \in Project \cap {p} : Held(r)'
    BY <2>1, <2>2, <2>3, <2>5 DEF Inv, Held, LogsSaved, NoDbNoLog, FoundWhole, Alone, Making
  <2>12. QED
    BY <2>6, <2>10, <2>11, StepKeeps
<1>3. CASE MakeChannel(q)
  <2>1. p \in Project /\ Alone(q) /\ "db" \in parts[p]
    BY <1>0, <1>3 DEF MakeChannel, JobTyped, Own, Made
  <2>2. /\ UNCHANGED <<parts, log, saved, lock, source, attached, doomed>>
        /\ \A r \in Proc \ {q} : job'[r] = job[r]
        /\ job'[q].stage = "copy" /\ job'[q].proj = p /\ job'[q].chan = Main
        /\ job'[q].cmd = job[q].cmd /\ job'[q].dir = job[q].dir /\ job'[q].rivals = job[q].rivals
    BY <1>0, <1>3 DEF MakeChannel, Jobs
  <2>3. /\ channels'[p] = {Main} /\ current'[p] = Main
        /\ \A r \in Project \ {p} : channels'[r] = channels[r] /\ current'[r] = current[r]
    BY <1>0, <1>3, <2>1 DEF MakeChannel, InitChannel, StoreTyped
  <2>4. \A r \in Proc \ {q} : job[r].proj # p
    BY <1>3, <2>1 DEF MakeChannel, Alone, Making
  <2>5. Footprint(q)
    <3>1. OthersKept(q)
      BY <2>2, NoneCome
    <3>2. ElsewhereKept(q)
      BY <2>2, <2>3 DEF ElsewhereKept
    <3>3. HereKept(q)
      BY <1>0, <2>2, <2>4 DEF HereKept, StoreTyped
    <3>4. QED
      BY <2>2, <3>1, <3>2, <3>3 DEF Footprint, Comes
  <2>6. Tracked(q)'
    <3>1. Found(job[q].dir)' = Found(job[q].dir)
      BY <2>2 DEF Found
    <3>2. QED
      BY <1>0, <1>3, <2>2, <3>1 DEF MakeChannel, Own, Tracked, Making
  <2>7. Alone(q)' /\ Unbound(q)' /\ Made(q)' /\ Attachable(q)' /\ CachedExists(q)'
    BY <1>0, <1>3, <2>1, <2>2, <2>3
       DEF MakeChannel, Own, Alone, Unbound, Made, Attachable, CachedExists, Making
  <2>8. Own(q)'
    BY <2>2, <2>6, <2>7 DEF Own, Isolated, StillThere, AtWork, ChangeSaved, Making
  <2>9. \A r \in Project \cap {p} : Held(r)'
    BY <1>3, <2>1, <2>2, <2>3
       DEF MakeChannel, Inv, Held, LogsSaved, NoDbNoLog, FoundWhole, Alone, Making
  <2>10. QED
    BY <2>5, <2>8, <2>9, StepKeeps
<1>4. QED
  BY <1>1, <1>2, <1>3

LEMMA WriteTomlKeeps ==
    ASSUME Inv, Typed', NEW q \in Proc, WriteToml(q)
    PROVE  Inv'
<1> DEFINE p == job[q].proj
           told(r) == IF job[r].cmd = "init" /\ job[r].dir = job[q].dir
                      THEN [job[r] EXCEPT !.rivals = @ \cup {p}] ELSE job[r]
           job1 == [r \in Proc |-> told(r)]
<1>0. /\ Own(q) /\ job[q] \in Jobs /\ job \in [Proc -> Jobs] /\ p \in Project /\ StoreTyped
      /\ job[q].stage = "toml"
  BY DEF Inv, Typed, JobTyped, WriteToml
<1>1. ASSUME NEW r \in Proc
      PROVE  /\ told(r).stage = job[r].stage /\ told(r).proj = job[r].proj
             /\ told(r).cmd = job[r].cmd /\ told(r).dir = job[r].dir
             /\ told(r).chan = job[r].chan /\ told(r).change = job[r].change
             /\ told(r).base = job[r].base /\ told(r).left = job[r].left
             /\ job[r].rivals \subseteq told(r).rivals
             /\ job[r].cmd = "init" /\ job[r].dir = job[q].dir => p \in told(r).rivals
  BY <1>0 DEF Jobs
<1>2. /\ parts' = [parts EXCEPT ![p] = @ \cup {"toml"}]
      /\ source' = [source EXCEPT ![p] = job[q].dir]
      /\ UNCHANGED <<channels, log, current, saved, lock, doomed>>
      /\ \/ job' = [job1 EXCEPT ![q] = NoJob] /\ attached' = attached \ {q}
         \/ job' = [job1 EXCEPT ![q].cmd = "create", ![q].stage = "txn"] /\ attached' = attached
  BY DEF WriteToml
<1>3. \A r \in Proc \ {q} : job'[r] = told(r)
  BY <1>2
<1>4. \/ job'[q] = NoJob /\ q \notin attached'
      \/ /\ job'[q].stage = "txn" /\ job'[q].proj = p /\ job'[q].chan = job[q].chan
         /\ attached' = attached
  <2>1. CASE job' = [job1 EXCEPT ![q] = NoJob] /\ attached' = attached \ {q}
    BY <2>1
  <2>2. CASE job' = [job1 EXCEPT ![q].cmd = "create", ![q].stage = "txn"] /\ attached' = attached
    <3>1. told(q) \in Jobs
      <4>1. job[q].rivals \cup {p} \in SUBSET Project
        BY <1>0 DEF Jobs
      <4>2. [job[q] EXCEPT !.rivals = @ \cup {p}] \in Jobs
        BY <1>0, <4>1, JobUpdate
      <4>3. QED
        BY <1>0, <4>2
    <3> HIDE DEF told
    <3>2. job'[q] = [told(q) EXCEPT !.cmd = "create", !.stage = "txn"]
      BY <2>2
    <3>3. QED
      BY <1>1, <2>2, <3>1, <3>2 DEF Jobs
  <2>3. QED
    BY <1>2, <2>1, <2>2
<1> HIDE DEF told
<1>5. /\ parts'[p] = parts[p] \cup {"toml"} /\ source'[p] = job[q].dir
      /\ \A r \in Project \ {p} : parts'[r] = parts[r] /\ source'[r] = source[r]
  BY <1>0, <1>2 DEF StoreTyped
<1>6. Footprint(q)
  <2>1. OthersKept(q)
    <3>1. attached' \subseteq attached \cup {q}
      BY <1>2
    <3>2. ASSUME NEW r \in Proc \ {q}, job[r].cmd = "init", NEW n \in Found(job[r].dir)'
          PROVE  n \in Found(job[r].dir) \cup job'[r].rivals
      <4>1. n \in Project /\ "toml" \in parts'[n] /\ source'[n] = job[r].dir
        BY <1>1, <1>3, <3>2 DEF Found
      <4>2. CASE n = p
        BY <1>1, <1>3, <1>5, <3>2, <4>1, <4>2
      <4>3. CASE n # p
        BY <1>5, <4>1, <4>3 DEF Found
      <4>4. QED
        BY <4>2, <4>3
    <3>3. QED
      BY <1>1, <1>3, <3>1, <3>2 DEF OthersKept
  <2>2. ElsewhereKept(q)
    BY <1>2, <1>5 DEF ElsewhereKept
  <2>3. HereKept(q)
    BY <1>2, <1>5 DEF HereKept
  <2>4. Comes(q)
    BY <1>4, NoJobIsJob DEF Comes
  <2>5. QED
    BY <2>1, <2>2, <2>3, <2>4 DEF Footprint
<1>7. Own(q)'
  <2>1. CASE job'[q] = NoJob /\ q \notin attached'
    BY <2>1, NoJobIsJob DEF Own, Attachable, Alone, Isolated, Unbound, Made, StillThere,
       AtWork, CachedExists, ChangeSaved, Tracked, Making
  <2>2. CASE /\ job'[q].stage = "txn" /\ job'[q].proj = p /\ job'[q].chan = job[q].chan
             /\ attached' = attached
    <3>1. Attachable(q)' /\ CachedExists(q)'
      BY <1>0, <1>2, <1>5, <2>2 DEF Own, Attachable, CachedExists
    <3>2. QED
      BY <1>5, <2>2, <3>1 DEF Own, Alone, Isolated, Unbound, Made, StillThere,
         AtWork, ChangeSaved, Tracked, Making
  <2>3. QED
    BY <1>4, <2>1, <2>2
<1>8. \A r \in Project \cap {p} : Held(r)'
  <2>1. parts'[p] = Part /\ Main \in channels[p] /\ current[p] \in channels[p]
    BY <1>0, <1>5 DEF Own, Made, Part, StoreTyped
  <2>2. QED
    BY <1>0, <1>2, <2>1 DEF Inv, Held, LogsSaved, NoDbNoLog, FoundWhole, Whole, Part
<1>9. QED
  BY <1>6, <1>7, <1>8, StepKeeps

LEMMA ChannelKeeps ==
    ASSUME Inv, Typed', NEW q \in Proc, NEW c \in Channel, Create(q, c) \/ Switch(q, c) \/ Fork(q, c)
    PROVE  Inv'
<1> DEFINE p == job[q].proj
<1>0. Own(q) /\ p \in Project /\ StoreTyped
  BY DEF Inv, Typed, JobTyped, Create, Switch, Fork, Transaction
<1>1. Ends(q) /\ UNCHANGED <<parts, saved, lock, source, doomed>>
  BY DEF Create, Switch, Fork, Transaction
<1>2. Own(q)' /\ Comes(q) /\ (\A r \in Proc \ {q} : job'[r] = job[r]) /\ attached' = attached \ {q}
  BY <1>1, EndsOwn DEF Ends
<1>3. CASE UNCHANGED <<channels, log, current>>
  BY <1>1, <1>3, LeavesKeeps DEF repositoryVars
<1>4. ASSUME q \in attached, lock[p] = None,
             \/ CreateChannel(p, c) \/ SwitchChannel(p, c) \/ \E a : ForkChannel(p, a, c)
      PROVE  Inv'
  <2>1. /\ \A r \in Project \ {p} : /\ channels'[r] = channels[r] /\ log'[r] = log[r]
                                    /\ current'[r] = current[r]
        /\ channels[p] \subseteq channels'[p]
        /\ current'[p] \in channels'[p] \cup {current[p]}
        /\ \A d \in Channel : \E a \in Channel : log'[p][d] = log[p][a]
    <3>1. CASE CreateChannel(p, c)
      BY <1>0, <3>1 DEF CreateChannel, StoreTyped
    <3>2. CASE SwitchChannel(p, c)
      BY <1>0, <3>2 DEF SwitchChannel, StoreTyped
    <3>3. ASSUME NEW a, ForkChannel(p, a, c)
          PROVE  /\ \A r \in Project \ {p} : /\ channels'[r] = channels[r] /\ log'[r] = log[r]
                                             /\ current'[r] = current[r]
                 /\ channels[p] \subseteq channels'[p]
                 /\ current'[p] \in channels'[p] \cup {current[p]}
                 /\ \A d \in Channel : \E b \in Channel : log'[p][d] = log[p][b]
      <4>1. a \in Channel
        BY <1>0, <3>3 DEF ForkChannel, StoreTyped
      <4>2. QED
        BY <1>0, <3>3, <4>1 DEF ForkChannel, StoreTyped
    <3>4. QED
      BY <1>4, <3>1, <3>2, <3>3
  <2>2. Footprint(q)
    <3>1. OthersKept(q)
      BY <1>1, <1>2, NoneCome
    <3>2. ElsewhereKept(q)
      BY <1>1, <2>1 DEF ElsewhereKept
    <3>3. HereKept(q)
      BY <1>0, <1>1, <1>2, <1>4, <2>1, StoreAssumption DEF HereKept, StoreTyped
    <3>4. QED
      BY <1>2, <3>1, <3>2, <3>3 DEF Footprint
  <2>3. \A r \in Project \cap {p} : Held(r)'
    <3>1. LogsSaved(p) /\ FoundWhole(p) /\ "db" \in parts[p]
      BY <1>0, <1>4 DEF Inv, Held, Own, Attachable
    <3>2. p \notin doomed => \A d \in Channel : ToSet(log'[p][d]) \subseteq saved[p]
      BY <2>1, <3>1 DEF LogsSaved
    <3>3. QED
      BY <1>1, <2>1, <3>1, <3>2 DEF Held, LogsSaved, NoDbNoLog, FoundWhole, Whole
  <2>4. QED
    BY <1>2, <2>2, <2>3, StepKeeps
<1>5. QED
  BY <1>3, <1>4 DEF Create, Switch, Fork, Transaction

LEMMA ServingKeeps ==
    ASSUME Inv, Typed', NEW q \in Proc, Mount(q) \/ Connect(q) \/ Begin(q) \/ Save(q)
    PROVE  Inv'
<1> DEFINE p == job[q].proj
<1>0. /\ Own(q) /\ job[q] \in Jobs /\ job \in [Proc -> Jobs] /\ p \in Project /\ StoreTyped
      /\ job[q].stage \in {"mount", "connect", "serving", "record"}
  BY DEF Inv, Typed, JobTyped, Mount, Connect, Begin, Save
<1>1. CASE Mount(q)
  <2>1. CASE Leaves(q)
    BY <2>1, LeavesKeeps DEF Leaves
  <2>2. CASE /\ \E s \in {"connect", "deaf"} : Goes(q, s)
             /\ UNCHANGED <<repositoryVars, source, attached, doomed>>
    <3>1. PICK s \in {"connect", "deaf"} : Goes(q, s)
      BY <2>2
    <3>2. /\ job'[q].stage = s /\ job'[q].proj = p /\ job'[q].chan = job[q].chan
          /\ \A r \in Proc \ {q} : job'[r] = job[r]
      BY <1>0, <3>1 DEF Goes, Jobs
    <3>3. Own(q)' /\ Comes(q)
      BY <1>0, <1>1, <2>2, <3>2 DEF Mount, Comes, Own, Attachable, Alone, Isolated, Unbound, Made,
         StillThere, AtWork, CachedExists, ChangeSaved, Tracked, Making, repositoryVars
    <3>4. QED
      BY <2>2, <3>2, <3>3, QuietKeeps
  <2>3. QED
    BY <1>1, <2>1, <2>2 DEF Mount
<1>2. CASE Connect(q)
  <2>1. /\ UNCHANGED <<repositoryVars, source, doomed>> /\ attached' \subseteq attached \cup {q}
        /\ \A r \in Proc \ {q} : job'[r] = job[r]
        /\ job'[q].proj = p
        /\ \/ /\ job'[q].stage = "serving" /\ job'[q].chan = CurrentChannel(p)
              /\ {"pristine", "db"} \subseteq parts[p]
           \/ job'[q].stage = "deaf" /\ job'[q].chan = job[q].chan /\ attached' = attached
    BY <1>0, <1>2 DEF Connect, Goes, Jobs
  <2>2. p \notin doomed => CurrentChannel(p) \in channels[p] /\ "toml" \in parts[p]
    BY <1>0 DEF Inv, Held, FoundWhole, Whole, CurrentChannel, Own, StillThere, AtWork, Making
  <2>3. Attachable(q)' /\ CachedExists(q)'
    BY <1>0, <2>1, <2>2 DEF Own, Attachable, CachedExists, repositoryVars
  <2>4. Own(q)' /\ Comes(q)
    BY <2>1, <2>2, <2>3 DEF Comes, Own, Alone, Isolated, Unbound, Made,
       StillThere, AtWork, ChangeSaved, Tracked, Making, repositoryVars
  <2>5. QED
    BY <2>1, <2>4, QuietKeeps
<1>3. CASE Begin(q)
  <2>1. /\ UNCHANGED <<parts, channels, log, current, saved, source, attached, doomed>>
        /\ \A r \in Proc \ {q} : job'[r] = job[r]
        /\ job'[q].stage = "record" /\ job'[q].proj = p /\ job'[q].chan = job[q].chan
        /\ q \in attached => /\ lock[p] = None /\ lock' = [lock EXCEPT ![p] = q]
                             /\ job'[q].base = Snapshot(p)
        /\ q \notin attached => lock' = lock
    BY <1>0, <1>3 DEF Begin, Goes, Jobs
  <2>2. (\A r \in Project \ {p} : lock'[r] = lock[r]) /\ (q \in attached => lock'[p] = q)
    BY <1>0, <2>1 DEF StoreTyped
  <2>3. Footprint(q)
    <3>1. OthersKept(q)
      BY <2>1, NoneCome
    <3>2. ElsewhereKept(q)
      BY <2>1, <2>2 DEF ElsewhereKept
    <3>3. HereKept(q)
      BY <1>0, <2>1, <2>2, StoreAssumption DEF HereKept, StoreTyped
    <3>4. QED
      BY <2>1, <3>1, <3>2, <3>3 DEF Footprint, Comes
  <2>4. Own(q)'
    <3>1. Isolated(q)'
      BY <2>1, <2>2 DEF Isolated, Snapshot
    <3>2. QED
      BY <1>0, <1>3, <2>1, <3>1 DEF Begin, Own, Attachable, Alone, Unbound, Made, StillThere,
         AtWork, CachedExists, ChangeSaved, Tracked, Making
  <2>5. \A r \in Project \cap {p} : Held(r)'
    BY <2>1 DEF Inv, Held, LogsSaved, NoDbNoLog, FoundWhole, Whole
  <2>6. QED
    BY <2>3, <2>4, <2>5, StepKeeps
<1>4. CASE Save(q)
  <2>1. PICK x \in Change : /\ SaveChange(p, x)
                            /\ job' = [job EXCEPT ![q].stage = "saved", ![q].change = x]
    BY <1>4 DEF Save
  <2>2. /\ UNCHANGED <<parts, channels, log, current, lock, source, attached, doomed>>
        /\ job[q].stage = "record"
    BY <1>4 DEF Save
  <2>3. /\ \A r \in Proc \ {q} : job'[r] = job[r]
        /\ job'[q].stage = "saved" /\ job'[q].proj = p /\ job'[q].chan = job[q].chan
        /\ job'[q].base = job[q].base /\ job'[q].change = x
    BY <1>0, <2>1 DEF Jobs
  <2>4. saved'[p] = saved[p] \cup {x} /\ \A r \in Project \ {p} : saved'[r] = saved[r]
    BY <1>0, <2>1 DEF SaveChange, StoreTyped
  <2>5. Footprint(q)
    <3>1. OthersKept(q)
      BY <2>2, <2>3, NoneCome
    <3>2. ElsewhereKept(q)
      BY <2>2, <2>4 DEF ElsewhereKept
    <3>3. HereKept(q)
      BY <2>2, <2>4 DEF HereKept
    <3>4. QED
      BY <2>3, <3>1, <3>2, <3>3 DEF Footprint, Comes
  <2>6. Own(q)'
    <3>1. Isolated(q)'
      BY <1>0, <2>2, <2>3 DEF Own, Isolated, Snapshot
    <3>2. QED
      BY <1>0, <2>2, <2>3, <2>4, <3>1 DEF Own, Attachable, Alone, Unbound, Made, StillThere,
         AtWork, CachedExists, ChangeSaved, Tracked, Making
  <2>7. \A r \in Project \cap {p} : Held(r)'
    BY <2>2, <2>4 DEF Inv, Held, LogsSaved, NoDbNoLog, FoundWhole, Whole
  <2>8. QED
    BY <2>5, <2>6, <2>7, StepKeeps
<1>5. QED
  BY <1>1, <1>2, <1>3, <1>4

LEMMA AppendedSet ==
    ASSUME NEW S, NEW s \in Seq(S), NEW x \in S
    PROVE  ToSet(Append(s, x)) \subseteq ToSet(s) \cup {x}
<1>1. ASSUME NEW k \in 1 .. Len(Append(s, x))
      PROVE  Append(s, x)[k] \in ToSet(s) \cup {x}
  <2>1. Len(Append(s, x)) = Len(s) + 1 /\ Len(s) \in Nat
    BY AppendProperties, LenProperties
  <2>2. CASE k = Len(s) + 1
    BY <2>2, AppendProperties
  <2>3. CASE k \in 1 .. Len(s)
    BY <2>3, AppendProperties DEF ToSet
  <2>4. QED
    BY <2>1, <2>2, <2>3
<1>2. \A e \in ToSet(Append(s, x)) : \E k \in 1 .. Len(Append(s, x)) : e = Append(s, x)[k]
  BY AppendProperties DEF ToSet
<1>3. QED
  BY <1>1, <1>2

\* A transaction ends, and with it the lock it may have.
LEMMA ReleasedLock ==
    ASSUME Inv, NEW q \in Proc, lock' = Released(q)
    PROVE  \A p \in Project : lock[p] # q => lock'[p] = lock[p]
  BY DEF Released

LEMMA UnlockingKeeps ==
    ASSUME Inv, Typed', NEW q \in Proc, Commit(q) \/ Abort(q) \/ Unmount(q) \/ Stops(q)
    PROVE  Inv'
<1> DEFINE p == job[q].proj
<1>0. /\ Own(q) /\ job[q] \in Jobs /\ job \in [Proc -> Jobs] /\ StoreTyped /\ lock' = Released(q)
      /\ JobTyped(q) /\ UNCHANGED <<parts, current, saved, source, doomed>>
  BY DEF Inv, Typed, Commit, Abort, Unmount, Stops
<1>1. CASE UNCHANGED <<channels, log>>
  <2>1. (\A r \in Proc \ {q} : job'[r] = job[r]) /\ attached' \subseteq attached \cup {q}
    BY <1>0 DEF Commit, Abort, Unmount, Stops, Ends
  <2>2. Own(q)' /\ Comes(q)
    <3>1. CASE Ends(q)
      BY <3>1, EndsOwn
    <3>2. CASE Commit(q) \/ Abort(q)
      <4>1. /\ job'[q].stage = "serving" /\ job'[q].proj = p /\ job'[q].chan = job[q].chan
            /\ attached' = attached /\ job[q].stage \in {"record", "saved"}
        BY <1>0, <3>2 DEF Commit, Abort, Jobs
      <4>2. QED
        BY <1>0, <1>1, <4>1 DEF Comes, Own, Attachable, Alone, Isolated, Unbound, Made,
           StillThere, AtWork, CachedExists, ChangeSaved, Tracked, Making
    <3>3. QED
      BY <3>1, <3>2 DEF Unmount, Stops
  <2>3. Footprint(q)
    <3>1. OthersKept(q)
      BY <1>0, <2>1, NoneCome
    <3>2. ElsewhereKept(q)
      BY <1>0, <1>1, ReleasedLock DEF ElsewhereKept
    <3>3. HereKept(q)
      BY <1>0, <1>1, ReleasedLock DEF HereKept
    <3>4. QED
      BY <2>2, <3>1, <3>2, <3>3 DEF Footprint
  <2>4. \A r \in Project \cap {p} : Held(r)'
    BY <1>0, <1>1 DEF Inv, Held, LogsSaved, NoDbNoLog, FoundWhole, Whole
  <2>5. QED
    BY <2>2, <2>3, <2>4, StepKeeps
<1>2. CASE Commit(q) /\ q \in attached
  <2>1. p \in Project /\ job[q].chan \in Channel /\ job[q].change \in Change
    BY <1>0, <1>2 DEF Commit, JobTyped, Serving
  <2>2. lock[p] = q /\ job[q].base = Snapshot(p) /\ "db" \in parts[p]
    BY <1>0, <1>2 DEF Commit, Own, Isolated, Attachable
  <2>3. /\ channels' = [channels EXCEPT ![p] = channels[p]]
        /\ log' = [log EXCEPT ![p] = [log[p] EXCEPT ![job[q].chan] = Append(@, job[q].change)]]
    BY <1>2, <2>2 DEF Commit, ApplyAndCommit, Snapshot
  <2>4. /\ \A r \in Project : channels'[r] = channels[r]
        /\ \A r \in Project \ {p} : log'[r] = log[r]
        /\ \A c \in Channel \ {job[q].chan} : log'[p][c] = log[p][c]
        /\ log'[p][job[q].chan] = Append(log[p][job[q].chan], job[q].change)
    BY <1>0, <2>1, <2>3 DEF StoreTyped
  <2>5. /\ job'[q].stage = "serving" /\ job'[q].proj = p /\ job'[q].chan = job[q].chan
        /\ attached' = attached /\ \A r \in Proc \ {q} : job'[r] = job[r]
    BY <1>0, <1>2 DEF Commit, Jobs
  <2>6. Footprint(q)
    <3>1. OthersKept(q)
      BY <1>0, <2>5, NoneCome
    <3>2. ElsewhereKept(q)
      BY <1>0, <2>4, ReleasedLock DEF ElsewhereKept
    <3>3. HereKept(q)
      BY <1>0, <2>2, <2>4, <2>5 DEF HereKept
    <3>4. QED
      BY <2>5, <3>1, <3>2, <3>3 DEF Footprint, Comes
  <2>7. Own(q)'
    BY <1>0, <1>2, <2>1, <2>2, <2>4, <2>5 DEF Commit, Own, Attachable, Alone, Isolated, Unbound,
       Made, StillThere, AtWork, CachedExists, ChangeSaved, Tracked, Making
  <2>8. \A r \in Project \cap {p} : Held(r)'
    <3>1. LogsSaved(p)'
      <4>1. SUFFICES ASSUME p \notin doomed, NEW c \in Channel
                     PROVE  ToSet(log'[p][c]) \subseteq saved[p]
        BY <1>0, <2>5 DEF LogsSaved
      <4>2. ToSet(log[p][c]) \subseteq saved[p] /\ job[q].change \in saved[p]
        BY <1>0, <1>2, <2>1, <4>1 DEF Inv, Held, LogsSaved, Own, ChangeSaved, Commit
      <4>3. CASE c # job[q].chan
        BY <2>4, <4>2, <4>3
      <4>4. CASE c = job[q].chan
        <5>1. log[p][c] \in Seq(Change)
          BY <1>0, <2>1 DEF StoreTyped
        <5>2. ToSet(Append(log[p][c], job[q].change)) \subseteq ToSet(log[p][c]) \cup {job[q].change}
          BY <2>1, <5>1, AppendedSet
        <5>3. QED
          BY <2>4, <4>2, <4>4, <5>2
      <4>5. QED
        BY <4>3, <4>4
    <3>2. NoDbNoLog(p)' /\ FoundWhole(p)'
      BY <1>0, <2>1, <2>2, <2>4, <2>5 DEF Inv, Held, NoDbNoLog, FoundWhole, Whole
    <3>3. QED
      BY <2>5, <3>1, <3>2 DEF Held
  <2>9. QED
    BY <2>6, <2>7, <2>8, StepKeeps
<1>3. QED
  BY <1>1, <1>2 DEF Commit, Abort, Unmount, Stops

LEMMA DeleteKeeps ==
    ASSUME Inv, Typed', NEW q \in Proc, Delete(q)
    PROVE  Inv'
<1> DEFINE p == job[q].proj
<1>0. /\ Own(q) /\ job[q] \in Jobs /\ job \in [Proc -> Jobs] /\ p \in Project /\ StoreTyped
      /\ job[q].stage = "delete"
  BY DEF Inv, Typed, JobTyped, Delete
<1>1. CASE Ends(q) /\ UNCHANGED <<repositoryVars, source, doomed>>
  BY <1>1, LeavesKeeps
<1>2. ASSUME NEW x \in job[q].left, RemovePart(p, x),
             source' = IF x = "toml" THEN [source EXCEPT ![p] = None] ELSE source,
             attached' = IF x = "db" THEN {r \in attached : job[r].proj # p} ELSE attached,
             job' = [job EXCEPT ![q].left = @ \ {x}],
             doomed' = doomed \cup {p}
      PROVE  Inv'
  <2>1. /\ \A r \in Proc \ {q} : job'[r] = job[r]
        /\ job'[q].stage = "delete" /\ job'[q].proj = p /\ job'[q].chan = job[q].chan
    BY <1>0, <1>2 DEF Jobs
  <2>2. /\ parts'[p] = parts[p] \ {x}
        /\ \A r \in Project \ {p} :
             /\ parts'[r] = parts[r] /\ channels'[r] = channels[r] /\ log'[r] = log[r]
             /\ current'[r] = current[r] /\ saved'[r] = saved[r] /\ lock'[r] = lock[r]
        /\ x # "db" => UNCHANGED <<channels, log, current, lock>>
        /\ x = "db" => log'[p] = NoLog
    BY <1>0, <1>2 DEF RemovePart, StoreTyped
  <2>3. Footprint(q)
    <3>1. OthersKept(q)
      <4>1. ASSUME NEW r \in Project, "toml" \in parts'[r]
            PROVE  "toml" \in parts[r] /\ source'[r] = source[r]
        BY <1>0, <1>2, <2>2, <4>1 DEF StoreTyped
      <4>2. attached' \subseteq attached
        BY <1>2
      <4>3. QED
        BY <2>1, <4>1, <4>2, NoneCome
    <3>2. ElsewhereKept(q)
      BY <1>2, <2>2 DEF ElsewhereKept
    <3>3. HereKept(q)
      BY <1>2, <2>2 DEF HereKept
    <3>4. QED
      BY <2>1, <3>1, <3>2, <3>3 DEF Footprint, Comes
  <2>4. Own(q)'
    <3>1. Attachable(q)'
      BY <1>0, <1>2, <2>1, <2>2 DEF Own, Attachable
    <3>2. StillThere(q)' /\ CachedExists(q)'
      BY <1>2, <2>1 DEF StillThere, CachedExists
    <3>3. QED
      BY <2>1, <3>1, <3>2 DEF Own, Alone, Isolated, Unbound, Made, ChangeSaved, Tracked,
         Making
  <2>5. \A r \in Project \cap {p} : Held(r)'
    <3>1. NoDbNoLog(p)
      BY <1>0 DEF Inv, Held
    <3>2. QED
      BY <1>2, <2>2, <3>1 DEF Held, LogsSaved, NoDbNoLog, FoundWhole
  <2>6. QED
    BY <2>3, <2>4, <2>5, StepKeeps
<1>3. QED
  BY <1>1, <1>2 DEF Delete

----------------------------------------------------------------------------
\* No interleaving of commands, failure or kill breaks what Inv says (main.rs:101-650,
\* manager.rs:65-194, backend.rs:135-214).
THEOREM Invariance == Spec => []Inv
<1>1. ASSUME Inv, [Next]_vars PROVE Inv'
  <2>1. ASSUME NEW q \in Proc, Step(q) PROVE Inv'
    <3>1. Typed'
      BY <2>1, <1>1, TypedFinding, TypedMaking, TypedChannel, TypedMounting, TypedEnding
         DEF Inv, Step
    <3>2. QED
      BY <1>1, <2>1, <3>1, FindingKeeps, OpenPristineKeeps, MakingKeeps, WriteTomlKeeps,
         ChannelKeeps, ServingKeeps, UnlockingKeeps, DeleteKeeps, LeavesKeeps
         DEF Step, Deleted, Exported, Leaves
  <2>2. CASE (\E s \in Source : Fusermount(s)) \/ UNCHANGED vars
    <3>1. /\ UNCHANGED <<repositoryVars, source, job, attached, runs, doomed>>
          /\ dead' = dead \/ \E s \in Source : dead' = dead \ {s}
      BY <2>2 DEF Fusermount, vars
    <3>2. Typed'
      BY <1>1, <3>1 DEF Inv, Typed, StoreTyped, JobTyped, repositoryVars
    <3>3. ASSUME NEW q \in Proc PROVE Own(q)'
      BY <1>1, <3>1 DEF Inv, Own, Attachable, Alone, Isolated, Unbound, Made, StillThere, AtWork,
         CachedExists, ChangeSaved, Tracked, Found, Snapshot, repositoryVars
    <3>4. ASSUME NEW p \in Project PROVE Held(p)'
      BY <1>1, <3>1 DEF Inv, Held, LogsSaved, NoDbNoLog, FoundWhole, Whole, repositoryVars
    <3>5. QED
      BY <3>2, <3>3, <3>4 DEF Inv
  <2>3. QED
    BY <1>1, <2>1, <2>2 DEF Next
<1>2. QED
  BY <1>1, InvInit, PTL DEF Spec

\* What a channel's log names can be read from the change store at every moment, whatever
\* processes were stopped and wherever (LogIsSaved).
THEOREM LogsAreSaved == Spec => []LogIsSaved
<1>1. Inv => LogIsSaved
  BY DEF Inv, Held, LogsSaved, LogIsSaved, Logged, Typed, StoreTyped
<1>2. QED
  BY <1>1, Invariance, PTL

\* Nobody finds a project that is half made: project.toml comes last (FoundIsWhole).
THEOREM FoundAreWhole == Spec => []FoundIsWhole
<1>1. Inv => FoundIsWhole
  BY DEF Inv, Held, FoundWhole, FoundIsWhole
<1>2. QED
  BY <1>1, Invariance, PTL

\* The channel a process cached exists as long as its repository (CachedChannelExists).
THEOREM CachedChannelsExist == Spec => []CachedChannelExists
<1>1. Inv => CachedChannelExists
  BY DEF Inv, Own, CachedExists, CachedChannelExists, Typed, StoreTyped
<1>2. QED
  BY <1>1, Invariance, PTL

\* Only overlapping runs of init track a directory twice (TrackedOnce).
THEOREM DirectoriesTrackedOnce == Spec => []TrackedOnce
<1>1. Inv => TrackedOnce
  BY DEF Inv, Own, Tracked, TrackedOnce
<1>2. QED
  BY <1>1, Invariance, PTL
=============================================================================
