---------------------------- MODULE ProjectStore ----------------------------
(***************************************************************************)
(* The central store of projects (project/manager.rs, project/mod.rs) and  *)
(* the commands of ize/src/main.rs that work on it, run by processes that  *)
(* know nothing of each other and may end, or fail on an I/O error, at any *)
(* step.  What a mount does with the tree is ObservingFS's; here it is a   *)
(* process that records changes until it is unmounted.                     *)
(***************************************************************************)
EXTENDS PijulRepository

CONSTANTS Proc,       \* processes
          Source,     \* directories that may be tracked
          Command,    \* bound: the commands that are run
          MaxRuns,    \* bound: how many are run
          Within      \* Within[s]: the directories whose line in /proc/mounts contains s

ASSUME StoreAssumption ==
    /\ None \notin Proc \cup Source
    /\ Command \subseteq {"init", "mount", "create", "switch", "fork", "remove",
                          "export", "status"}
    /\ MaxRuns \in Nat
    /\ Within \in [Source -> SUBSET Source]
    /\ \A s \in Source : s \in Within[s]

VARIABLES source,     \* the source directory in a project.toml
          job,        \* what a process does
          attached,   \* processes whose open database is the file that is there
          runs,       \* how many commands have been run
          dead,       \* mount points whose server has died
          doomed      \* history: projects that a removal has begun to delete

vars == <<repositoryVars, source, job, attached, runs, dead, doomed>>

\* again: the project is looked up for the second time.  chan is the channel the backend
\* was opened on, left what a removal has yet to delete.  rivals is history: the projects of
\* the directory that came meanwhile.
NoJob == [cmd |-> None, dir |-> None, stage |-> "idle", again |-> FALSE, proj |-> None,
          chan |-> None, change |-> None, base |-> None, left |-> {}, rivals |-> {}]

Making == {"repository", "channel", "copy", "toml"}
Serving == {"connect", "deaf", "serving", "record", "saved"}

Stage == {"idle", "scan", "open", "pristine", "opened", "mount", "txn", "delete",
          "exported"} \cup Making \cup {"make"} \cup Serving

Goes(q, s) == job' = [job EXCEPT ![q].stage = s]

Released(q) == [p \in Project |-> IF lock[p] = q THEN None ELSE lock[p]]

\* The process ends; an open transaction is dropped.
Ends(q) ==
    /\ job' = [job EXCEPT ![q] = NoJob]
    /\ attached' = attached \ {q}

Leaves(q) == Ends(q) /\ UNCHANGED <<repositoryVars, source, runs, dead, doomed>>

\* The projects find_by_source_dir can return for a directory.
Found(s) == {p \in Project : "toml" \in parts[p] /\ source[p] = s}

Mounted == dead \cup {job[q].dir : q \in {r \in Proc : job[r].stage \in Serving}}

\* A line of /proc/mounts that contains the path as a substring will do.
IsFuseMounted(s) == Mounted \cap Within[s] # {}

Init ==
    /\ Empty
    /\ source = [p \in Project |-> None]
    /\ job = [q \in Proc |-> NoJob]
    /\ attached = {}
    /\ runs = 0
    /\ dead = {}
    /\ doomed = {}
----------------------------------------------------------------------------
\* A command is given; it ends at once when its directory cannot be reached.
Start(q) ==
    /\ job[q].stage = "idle" /\ runs < MaxRuns
    /\ runs' = runs + 1
    /\ \E c \in Command, s \in Source \ dead :
         job' = [job EXCEPT ![q] = [NoJob EXCEPT !.cmd = c, !.dir = s, !.stage = "scan"]]
    /\ UNCHANGED <<repositoryVars, source, attached, dead, doomed>>

\* Mutant: init does not look for a project of the directory.
ScanNotForInit(q) ==
    /\ job[q].stage = "scan"
    /\ \/ \E p \in Found(job[q].dir) :
            /\ job[q].cmd # "init"
            /\ job' = [job EXCEPT ![q].stage = "open", ![q].proj = p]
       \/ /\ job[q].cmd = "init"
          /\ Goes(q, "make")
    /\ UNCHANGED <<repositoryVars, source, attached, runs, dead, doomed>>

\* find_by_source_dir, up to the first entry whose project.toml names the directory.
\* init looks twice, in cmd_init and in create_project.
Scan(q) ==
    /\ job[q].stage = "scan"
    /\ \/ /\ job[q].dir \notin dead
          /\ \E p \in Found(job[q].dir) :
               job' = [job EXCEPT ![q].stage = "open", ![q].proj = p]
          /\ UNCHANGED attached
       \/ /\ job[q].dir \notin dead /\ Found(job[q].dir) = {}
          /\ job[q].cmd = "init"
          /\ job' = [job EXCEPT ![q].again = TRUE,
                                ![q].stage = IF job[q].again THEN "make" ELSE "scan"]
          /\ UNCHANGED attached
       \/ /\ job[q].dir \in dead \/ (Found(job[q].dir) = {} /\ job[q].cmd # "init")
          /\ Ends(q)
    /\ UNCHANGED <<repositoryVars, source, runs, dead, doomed>>

\* IzeProject::open and PijulBackend::open, up to the check that the database is there.
Open(q) ==
    /\ job[q].stage = "open"
    /\ IF {"toml", "db"} \subseteq parts[job[q].proj]
       THEN /\ Goes(q, "pristine")
            /\ UNCHANGED <<repositoryVars, source, attached, runs, dead, doomed>>
       ELSE Leaves(q)

\* Pristine::new, which makes the database when it has gone since; then the current
\* channel is read.
OpenPristine(q) ==
    LET p == job[q].proj
    IN  /\ job[q].stage = "pristine"
        /\ IF "pristine" \in parts[p]
           THEN /\ OpenDb(p)
                /\ job' = [job EXCEPT ![q].stage = "opened", ![q].chan = CurrentChannel(p)]
                /\ attached' = attached \cup {q}
                /\ UNCHANGED <<channels, log, current, saved, lock, source, runs, dead, doomed>>
           ELSE Leaves(q)

\* What a command does with the project it has found.  init complains, status prints.
Refused(q) == job[q].cmd = "init" /\ Ends(q)

Status(q) == job[q].cmd = "status" /\ Ends(q)

StartMount(q) ==
    /\ job[q].cmd = "mount"
    /\ IF IsFuseMounted(job[q].dir) THEN Ends(q) ELSE Goes(q, "mount") /\ UNCHANGED attached

\* remove asks in between, and looks for the project again.
StartRemove(q) ==
    /\ job[q].cmd = "remove"
    /\ \/ ~job[q].again /\ IsFuseMounted(job[q].dir) /\ Ends(q)
       \/ /\ ~job[q].again /\ ~IsFuseMounted(job[q].dir)
          /\ job' = [job EXCEPT ![q] = [NoJob EXCEPT !.cmd = "remove", !.dir = job[q].dir,
                                                     !.stage = "scan", !.again = TRUE]]
          /\ attached' = attached \ {q}
       \/ /\ job[q].again
          /\ job' = [job EXCEPT ![q].stage = "delete", ![q].left = parts[job[q].proj]]
          /\ UNCHANGED attached

StartChannel(q) ==
    job[q].cmd \in {"create", "switch", "fork"} /\ Goes(q, "txn") /\ UNCHANGED attached

StartExport(q) == job[q].cmd = "export" /\ Goes(q, "exported") /\ UNCHANGED attached

Opened(q) ==
    /\ job[q].stage = "opened"
    /\ \/ Refused(q) \/ Status(q) \/ StartMount(q) \/ StartRemove(q)
       \/ StartChannel(q) \/ StartExport(q)
    /\ UNCHANGED <<repositoryVars, source, runs, dead, doomed>>
----------------------------------------------------------------------------
\* create_project and IzeProject::init: the project's directory gets a fresh UUID.
Make(q) ==
    /\ job[q].stage = "make"
    /\ \E p \in Project :
         /\ parts[p] = {} /\ \A r \in Proc : job[r].proj # p
         /\ job' = [job EXCEPT ![q].stage = "repository", ![q].proj = p]
         /\ doomed' = doomed \ {p}
    /\ UNCHANGED <<repositoryVars, source, attached, runs, dead>>

MakeRepository(q) ==
    /\ job[q].stage = "repository"
    /\ InitDirs(job[q].proj)
    /\ attached' = attached \cup {q}
    /\ Goes(q, "channel")
    /\ UNCHANGED <<channels, log, current, saved, lock, source, runs, dead, doomed>>

\* Mutant: project.toml is written before there is a channel.
MakeChannelLast(q) ==
    /\ job[q].stage = "channel"
    /\ parts' = [parts EXCEPT ![job[q].proj] = @ \cup {"toml"}]
    /\ source' = [source EXCEPT ![job[q].proj] = job[q].dir]
    /\ InitChannel(job[q].proj)
    /\ job' = [job EXCEPT ![q].stage = "copy", ![q].chan = Main]
    /\ UNCHANGED <<log, saved, lock, attached, runs, dead, doomed>>

MakeChannel(q) ==
    /\ job[q].stage = "channel"
    /\ InitChannel(job[q].proj)
    /\ job' = [job EXCEPT ![q].stage = "copy", ![q].chan = Main]
    /\ UNCHANGED <<parts, log, saved, lock, source, attached, runs, dead, doomed>>

\* copy_dir_contents; the part "working" is there when all has been copied.
CopyTree(q) ==
    /\ job[q].stage = "copy"
    /\ parts' = [parts EXCEPT ![job[q].proj] = @ \cup {"working"}]
    /\ Goes(q, "toml")
    /\ UNCHANGED <<channels, log, current, saved, lock, source, attached, runs, dead, doomed>>

\* project.toml is written last.  A channel that was asked for is created, not switched to.
WriteToml(q) ==
    LET p == job[q].proj
        job1 == [r \in Proc |-> IF job[r].cmd = "init" /\ job[r].dir = job[q].dir
                                THEN [job[r] EXCEPT !.rivals = @ \cup {p}] ELSE job[r]]
    IN  /\ job[q].stage = "toml"
        /\ parts' = [parts EXCEPT ![p] = @ \cup {"toml"}]
        /\ source' = [source EXCEPT ![p] = job[q].dir]
        /\ \/ /\ job' = [job1 EXCEPT ![q] = NoJob]
              /\ attached' = attached \ {q}
           \/ /\ job' = [job1 EXCEPT ![q].cmd = "create", ![q].stage = "txn"]
              /\ UNCHANGED attached
        /\ UNCHANGED <<channels, log, current, saved, lock, runs, dead, doomed>>
----------------------------------------------------------------------------
\* A transaction on the database that is there; on a file that has been deleted under the
\* process it comes to nothing.
Transaction(q, change) ==
    /\ job[q].stage = "txn" /\ Ends(q)
    /\ \/ /\ q \in attached /\ lock[job[q].proj] = None
          /\ change
       \/ UNCHANGED <<channels, log, current>>
    /\ UNCHANGED <<parts, saved, lock, source, runs, dead, doomed>>

Create(q, c) == job[q].cmd = "create" /\ Transaction(q, CreateChannel(job[q].proj, c))

Switch(q, c) == job[q].cmd = "switch" /\ Transaction(q, SwitchChannel(job[q].proj, c))

\* Without --from, the channel the backend was opened on is forked.
Fork(q, c) ==
    /\ job[q].cmd = "fork"
    /\ \E from \in Channel \cup {job[q].chan} :
         Transaction(q, ForkChannel(job[q].proj, from, c))
----------------------------------------------------------------------------
\* PassthroughFS::new and the mount, which nothing keeps from lying over another.  A
\* read-only mount records nothing.
Mount(q) ==
    /\ job[q].stage = "mount"
    /\ IF "working" \in parts[job[q].proj]
       THEN /\ Goes(q, "connect") \/ Goes(q, "deaf")
            /\ UNCHANGED <<repositoryVars, source, attached, runs, dead, doomed>>
       ELSE Leaves(q)

\* The consumer thread opens a backend of its own; when it cannot, the mount goes on.
Connect(q) ==
    LET p == job[q].proj
    IN  /\ job[q].stage = "connect"
        /\ IF {"pristine", "db"} \subseteq parts[p]
           THEN /\ job' = [job EXCEPT ![q].stage = "serving", ![q].chan = CurrentChannel(p)]
                /\ attached' = attached \cup {q}
           ELSE Goes(q, "deaf") /\ UNCHANGED attached
        /\ UNCHANGED <<repositoryVars, source, runs, dead, doomed>>

\* Mutant: transactions do not exclude each other.
BeginUnlocked(q) ==
    LET p == job[q].proj
    IN  /\ job[q].stage = "serving"
        /\ q \in attached /\ job[q].chan \in channels[p]
        /\ job' = [job EXCEPT ![q].stage = "record", ![q].base = Snapshot(p)]
        /\ UNCHANGED <<repositoryVars, source, attached, runs, dead, doomed>>

\* An opcode is taken: the mutable transaction begins and the channel is loaded.
Begin(q) ==
    LET p == job[q].proj
    IN  /\ job[q].stage = "serving"
        /\ IF q \in attached
           THEN /\ lock[p] = None /\ job[q].chan \in channels[p]
                /\ lock' = [lock EXCEPT ![p] = q]
                /\ job' = [job EXCEPT ![q].stage = "record", ![q].base = Snapshot(p)]
           ELSE /\ Goes(q, "record")
                /\ UNCHANGED lock
        /\ UNCHANGED <<parts, channels, log, current, saved, source, attached, runs, dead, doomed>>

\* Mutant: the change is not saved before it is applied.
SaveNothing(q) ==
    /\ job[q].stage = "record"
    /\ \E x \in Change \ UNION {saved[p] : p \in Project} :
         job' = [job EXCEPT ![q].stage = "saved", ![q].change = x]
    /\ UNCHANGED <<repositoryVars, source, attached, runs, dead, doomed>>

\* diff_and_record, record_with_memory: the change goes to the change store first.
Save(q) ==
    LET p == job[q].proj
    IN  /\ job[q].stage = "record" /\ "changes" \in parts[p]
        /\ \E x \in Change \ UNION {saved[r] : r \in Project} :
             /\ SaveChange(p, x)
             /\ job' = [job EXCEPT ![q].stage = "saved", ![q].change = x]
        /\ UNCHANGED <<parts, channels, log, current, lock, source, attached, runs, dead, doomed>>

\* Then it is applied to the channel and the transaction commits.
Commit(q) ==
    LET p == job[q].proj
    IN  /\ job[q].stage = "saved"
        /\ IF q \in attached
           THEN ApplyAndCommit(p, job[q].base, job[q].chan, job[q].change)
           ELSE UNCHANGED <<channels, log>>
        /\ lock' = Released(q)
        /\ job' = [job EXCEPT ![q].stage = "serving", ![q].base = None, ![q].change = None]
        /\ UNCHANGED <<parts, current, saved, source, attached, runs, dead, doomed>>

\* Nothing to record, or an error: the transaction is dropped.
Abort(q) ==
    /\ job[q].stage \in {"record", "saved"}
    /\ lock' = Released(q)
    /\ job' = [job EXCEPT ![q].stage = "serving", ![q].base = None, ![q].change = None]
    /\ UNCHANGED <<parts, channels, log, current, saved, source, attached, runs, dead, doomed>>

\* cmd_unmount, or the signal handler; the consumer thread ends with the process.
Unmount(q) ==
    /\ job[q].stage \in Serving
    /\ Ends(q)
    /\ lock' = Released(q)
    /\ UNCHANGED <<parts, channels, log, current, saved, source, runs, dead, doomed>>
----------------------------------------------------------------------------
\* remove_dir_all, from within outwards and otherwise in any order.  It fails on a
\* directory that something was put into meanwhile.
Delete(q) ==
    LET p == job[q].proj
    IN  /\ job[q].stage = "delete"
        /\ \E x \in job[q].left :
             /\ x = "pristine" => "db" \notin job[q].left
             /\ IF x = "pristine" /\ "db" \in parts[p]
                THEN /\ Ends(q)
                     /\ UNCHANGED <<repositoryVars, source, runs, doomed>>
                ELSE /\ RemovePart(p, x)
                     /\ source' = IF x = "toml" THEN [source EXCEPT ![p] = None] ELSE source
                     /\ attached' = IF x = "db" THEN {r \in attached : job[r].proj # p}
                                                ELSE attached
                     /\ job' = [job EXCEPT ![q].left = @ \ {x}]
                     /\ doomed' = doomed \cup {p}
        /\ UNCHANGED <<runs, dead>>

Deleted(q) == job[q].stage = "delete" /\ job[q].left = {} /\ Leaves(q)

\* cmd_export_pijul reads the store file by file while others go on and changes nothing of
\* it.  What the copy then holds is left out: it is read in no transaction.
Exported(q) == job[q].stage = "exported" /\ Leaves(q)
----------------------------------------------------------------------------
\* A process is killed, gives up on an I/O error, or is answered no.  A mount whose server
\* was killed stays in /proc/mounts, and cannot be reached, until it is unmounted by hand.
Stops(q) ==
    /\ job[q].stage # "idle"
    /\ Ends(q)
    /\ lock' = Released(q)
    /\ dead' = IF job[q].stage \in Serving THEN dead \cup {job[q].dir} ELSE dead
    /\ UNCHANGED <<parts, channels, log, current, saved, source, runs, doomed>>

Fusermount(s) ==
    /\ s \in dead
    /\ dead' = dead \ {s}
    /\ UNCHANGED <<repositoryVars, source, job, attached, runs, doomed>>

Step(q) ==
    \/ Start(q) \/ Scan(q) \/ Open(q) \/ OpenPristine(q) \/ Opened(q)
    \/ Make(q) \/ MakeRepository(q) \/ MakeChannel(q) \/ CopyTree(q) \/ WriteToml(q)
    \/ \E c \in Channel : Create(q, c) \/ Switch(q, c) \/ Fork(q, c)
    \/ Mount(q) \/ Connect(q) \/ Begin(q) \/ Save(q) \/ Commit(q) \/ Abort(q) \/ Unmount(q)
    \/ Delete(q) \/ Deleted(q) \/ Exported(q) \/ Stops(q)

Next == (\E q \in Proc : Step(q)) \/ (\E s \in Source : Fusermount(s))

Spec == Init /\ [][Next]_vars
----------------------------------------------------------------------------
Jobs ==
    [cmd : Command \cup {"create", None}, dir : Source \cup {None}, stage : Stage,
     again : BOOLEAN, proj : Project \cup {None}, chan : Channel \cup {None},
     change : Change \cup {None}, base : Snapshots \cup {None}, left : SUBSET Part,
     rivals : SUBSET Project]

TypeOK ==
    /\ parts \in [Project -> SUBSET Part]
    /\ channels \in [Project -> SUBSET Channel]
    /\ log \in [Project -> [Channel -> Seq(Change)]]
    /\ current \in [Project -> Channel \cup {None}]
    /\ saved \in [Project -> SUBSET Change]
    /\ lock \in [Project -> Proc \cup {None}]
    /\ source \in [Project -> Source \cup {None}]
    /\ job \in [Proc -> Jobs]
    /\ \A q \in Proc :
         /\ job[q].stage \notin {"idle", "scan", "make"} => job[q].proj \in Project
         /\ job[q].stage \in Serving => job[q].chan \in Channel
         /\ job[q].stage = "saved" => job[q].change \in Change
    /\ attached \subseteq Proc
    /\ runs \in 0 .. MaxRuns
    /\ dead \subseteq Source
    /\ doomed \subseteq Project

\* A project is found by its project.toml only when all of it is there, whatever the
\* interruptions: nobody comes upon one half made (project/mod.rs:59-107).
Whole(p) ==
    /\ parts[p] = Part
    /\ Main \in channels[p]
    /\ current[p] \in channels[p]

FoundIsWhole == \A p \in Project \ doomed : "toml" \in parts[p] => Whole(p)

\* What a channel's log names can be read from the change store, whenever the process was
\* stopped: save_change comes before the commit (backend.rs:766-789).
LogIsSaved == \A p \in Project \ doomed : Logged(p) \subseteq saved[p]

\* The channel that a process cached when it opened a repository exists for as long as the
\* repository does, whatever other processes do (backend.rs:664-668 would fail else).
CachedChannelExists ==
    \A q \in attached : job[q].chan # None /\ job[q].proj \notin doomed =>
        job[q].chan \in channels[job[q].proj]

\* Two projects of one directory are made only by overlapping runs of init: what a run
\* that is past its look at the store does not know of was written since it began
\* (manager.rs:74).
TrackedOnce ==
    \A q \in Proc : job[q].stage \in Making => Found(job[q].dir) \subseteq job[q].rivals

\* What "Cannot remove: directory is currently mounted" says (main.rs:515-520): a project
\* is not deleted under a mount that serves it.
RemovalSparesMounts == \A q \in Proc : job[q].stage \in Serving => job[q].proj \notin doomed
=============================================================================
