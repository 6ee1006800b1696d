-------------------------------- MODULE Izev --------------------------------
(***************************************************************************)
(* izev/src/app.rs: the state of the terminal browser and what a key does  *)
(* to it.  It keeps copies of what the central store held when it last     *)
(* looked: the projects, the channels of one of them, the changes of one   *)
(* channel.  Meanwhile other processes go on with the store (Elsewhere;    *)
(* ProjectStore says how).  Rendering and colours are left out.            *)
(***************************************************************************)
EXTENDS PijulRepository

CONSTANTS Rank,          \* the place of a channel in the order of the database
          PageSize,      \* how far page_up and page_down go (10)
          Placeholders   \* bound: how many placeholder changes App::new shows (5)

ASSUME IzevAssumption ==
    /\ IsFiniteSet(Project) /\ IsFiniteSet(Channel)
    /\ Rank \in [Channel -> Nat]
    /\ PageSize \in Nat /\ Placeholders \in Nat

VARIABLES app,    \* App, with loaded: history, the project and channel of its changes
          gone    \* history: projects that were removed; their UUIDs do not come back

izevVars == <<repositoryVars, app, gone>>

Mode == {"Normal", "Command", "Help"}
Tab == {"Projects", "Channels"}

\* list_projects: those with a project.toml, in the order readdir gives.
Listed == {p \in Project : "toml" \in parts[p]}
ListProjects == SetToAllKPermutations(Listed) \cap [1 .. Cardinality(Listed) -> Listed]

\* list_channels: each channel once, in the order of the database.
ListChannels(p) ==
    {list \in [1 .. Cardinality(channels[p]) -> channels[p]] :
        \A j, k \in DOMAIN list : j < k => Rank[list[j]] < Rank[list[k]]}

\* PijulBackend::open succeeds.
Opens(p) == p # None /\ "db" \in parts[p]

Init ==
    /\ parts \in [Project -> {{}, {"db", "toml"}}]
    /\ channels = [p \in Project |-> IF parts[p] = {} THEN {} ELSE {Main}]
    /\ log = [p \in Project |-> NoLog]
    /\ current = [p \in Project |-> IF parts[p] = {} THEN None ELSE Main]
    /\ saved = [p \in Project |-> {}]
    /\ lock = [p \in Project |-> None]
    /\ gone = {}
    /\ \E projects \in ListProjects :
         app = [running |-> TRUE, mode |-> "Normal", active_tab |-> "Projects",
                channels |-> <<None>>, active_channel |-> None, command_buffer |-> "",
                projects_index |-> 0, changes_index |-> 0, channels_index |-> 0,
                projects |-> projects, changes |-> [k \in 1 .. Placeholders |-> None],
                selected_project |-> None, loaded |-> None]
----------------------------------------------------------------------------
\* Mutant: oldest first.
LoadOldestFirst(a, p) ==
    {[a EXCEPT !.changes = log[p][CurrentChannel(p)],
               !.changes_index = 0,
               !.loaded = [proj |-> p, chan |-> CurrentChannel(p)]]}

\* A removal that is under way takes the database after the check that it is there: then
\* opening it makes an empty one, and a query of it fails.
Vanishing(p, outcomes) == IF p \in gone THEN outcomes ELSE {}

\* load_channel_changes: those of the channel the repository is on, newest first; none
\* when they cannot be read.
LoadChannelChanges(a, p) ==
    {[a EXCEPT !.changes = Reverse(log[p][CurrentChannel(p)]),
               !.changes_index = 0,
               !.loaded = [proj |-> p, chan |-> CurrentChannel(p)]]}
    \cup Vanishing(p, {[a EXCEPT !.changes = <<>>, !.loaded = None]})

\* Mutant: the channel index stays where it was.
UpdateChannelsInPlace(a) ==
    LET p == a.selected_project
    IN  IF ~Opens(p) THEN {a}
        ELSE UNION {LoadChannelChanges([a EXCEPT !.channels = list,
                                                 !.active_channel = list[1]], p) :
                       list \in ListChannels(p)}

\* update_channels: when the project cannot be read all stays as it was.
UpdateChannels(a) ==
    LET p == a.selected_project
    IN  IF ~Opens(p) THEN {a}
        ELSE (UNION {LoadChannelChanges([a EXCEPT !.channels = list,
                                                  !.channels_index = 0,
                                                  !.active_channel = list[1]], p) :
                        list \in ListChannels(p)})
             \cup Vanishing(p, {a, [a EXCEPT !.channels = <<>>, !.channels_index = 0]})

\* next_channel, prev_channel: around the list by step.
TurnChannel(a, step) ==
    LET n == Len(a.channels)
        i == (a.channels_index + n + step) % n
        b == [a EXCEPT !.channels_index = i, !.active_channel = a.channels[i + 1]]
    IN  IF a.active_tab # "Channels" \/ n = 0 THEN {a}
        ELSE IF ~Opens(a.selected_project) THEN {b}
        ELSE LoadChannelChanges(b, a.selected_project)
             \cup Vanishing(a.selected_project, {b})

CurrentListLen(a) == IF a.active_tab = "Projects" THEN Len(a.projects) ELSE Len(a.changes)

CurrentIndex(a) == IF a.active_tab = "Projects" THEN a.projects_index ELSE a.changes_index

GoesTo(a, i) == IF a.active_tab = "Projects" THEN [a EXCEPT !.projects_index = i]
                                             ELSE [a EXCEPT !.changes_index = i]

\* Mutant: an unchecked subtraction.
UpUnsaturated(a, n) == GoesTo(a, CurrentIndex(a) - n)

\* move_up, page_up: saturating_sub.
Up(a, n) == GoesTo(a, IF CurrentIndex(a) < n THEN 0 ELSE CurrentIndex(a) - n)

\* Mutant: the end of the list is not minded.
DownUnbounded(a, n) == IF CurrentListLen(a) = 0 THEN a ELSE GoesTo(a, CurrentIndex(a) + n)

\* move_down, page_down: as far as the list goes.
Down(a, n) ==
    LET last == CurrentListLen(a) - 1
    IN  IF CurrentListLen(a) = 0 THEN a
        ELSE GoesTo(a, IF CurrentIndex(a) + n < last THEN CurrentIndex(a) + n ELSE last)

\* move_to_bottom.
Bottom(a) == IF CurrentListLen(a) = 0 THEN a ELSE GoesTo(a, CurrentListLen(a) - 1)

\* select_item: an index beyond the list selects nothing.
SelectItem(a) ==
    IF a.active_tab = "Projects" /\ a.projects_index < Len(a.projects)
    THEN UpdateChannels([a EXCEPT !.selected_project = a.projects[a.projects_index + 1],
                                  !.active_tab = "Channels"])
    ELSE {a}
----------------------------------------------------------------------------
InMode(m) == app.running /\ app.mode = m

\* refresh_projects replaces the list, not the index.
RefreshProjects(a) == \E projects \in ListProjects : app' = [a EXCEPT !.projects = projects]

OtherTab(a) == IF a.active_tab = "Projects" THEN "Channels" ELSE "Projects"

\* handle_normal_event; several keys do the same.
HandleNormalEvent ==
    /\ InMode("Normal")
    /\ \/ app' = [app EXCEPT !.running = FALSE]
       \/ app' = [app EXCEPT !.mode = "Help"]
       \/ app' = [app EXCEPT !.mode = "Command", !.command_buffer = ""]
       \/ \E n \in {1, PageSize} : app' = Up(app, n) \/ app' = Down(app, n)
       \/ app' = GoesTo(app, 0) \/ app' = Bottom(app)
       \/ RefreshProjects(app)
       \/ app' = [app EXCEPT !.active_tab = OtherTab(app)]
       \/ \E step \in {1, -1} : app' \in TurnChannel(app, step)
       \/ \E tab \in Tab : app' = [app EXCEPT !.active_tab = tab]
       \/ app' \in SelectItem(app)
    /\ UNCHANGED <<repositoryVars, gone>>

\* What a command does to a; which one a text is, is left open, and it may be none.  The
\* mode is set to Normal last: also after "help", which sets it to Help.
Executed(a, text) ==
    \/ app' = a
    \/ /\ text # ""
       /\ \/ app' = [a EXCEPT !.running = FALSE]
          \/ \E tab \in Tab : app' = [a EXCEPT !.active_tab = tab]
          \/ RefreshProjects(a)

\* Mutant: the buffer is left as it was typed.
ExecuteCommandKeeping == Executed([app EXCEPT !.mode = "Normal"], app.command_buffer)

ExecuteCommand ==
    Executed([app EXCEPT !.mode = "Normal", !.command_buffer = ""], app.command_buffer)

\* The text of the buffer: none, or some.
Typed == {"", "text"}

HandleCommandEvent ==
    /\ InMode("Command")
    /\ \/ app' = [app EXCEPT !.mode = "Normal", !.command_buffer = ""]
       \/ ExecuteCommand
       \/ \E text \in Typed : app' = [app EXCEPT !.command_buffer = text]
    /\ UNCHANGED <<repositoryVars, gone>>

HandleHelpEvent ==
    /\ InMode("Help")
    /\ app' = [app EXCEPT !.mode = "Normal"]
    /\ UNCHANGED <<repositoryVars, gone>>
----------------------------------------------------------------------------
\* What other processes do to the store meanwhile.
InitElsewhere(p) ==
    /\ parts[p] = {} /\ p \notin gone
    /\ parts' = [parts EXCEPT ![p] = {"db", "toml"}]
    /\ InitChannel(p)
    /\ UNCHANGED <<log, saved, lock, app, gone>>

RecordElsewhere(p, x) ==
    LET c == CurrentChannel(p)
    IN  /\ Opens(p) /\ c \in channels[p]
        /\ \A r \in Project, b \in Channel : x \notin ToSet(log[r][b])
        /\ ApplyAndCommit(p, Snapshot(p), c, x)
        /\ UNCHANGED <<parts, current, saved, lock, app, gone>>

ChannelElsewhere(p, c) ==
    /\ Opens(p)
    /\ \/ CreateChannel(p, c)
       \/ SwitchChannel(p, c)
       \/ ForkChannel(p, CurrentChannel(p), c)
    /\ UNCHANGED <<parts, saved, lock, app, gone>>

RemoveElsewhere(p) ==
    /\ \E x \in parts[p] : RemovePart(p, x)
    /\ gone' = gone \cup {p}
    /\ UNCHANGED app

\* What happens while the help is shown might as well happen after it.
Elsewhere ==
    /\ app.running /\ app.mode # "Help"
    /\ \E p \in Project :
        \/ InitElsewhere(p) \/ RemoveElsewhere(p)
        \/ \E x \in Change : RecordElsewhere(p, x)
        \/ \E c \in Channel : ChannelElsewhere(p, c)

Next == HandleNormalEvent \/ HandleCommandEvent \/ HandleHelpEvent \/ Elsewhere

Spec == Init /\ [][Next]_izevVars
----------------------------------------------------------------------------
App ==
    [running : BOOLEAN, mode : Mode, active_tab : Tab,
     channels : Seq(Channel \cup {None}), active_channel : Channel \cup {None},
     command_buffer : Typed,
     projects_index : Nat, changes_index : Nat, channels_index : Nat,
     projects : Seq(Project), changes : Seq(Change \cup {None}),
     selected_project : Project \cup {None},
     loaded : [proj : Project, chan : Channel] \cup {None}]

TypeOK == app \in App

\* self.channels[self.channels_index] never panics and is the channel shown as active, and
\* a list of changes always has one of them selected, although the lists are replaced by
\* what a changing store holds (app.rs:217-220, 385-419).
ChannelsIndexed ==
    app.channels # <<>> =>
        /\ app.channels_index < Len(app.channels)
        /\ app.channels[app.channels_index + 1] = app.active_channel

ChangesIndexed == app.changes # <<>> => app.changes_index < Len(app.changes)

IndexesInRange == ChannelsIndexed /\ ChangesIndexed

\* The changes on display are, newest first, how the log of one channel of one project once
\* was: never a mixture, however the store has moved on (app.rs:238-266).
ShownIsPast ==
    LET l == app.loaded
    IN  l # None /\ Opens(l.proj) => IsPrefix(Reverse(app.changes), log[l.proj][l.chan])

\* A key that goes down the list of projects or to its end.
GoesDown ==
    /\ InMode("Normal") /\ app.active_tab = "Projects"
    /\ app' = Bottom(app) \/ \E n \in {1, PageSize} : app' = Down(app, n)

Beyond(a) == a.projects_index >= Len(a.projects)

\* Only a list that was replaced leaves the cursor of the projects beyond it, and then
\* every move downwards or to the end puts it back, unless the list is empty
\* (app.rs:196-203, 433-437, 460-464, 490-494).
CursorComesBack ==
    [][/\ Beyond(app') /\ ~Beyond(app) => app'.projects # app.projects
       /\ GoesDown /\ app.projects # <<>> => ~Beyond(app')]_izevVars

\* What was typed does not outlast the command mode (app.rs:346-355).
BufferIsOfMode == app.mode # "Command" => app.command_buffer = ""

\* What app.rs:389 and 411 say, "Reload changes for the new channel": the changes on
\* display are those of the channel shown as active.
ShownIsActive ==
    LET l == app.loaded
    IN  l # None /\ l.proj = app.selected_project => l.chan = app.active_channel
=============================================================================
