----------------------------- MODULE IzevProofs -----------------------------
(***************************************************************************)
(* Proofs about the browser, for every number of projects, channels and    *)
(* changes and whatever other processes do to the store: its indices stay  *)
(* in their lists, and what it shows as a channel's changes is a past of   *)
(* that channel.                                                           *)
(***************************************************************************)
EXTENDS Izev, FiniteSetTheorems, TLAPS

Stores ==
    /\ parts \in [Project -> SUBSET Part]
    /\ channels \in [Project -> SUBSET Channel]
    /\ log \in [Project -> [Channel -> Seq(Change)]]
    /\ current \in [Project -> Channel \cup {None}]
    /\ gone \in SUBSET Project

\* Where a database stands it has a channel, and a channel that is not in it has no log.
DbOK ==
    \A p \in Project :
        /\ "db" \in parts[p] <=> channels[p] # {}
        /\ \A c \in Channel : c \notin channels[p] => log[p][c] = <<>>

StoreInv == Stores /\ DbOK

\* ChannelsIndexed, ChangesIndexed and BufferIsOfMode of any state of the browser.
Indexed(a) ==
    /\ a.channels # <<>> => /\ a.channels_index < Len(a.channels)
                            /\ a.channels[a.channels_index + 1] = a.active_channel
    /\ a.changes # <<>> => a.changes_index < Len(a.changes)
    /\ a.mode # "Command" => a.command_buffer = ""

\* A project whose changes are shown is there, or its directory is being removed: then its
\* UUID does not come back.
Past(a) ==
    a.loaded # None =>
        LET p == a.loaded.proj
        IN  /\ a.changes \in Seq(Change)
            /\ p \in gone \/ "db" \in parts[p]
            /\ Opens(p) => IsPrefix(Reverse(a.changes), log[p][a.loaded.chan])

AppOK(a) == a \in App /\ Indexed(a) /\ Past(a)

Inv == StoreInv /\ AppOK(app)
----------------------------------------------------------------------------
LEMMA PrefixPointwise ==
  ASSUME NEW S, NEW s \in Seq(S), NEW t \in Seq(S)
  PROVE  IsPrefix(s, t) <=> Len(s) <= Len(t) /\ \A i \in 1 .. Len(s) : s[i] = t[i]
  BY DEF IsPrefix

LEMMA PrefixTransitive ==
  ASSUME NEW S, NEW s \in Seq(S), NEW t \in Seq(S), NEW u \in Seq(S),
         IsPrefix(s, t), IsPrefix(t, u)
  PROVE  IsPrefix(s, u)
  BY PrefixPointwise

LEMMA PrefixReflexive ==
  ASSUME NEW S, NEW s \in Seq(S)
  PROVE  IsPrefix(s, s)
  BY PrefixPointwise

LEMMA PrefixEmpty ==
  ASSUME NEW S, NEW t \in Seq(S)
  PROVE  IsPrefix(<<>>, t)
<1>1. <<>> \in Seq(S) /\ Len(<<>>) = 0 /\ 0 <= Len(t)
  OBVIOUS
<1>2. \A i \in 1 .. Len(<<>>) : <<>>[i] = t[i]
  BY <1>1
<1>3. Len(<<>>) <= Len(t)
  BY <1>1
<1>4. QED
  BY <1>1, <1>2, <1>3, PrefixPointwise

LEMMA PrefixAppend ==
  ASSUME NEW S, NEW s \in Seq(S), NEW x \in S
  PROVE  IsPrefix(s, Append(s, x)) /\ Append(s, x) \in Seq(S)
<1>1. Append(s, x) \in Seq(S) /\ Len(Append(s, x)) = Len(s) + 1
  OBVIOUS
<1>2. \A i \in 1 .. Len(s) : Append(s, x)[i] = s[i]
  OBVIOUS
<1>3. Len(s) <= Len(Append(s, x))
  BY <1>1
<1>4. IsPrefix(s, Append(s, x))
  BY <1>1, <1>2, <1>3, PrefixPointwise
<1>5. QED
  BY <1>1, <1>4

LEMMA ReverseType ==
  ASSUME NEW S, NEW s \in Seq(S)
  PROVE  /\ Reverse(s) \in Seq(S)
         /\ Len(Reverse(s)) = Len(s)
         /\ Reverse(Reverse(s)) = s
<1>1. Reverse(s) \in Seq(S) /\ Len(Reverse(s)) = Len(s)
  BY DEF Reverse
<1>2. Reverse(s) = [i \in 1 .. Len(s) |-> s[Len(s) - i + 1]]
  BY DEF Reverse
<1>3. Reverse(Reverse(s)) = [i \in 1 .. Len(s) |-> Reverse(s)[Len(s) - i + 1]]
  BY <1>1 DEF Reverse
<1>4. \A i \in 1 .. Len(s) : Reverse(s)[Len(s) - i + 1] = s[i]
  BY <1>2
<1>5. QED
  BY <1>1, <1>3, <1>4

\* What the lists of channels and of projects are.
LEMMA ListChannelsType ==
  ASSUME StoreInv, NEW p \in Project, Opens(p), NEW list \in ListChannels(p)
  PROVE  list \in Seq(Channel) /\ Len(list) > 0
<1>1. channels[p] \in SUBSET Channel /\ channels[p] # {}
  BY DEF StoreInv, Stores, DbOK, Opens
<1>2. IsFiniteSet(channels[p])
  BY <1>1, IzevAssumption, FS_Subset
<1>3. Cardinality(channels[p]) \in Nat /\ Cardinality(channels[p]) # 0
  BY <1>1, <1>2, FS_CardinalityType, FS_EmptySet
<1>4. list \in [1 .. Cardinality(channels[p]) -> channels[p]]
  BY DEF ListChannels
<1>5. list \in Seq(channels[p]) /\ Len(list) = Cardinality(channels[p])
  BY <1>3, <1>4
<1>6. QED
  BY <1>1, <1>3, <1>5

LEMMA ListProjectsType ==
  ASSUME NEW list \in ListProjects
  PROVE  list \in Seq(Project)
<1>1. Listed \subseteq Project
  BY DEF Listed
<1>2. Cardinality(Listed) \in Nat
  BY <1>1, IzevAssumption, FS_Subset, FS_CardinalityType
<1>3. list \in [1 .. Cardinality(Listed) -> Listed]
  BY DEF ListProjects
<1>4. QED
  BY <1>1, <1>2, <1>3
----------------------------------------------------------------------------
\* What each key does to a state of the browser, while the store stays as it is.
LEMMA LoadKeeps ==
  ASSUME StoreInv, NEW a, AppOK(a), NEW p \in Project, Opens(p),
         NEW b \in LoadChannelChanges(a, p)
  PROVE  AppOK(b) /\ b.projects_index = a.projects_index
<1> DEFINE c == CurrentChannel(p)
           shown == Reverse(log[p][c])
           read == [a EXCEPT !.changes = shown, !.changes_index = 0,
                             !.loaded = [proj |-> p, chan |-> c]]
           unread == [a EXCEPT !.changes = <<>>, !.loaded = None]
<1>1. b \in {read, unread}
  BY DEF LoadChannelChanges, Vanishing
<1>2. c \in Channel /\ log[p][c] \in Seq(Change)
  BY RepositoryAssumption DEF StoreInv, Stores, CurrentChannel
<1>3. /\ shown \in Seq(Change) /\ shown \in Seq(Change \cup {None})
      /\ Reverse(shown) = log[p][c]
  BY <1>2, ReverseType
<1>4. shown # <<>> => 0 < Len(shown)
  BY <1>3
<1>5. IsPrefix(Reverse(shown), log[p][c])
  BY <1>2, <1>3, PrefixReflexive
<1> HIDE DEF c, shown
<1>6. CASE b = read
  <2>1. b \in App
    BY <1>2, <1>3, <1>6 DEF AppOK, App
  <2>2. Indexed(b)
    BY <1>4, <1>6 DEF AppOK, App, Indexed
  <2>3. /\ b.changes = shown /\ b.loaded.proj = p /\ b.loaded.chan = c
        /\ b.projects_index = a.projects_index
    BY <1>6 DEF AppOK, App
  <2>4. Past(b)
    BY <1>3, <1>5, <2>3 DEF Past, Opens
  <2>5. QED
    BY <2>1, <2>2, <2>3, <2>4 DEF AppOK
<1>7. CASE b = unread
  <2> <<>> \in Seq(Change \cup {None})
    OBVIOUS
  <2>1. b \in App
    BY <1>7 DEF AppOK, App
  <2>2. Indexed(b) /\ Past(b) /\ b.projects_index = a.projects_index
    BY <1>7 DEF AppOK, App, Indexed, Past
  <2>3. QED
    BY <2>1, <2>2 DEF AppOK
<1>8. QED
  BY <1>1, <1>6, <1>7

LEMMA UpdateKeeps ==
  ASSUME StoreInv, NEW a, AppOK(a), NEW b \in UpdateChannels(a)
  PROVE  AppOK(b) /\ b.projects_index = a.projects_index
<1> DEFINE p == a.selected_project
           listed(list) == [a EXCEPT !.channels = list, !.channels_index = 0,
                                     !.active_channel = list[1]]
           none == [a EXCEPT !.channels = <<>>, !.channels_index = 0]
<1>1. CASE ~Opens(p)
  BY <1>1 DEF UpdateChannels
<1>2. CASE Opens(p)
  <2>1. p \in Project
    BY <1>2 DEF AppOK, App, Opens
  <2>2. \/ \E list \in ListChannels(p) : b \in LoadChannelChanges(listed(list), p)
        \/ b = a
        \/ b = none
    <3>1. b \in (UNION {LoadChannelChanges(listed(list), p) : list \in ListChannels(p)})
                \cup Vanishing(p, {a, none})
      BY <1>2 DEF UpdateChannels
    <3> HIDE DEF none
    <3>2. CASE b \in UNION {LoadChannelChanges(listed(list), p) : list \in ListChannels(p)}
      BY <3>2
    <3>3. CASE b \in Vanishing(p, {a, none})
      BY <3>3 DEF Vanishing
    <3>4. QED
      BY <3>1, <3>2, <3>3
  <2>3. ASSUME NEW list \in ListChannels(p), b \in LoadChannelChanges(listed(list), p)
        PROVE  AppOK(b) /\ b.projects_index = a.projects_index
    <3>1. list \in Seq(Channel) /\ Len(list) > 0
      BY <1>2, <2>1, <2>3, ListChannelsType
    <3>2. list[1] \in Channel /\ list \in Seq(Channel \cup {None})
      BY <3>1
    <3> DEFINE c == listed(list)
    <3>3. c \in App
      BY <3>2 DEF AppOK, App
    <3>4. /\ c.channels = list /\ c.channels_index = 0 /\ c.active_channel = list[1]
          /\ c.changes = a.changes /\ c.changes_index = a.changes_index
          /\ c.mode = a.mode /\ c.command_buffer = a.command_buffer
          /\ c.loaded = a.loaded /\ c.projects_index = a.projects_index
      BY DEF AppOK, App
    <3>5. b \in LoadChannelChanges(c, p)
      BY <2>3
    <3> HIDE DEF c
    <3>6. Indexed(c)
      <4>1. c.channels_index < Len(c.channels) /\ c.channels[c.channels_index + 1] = c.active_channel
        BY <3>1, <3>4
      <4>2. QED
        BY <3>4, <4>1 DEF AppOK, Indexed
    <3>7. Past(c)
      BY <3>4 DEF AppOK, Past
    <3>8. QED
      BY <1>2, <2>1, <3>3, <3>4, <3>5, <3>6, <3>7, LoadKeeps DEF AppOK
  <2>4. CASE b = none
    <3> <<>> \in Seq(Channel \cup {None})
      OBVIOUS
    <3>1. b \in App
      BY <2>4 DEF AppOK, App
    <3>2. QED
      BY <2>4, <3>1 DEF AppOK, App, Indexed, Past
  <2>5. QED
    BY <2>2, <2>3, <2>4
<1>3. QED
  BY <1>1, <1>2

LEMMA TurnKeeps ==
  ASSUME StoreInv, NEW a, AppOK(a), NEW step \in {1, -1}, NEW b \in TurnChannel(a, step)
  PROVE  AppOK(b) /\ b.projects_index = a.projects_index
<1> DEFINE n == Len(a.channels)
           i == (a.channels_index + n + step) % n
           turned == [a EXCEPT !.channels_index = i, !.active_channel = a.channels[i + 1]]
           p == a.selected_project
<1>1. CASE b = a
  BY <1>1
<1>2. CASE b # a
  <2>1. n # 0
    BY <1>2 DEF TurnChannel
  <2>2. /\ a.channels \in Seq(Channel \cup {None}) /\ n \in Nat /\ n > 0
        /\ a.channels_index \in Nat
    BY <2>1 DEF AppOK, App
  <2>3. i \in 0 .. n - 1
    BY <2>2
  <2> HIDE DEF i
  <2>4. a.channels[i + 1] \in Channel \cup {None}
    BY <2>2, <2>3
  <2>5. turned \in App
    <3> i \in Nat
      BY <2>2, <2>3
    <3> QED
      BY <2>4 DEF AppOK, App
  <2>6. /\ turned.channels = a.channels /\ turned.channels_index = i
        /\ turned.active_channel = a.channels[i + 1]
        /\ turned.changes = a.changes /\ turned.changes_index = a.changes_index
        /\ turned.mode = a.mode /\ turned.command_buffer = a.command_buffer
        /\ turned.loaded = a.loaded /\ turned.projects_index = a.projects_index
    BY DEF AppOK, App
  <2>8. b = turned \/ (Opens(p) /\ b \in LoadChannelChanges(turned, p))
    <3>1. b \in IF ~Opens(p) THEN {turned}
                ELSE LoadChannelChanges(turned, p) \cup Vanishing(p, {turned})
      BY <1>2 DEF TurnChannel, i
    <3> HIDE DEF turned
    <3>2. QED
      BY <3>1 DEF Vanishing
  <2> HIDE DEF turned
  <2>7. AppOK(turned)
    <3>1. i < n /\ i + 1 \in Nat
      BY <2>2, <2>3
    <3>2. Indexed(turned)
      BY <2>6, <3>1 DEF AppOK, Indexed
    <3>3. Past(turned)
      BY <2>6 DEF AppOK, Past
    <3>4. QED
      BY <2>5, <3>2, <3>3 DEF AppOK
  <2>9. Opens(p) => p \in Project
    BY DEF AppOK, App, Opens
  <2>10. QED
    BY <2>6, <2>7, <2>8, <2>9, LoadKeeps
<1>3. QED
  BY <1>1, <1>2

\* A move in a list, up or as far down as it goes.
LEMMA GoingKeeps ==
  ASSUME NEW a, AppOK(a), NEW i \in Nat,
         CurrentIndex(a) < i => i < CurrentListLen(a)
  PROVE  /\ AppOK(GoesTo(a, i))
         /\ LET j == GoesTo(a, i).projects_index
            IN  j > a.projects_index => j < Len(a.projects)
<1>1. CASE a.active_tab = "Projects"
  <2>1. GoesTo(a, i) = [a EXCEPT !.projects_index = i]
    BY <1>1 DEF GoesTo
  <2>2. GoesTo(a, i) \in App
    BY <2>1 DEF AppOK, App
  <2>3. QED
    BY <1>1, <2>1, <2>2 DEF AppOK, App, Indexed, Past, CurrentIndex, CurrentListLen
<1>2. CASE a.active_tab # "Projects"
  <2>1. GoesTo(a, i) = [a EXCEPT !.changes_index = i]
    BY <1>2 DEF GoesTo
  <2>2. GoesTo(a, i) \in App
    BY <2>1 DEF AppOK, App
  <2>3. a.changes_index \in Nat /\ a.projects_index \in Nat /\ Len(a.changes) \in Nat
    BY DEF AppOK, App
  <2>4. a.changes # <<>> => i < Len(a.changes)
    <3>1. CurrentIndex(a) = a.changes_index /\ CurrentListLen(a) = Len(a.changes)
      BY <1>2 DEF CurrentIndex, CurrentListLen
    <3>2. a.changes # <<>> => a.changes_index < Len(a.changes)
      BY DEF AppOK, Indexed
    <3>3. QED
      BY <2>3, <3>1, <3>2
  <2>5. LET b == GoesTo(a, i)
        IN  /\ b.channels = a.channels /\ b.channels_index = a.channels_index
            /\ b.active_channel = a.active_channel
            /\ b.changes = a.changes /\ b.changes_index = i
            /\ b.mode = a.mode /\ b.command_buffer = a.command_buffer
            /\ b.loaded = a.loaded /\ b.projects_index = a.projects_index
    BY <2>1 DEF AppOK, App
  <2>6. Indexed(GoesTo(a, i))
    BY <2>4, <2>5 DEF AppOK, Indexed
  <2>7. Past(GoesTo(a, i))
    BY <2>5 DEF AppOK, Past
  <2>8. QED
    BY <2>2, <2>3, <2>5, <2>6, <2>7 DEF AppOK
<1>3. QED
  BY <1>1, <1>2

LEMMA MovesKeep ==
  ASSUME NEW a, AppOK(a), NEW n \in Nat,
         NEW b \in {Up(a, n), Down(a, n), GoesTo(a, 0), Bottom(a)}
  PROVE  /\ AppOK(b)
         /\ b.projects_index > a.projects_index => b.projects_index < Len(a.projects)
<1>1. /\ CurrentIndex(a) \in Nat /\ CurrentListLen(a) \in Nat
      /\ a.projects_index \in Nat
  BY DEF AppOK, App, CurrentIndex, CurrentListLen
<1>2. \/ b = a
      \/ \E i \in Nat : /\ b = GoesTo(a, i)
                        /\ CurrentIndex(a) < i => i < CurrentListLen(a)
  <2>1. CASE b = Up(a, n)
    BY <1>1, <2>1 DEF Up
  <2>2. CASE b = Down(a, n)
    BY <1>1, <2>2 DEF Down
  <2>3. CASE b = GoesTo(a, 0) \/ b = Bottom(a)
    BY <1>1, <2>3 DEF Bottom
  <2>4. QED
    BY <2>1, <2>2, <2>3
<1>3. QED
  BY <1>1, <1>2, GoingKeeps

LEMMA SelectKeeps ==
  ASSUME StoreInv, NEW a, AppOK(a), NEW b \in SelectItem(a)
  PROVE  AppOK(b) /\ b.projects_index = a.projects_index
<1> DEFINE chosen == [a EXCEPT !.selected_project = a.projects[a.projects_index + 1],
                               !.active_tab = "Channels"]
<1>1. CASE b = a
  BY <1>1
<1>2. CASE b # a
  <2>1. a.projects_index < Len(a.projects) /\ b \in UpdateChannels(chosen)
    BY <1>2 DEF SelectItem
  <2>2. a.projects[a.projects_index + 1] \in Project
    BY <2>1 DEF AppOK, App
  <2>3. chosen \in App
    BY <2>2 DEF AppOK, App, Tab
  <2>4. Indexed(chosen) /\ Past(chosen) /\ chosen.projects_index = a.projects_index
    BY DEF AppOK, App, Indexed, Past
  <2>5. QED
    BY <2>1, <2>3, <2>4, UpdateKeeps DEF AppOK
<1>3. QED
  BY <1>1, <1>2

LEMMA SettingKeeps ==
  ASSUME NEW a, AppOK(a), NEW b,
         \/ b = [a EXCEPT !.running = FALSE]
         \/ b = [a EXCEPT !.mode = "Help"] /\ a.mode # "Command"
         \/ b = [a EXCEPT !.mode = "Normal"] /\ a.mode # "Command"
         \/ \E m \in {"Normal", "Command"} : b = [a EXCEPT !.mode = m, !.command_buffer = ""]
         \/ a.mode = "Command" /\ \E text \in Typed : b = [a EXCEPT !.command_buffer = text]
         \/ \E tab \in Tab : b = [a EXCEPT !.active_tab = tab]
         \/ \E projects \in ListProjects : b = [a EXCEPT !.projects = projects]
  PROVE  AppOK(b) /\ b.projects_index = a.projects_index
<1>1. b \in App /\ b.projects_index = a.projects_index
  BY ListProjectsType DEF AppOK, App, Mode, Typed
<1>2. Indexed(b)
  BY DEF AppOK, App, Indexed
<1>3. Past(b)
  BY DEF AppOK, App, Past
<1>4. QED
  BY <1>1, <1>2, <1>3 DEF AppOK
----------------------------------------------------------------------------
LEMMA InvInit == ASSUME Init PROVE Inv
<1>1. Stores
  <2>1. {"db", "toml"} \subseteq Part
    BY DEF Part
  <2>2. NoLog \in [Channel -> Seq(Change)]
    BY DEF NoLog
  <2>3. QED
    BY <2>1, <2>2, RepositoryAssumption DEF Init, Stores
<1>2. DbOK
  BY DEF Init, DbOK, NoLog
<1>3. PICK projects \in ListProjects :
        app = [running |-> TRUE, mode |-> "Normal", active_tab |-> "Projects",
               channels |-> <<None>>, active_channel |-> None, command_buffer |-> "",
               projects_index |-> 0, changes_index |-> 0, channels_index |-> 0,
               projects |-> projects, changes |-> [k \in 1 .. Placeholders |-> None],
               selected_project |-> None, loaded |-> None]
  BY DEF Init
<1>4. projects \in Seq(Project)
  BY ListProjectsType
<1>5. LET shown == [k \in 1 .. Placeholders |-> None]
      IN  /\ shown \in Seq(Change \cup {None})
          /\ shown # <<>> => 0 < Len(shown)
  <2> DEFINE shown == [k \in 1 .. Placeholders |-> None]
  <2>1. shown \in Seq(Change \cup {None})
    BY IzevAssumption
  <2> HIDE DEF shown
  <2>2. shown # <<>> => 0 < Len(shown)
    BY <2>1
  <2>3. QED
    BY <2>1, <2>2 DEF shown
<1>6. <<None>> \in Seq(Channel \cup {None}) /\ Len(<<None>>) = 1 /\ <<None>>[1] = None
  OBVIOUS
<1>7. app \in App
  BY <1>3, <1>4, <1>5, <1>6 DEF App, Mode, Tab, Typed
<1>8. app.changes # <<>> => 0 < Len(app.changes)
  BY <1>3, <1>5
<1>9. Indexed(app) /\ Past(app)
  <2>1. app.channels = <<None>> /\ app.channels_index = 0 /\ app.active_channel = None
    BY <1>3
  <2>2. /\ app.changes_index = 0 /\ app.mode = "Normal" /\ app.command_buffer = ""
        /\ app.loaded = None
    BY <1>3
  <2>3. /\ app.channels_index < Len(app.channels)
        /\ app.channels[app.channels_index + 1] = app.active_channel
    <3>1. 0 < Len(<<None>>) /\ <<None>>[0 + 1] = None
      OBVIOUS
    <3>2. QED
      BY <2>1, <3>1
  <2>4. Indexed(app)
    BY <1>8, <2>2, <2>3 DEF Indexed
  <2>5. Past(app)
    BY <2>2 DEF Past
  <2>6. QED
    BY <2>4, <2>5
<1>10. QED
  BY <1>1, <1>2, <1>7, <1>9 DEF Inv, StoreInv, AppOK

\* Keys.
LEMMA KeysKeep ==
  ASSUME Inv, HandleNormalEvent \/ HandleCommandEvent \/ HandleHelpEvent
  PROVE  /\ AppOK(app')
         /\ app'.projects_index > app.projects_index
              => app'.projects_index < Len(app.projects)
<1> USE DEF Inv
<1>1. \A b : app' = b /\ AppOK(b) /\ b.projects_index = app.projects_index
               => /\ AppOK(app')
                  /\ ~(app'.projects_index > app.projects_index)
  BY DEF AppOK, App
<1>2. CASE HandleNormalEvent
  <2>1. CASE \/ app' = [app EXCEPT !.running = FALSE]
             \/ app' = [app EXCEPT !.mode = "Help"]
             \/ app' = [app EXCEPT !.mode = "Command", !.command_buffer = ""]
             \/ RefreshProjects(app)
             \/ \E tab \in Tab : app' = [app EXCEPT !.active_tab = tab]
    BY <1>1, <1>2, <2>1, SettingKeeps DEF HandleNormalEvent, InMode, RefreshProjects
  <2>2. CASE app' = [app EXCEPT !.active_tab = OtherTab(app)]
    <3>1. OtherTab(app) \in Tab
      BY DEF OtherTab, Tab
    <3>2. QED
      BY <1>1, <2>2, <3>1, SettingKeeps
  <2>3. CASE \E n \in {0, 1, PageSize} :
               app' \in {Up(app, n), Down(app, n), GoesTo(app, 0), Bottom(app)}
    BY <2>3, IzevAssumption, MovesKeep
  <2>4. CASE \E step \in {1, -1} : app' \in TurnChannel(app, step)
    BY <2>4, <1>1, TurnKeeps
  <2>5. CASE app' \in SelectItem(app)
    BY <2>5, <1>1, SelectKeeps
  <2>6. QED
    BY <1>2, <2>1, <2>2, <2>3, <2>4, <2>5 DEF HandleNormalEvent
<1>3. CASE HandleCommandEvent
  <2>1. CASE \/ app' = [app EXCEPT !.mode = "Normal", !.command_buffer = ""]
             \/ \E text \in Typed : app' = [app EXCEPT !.command_buffer = text]
    BY <1>1, <1>3, <2>1, SettingKeeps DEF HandleCommandEvent, InMode
  <2>2. CASE ExecuteCommand
    <3> DEFINE a == [app EXCEPT !.mode = "Normal", !.command_buffer = ""]
    <3>1. AppOK(a) /\ a.projects_index = app.projects_index
      BY SettingKeeps
    <3>2. \/ app' = a
          \/ app' = [a EXCEPT !.running = FALSE]
          \/ \E tab \in Tab : app' = [a EXCEPT !.active_tab = tab]
          \/ \E projects \in ListProjects : app' = [a EXCEPT !.projects = projects]
      BY <2>2 DEF ExecuteCommand, Executed, RefreshProjects
    <3> HIDE DEF a
    <3>3. AppOK(app') /\ app'.projects_index = a.projects_index
      BY <3>1, <3>2, SettingKeeps
    <3>4. QED
      BY <1>1, <3>1, <3>3
  <2>3. QED
    BY <1>3, <2>1, <2>2 DEF HandleCommandEvent
<1>4. CASE HandleHelpEvent
  BY <1>1, <1>4, SettingKeeps DEF HandleHelpEvent, InMode
<1>5. QED
  BY <1>2, <1>3, <1>4

\* What other processes do: logs only grow while their database stands, and a project whose
\* removal has begun does not come back.
Grows ==
    /\ gone \subseteq gone'
    /\ \A p \in Project :
        /\ "db" \in parts[p] => p \in gone' \/ "db" \in parts'[p]
        /\ "db" \in parts'[p] => "db" \in parts[p] \/ p \notin gone'
        /\ "db" \in parts[p] /\ "db" \in parts'[p] =>
              \A c \in Channel : IsPrefix(log[p][c], log'[p][c])

LEMMA ElsewhereGrows ==
  ASSUME StoreInv, Elsewhere
  PROVE  StoreInv' /\ Grows /\ app' = app
<1>1. PICK p \in Project :
        \/ InitElsewhere(p) \/ RemoveElsewhere(p)
        \/ \E x \in Change : RecordElsewhere(p, x)
        \/ \E c \in Channel : ChannelElsewhere(p, c)
  BY DEF Elsewhere
<1>2. \A q \in Project, c \in Channel : log[q][c] \in Seq(Change)
  BY DEF StoreInv, Stores
<1>3. \A q \in Project, c \in Channel : IsPrefix(log[q][c], log[q][c])
  BY <1>2, PrefixReflexive
<1>4. NoLog \in [Channel -> Seq(Change)]
  BY DEF NoLog
<1>5. CASE InitElsewhere(p)
  <2>1. Stores'
    BY <1>5, RepositoryAssumption DEF StoreInv, Stores, InitElsewhere, InitChannel, Part
  <2>2. DbOK'
    BY <1>5 DEF StoreInv, Stores, DbOK, InitElsewhere, InitChannel
  <2>3. Grows /\ app' = app
    BY <1>3, <1>5 DEF StoreInv, Stores, Grows, InitElsewhere
  <2>4. QED
    BY <2>1, <2>2, <2>3 DEF StoreInv
<1>6. CASE RemoveElsewhere(p)
  <2>1. PICK x \in parts[p] : RemovePart(p, x)
    BY <1>6 DEF RemoveElsewhere
  <2>2. gone' = gone \cup {p} /\ app' = app
    BY <1>6 DEF RemoveElsewhere
  <2>3. Stores'
    BY <1>4, <2>1, <2>2 DEF StoreInv, Stores, RemovePart
  <2>4. DbOK'
    BY <2>1 DEF StoreInv, Stores, DbOK, RemovePart, NoLog
  <2>5. Grows
    BY <1>3, <2>1, <2>2 DEF StoreInv, Stores, Grows, RemovePart
  <2>6. QED
    BY <2>2, <2>3, <2>4, <2>5 DEF StoreInv
<1>7. ASSUME NEW x \in Change, RecordElsewhere(p, x)
      PROVE  StoreInv' /\ Grows /\ app' = app
  <2> DEFINE c == CurrentChannel(p)
  <2>1. /\ Opens(p) /\ c \in channels[p]
        /\ channels' = [channels EXCEPT ![p] = channels[p]]
        /\ log' = [log EXCEPT ![p] = [log[p] EXCEPT ![c] = Append(@, x)]]
        /\ UNCHANGED <<parts, current, app, gone>>
    BY <1>7 DEF RecordElsewhere, ApplyAndCommit, Snapshot
  <2>2. c \in Channel /\ channels' = channels
    BY <2>1 DEF StoreInv, Stores
  <2> HIDE DEF c
  <2>3. /\ IsPrefix(log[p][c], Append(log[p][c], x))
        /\ Append(log[p][c], x) \in Seq(Change)
    BY <1>2, <2>2, PrefixAppend
  <2>4. Stores'
    BY <2>1, <2>2, <2>3 DEF StoreInv, Stores
  <2>5. \A q \in Project, b \in Channel :
           log'[q][b] = IF q = p /\ b = c THEN Append(log[p][c], x) ELSE log[q][b]
    BY <2>1, <2>2 DEF StoreInv, Stores
  <2>6. DbOK'
    BY <2>1, <2>2, <2>5 DEF StoreInv, DbOK
  <2>7. Grows
    BY <1>3, <2>1, <2>3, <2>5 DEF Grows
  <2>8. QED
    BY <2>1, <2>4, <2>6, <2>7 DEF StoreInv
<1>8. ASSUME NEW c \in Channel, ChannelElsewhere(p, c)
      PROVE  StoreInv' /\ Grows /\ app' = app
  <2>1. Opens(p) /\ UNCHANGED <<parts, app, gone>>
    BY <1>8 DEF ChannelElsewhere
  <2>2. CASE CreateChannel(p, c)
    <3>1. Stores'
      BY <2>1, <2>2 DEF StoreInv, Stores, CreateChannel
    <3>2. \A q \in Project :
             channels'[q] = IF q = p THEN channels[p] \cup {c} ELSE channels[q]
      BY <2>2 DEF StoreInv, Stores, CreateChannel
    <3>3. UNCHANGED <<parts, log>>
      BY <2>1, <2>2 DEF CreateChannel
    <3>4. DbOK'
      BY <2>1, <3>2, <3>3 DEF StoreInv, DbOK, Opens
    <3>5. Grows
      BY <1>3, <2>1, <3>3 DEF Grows
    <3>6. QED
      BY <2>1, <3>1, <3>4, <3>5 DEF StoreInv
  <2>3. CASE SwitchChannel(p, c)
    <3>1. Stores' /\ DbOK'
      BY <2>1, <2>3 DEF StoreInv, Stores, DbOK, SwitchChannel
    <3>2. Grows
      BY <1>3, <2>1, <2>3 DEF Grows, SwitchChannel
    <3>3. QED
      BY <2>1, <3>1, <3>2 DEF StoreInv
  <2>4. CASE ForkChannel(p, CurrentChannel(p), c)
    <3> DEFINE a == CurrentChannel(p)
    <3>1. /\ a \in channels[p] /\ c \notin channels[p]
          /\ channels' = [channels EXCEPT ![p] = @ \cup {c}]
          /\ log' = [log EXCEPT ![p][c] = log[p][a]]
          /\ UNCHANGED current
      BY <2>4 DEF ForkChannel
    <3>2. a \in Channel
      BY <3>1 DEF StoreInv, Stores
    <3> HIDE DEF a
    <3>3. \A q \in Project, b \in Channel :
             log'[q][b] = IF q = p /\ b = c THEN log[p][a] ELSE log[q][b]
      BY <3>1 DEF StoreInv, Stores
    <3>4. log[p][c] = <<>>
      BY <3>1 DEF StoreInv, DbOK
    <3>5. IsPrefix(<<>>, log[p][a])
      BY <1>2, <3>2, PrefixEmpty
    <3>6. Stores'
      BY <1>2, <2>1, <3>1, <3>2 DEF StoreInv, Stores
    <3>7. DbOK'
      BY <2>1, <3>1, <3>3 DEF StoreInv, Stores, DbOK
    <3>8. Grows
      BY <1>3, <2>1, <3>3, <3>4, <3>5 DEF Grows
    <3>9. QED
      BY <2>1, <3>6, <3>7, <3>8 DEF StoreInv
  <2>5. QED
    BY <1>8, <2>2, <2>3, <2>4 DEF ChannelElsewhere
<1>9. QED
  BY <1>1, <1>5, <1>6, <1>7, <1>8

LEMMA ElsewhereKeeps == ASSUME Inv, Elsewhere PROVE Inv' /\ app' = app
<1>1. StoreInv' /\ Grows /\ app' = app
  BY ElsewhereGrows DEF Inv
<1>2. Past(app)'
  <2> SUFFICES ASSUME app.loaded # None
               PROVE  LET p == app.loaded.proj
                      IN  /\ app.changes \in Seq(Change)
                          /\ p \in gone' \/ "db" \in parts'[p]
                          /\ Opens(p)' =>
                                IsPrefix(Reverse(app.changes), log'[p][app.loaded.chan])
    BY <1>1 DEF Past
  <2> DEFINE p == app.loaded.proj
             c == app.loaded.chan
  <2>1. p \in Project /\ c \in Channel
    BY DEF Inv, AppOK, App
  <2>2. /\ app.changes \in Seq(Change)
        /\ p \in gone \/ "db" \in parts[p]
        /\ Opens(p) => IsPrefix(Reverse(app.changes), log[p][c])
    BY DEF Inv, AppOK, Past
  <2> HIDE DEF p, c
  <2>3. p \in gone' \/ "db" \in parts'[p]
    BY <1>1, <2>1, <2>2 DEF Grows
  <2>4. ASSUME Opens(p)' PROVE IsPrefix(Reverse(app.changes), log'[p][c])
    <3>1. p # None /\ "db" \in parts'[p]
      BY <1>1, <2>4 DEF Opens, p
    <3>2. "db" \in parts[p]
      BY <1>1, <2>1, <2>2, <3>1 DEF Grows
    <3>3. IsPrefix(Reverse(app.changes), log[p][c])
      BY <2>2, <3>1, <3>2 DEF Opens
    <3>4. IsPrefix(log[p][c], log'[p][c])
      BY <1>1, <2>1, <3>1, <3>2 DEF Grows
    <3>5. log[p][c] \in Seq(Change) /\ log'[p][c] \in Seq(Change)
      BY <1>1, <2>1 DEF Inv, StoreInv, Stores
    <3>6. Reverse(app.changes) \in Seq(Change)
      BY <2>2, ReverseType
    <3>7. QED
      BY <3>3, <3>4, <3>5, <3>6, PrefixTransitive
  <2>5. QED
    BY <2>2, <2>3, <2>4 DEF p, c
<1>3. QED
  BY <1>1, <1>2 DEF Inv, AppOK, Indexed

LEMMA InvStep ==
  ASSUME Inv, [Next]_izevVars
  PROVE  /\ Inv'
         /\ app'.projects_index > app.projects_index
              => app'.projects_index < Len(app.projects)
<1>1. CASE HandleNormalEvent \/ HandleCommandEvent \/ HandleHelpEvent
  <2>1. UNCHANGED <<repositoryVars, gone>>
    BY <1>1 DEF HandleNormalEvent, HandleCommandEvent, HandleHelpEvent
  <2>2. StoreInv'
    BY <2>1 DEF Inv, StoreInv, Stores, DbOK, repositoryVars
  <2>3. Past(app') => Past(app)'
    BY <2>1 DEF Past, Opens, repositoryVars
  <2>4. QED
    BY <1>1, <2>2, <2>3, KeysKeep DEF Inv, AppOK, Indexed
<1>2. CASE Elsewhere
  <2>1. app.projects_index \in Nat
    BY DEF Inv, AppOK, App
  <2>2. QED
    BY <1>2, <2>1, ElsewhereKeeps
<1>3. CASE UNCHANGED izevVars
  <2>1. app.projects_index \in Nat
    BY DEF Inv, AppOK, App
  <2>2. Inv'
    BY <1>3 DEF izevVars, repositoryVars, Inv, StoreInv, Stores, DbOK, AppOK, Indexed, Past, Opens
  <2>3. QED
    BY <1>3, <2>1, <2>2 DEF izevVars
<1>4. QED
  BY <1>1, <1>2, <1>3 DEF Next
----------------------------------------------------------------------------
\* The inductive invariant: a database has channels, a channel that is not there no log, and
\* a project whose changes are shown does not come back once its removal has begun.
THEOREM BrowserInvariance == Spec => []Inv
  BY InvInit, InvStep, PTL DEF Spec

\* The state of the browser stays in its types.
THEOREM TypeCorrect == Spec => []TypeOK
<1>1. Inv => TypeOK
  BY DEF Inv, AppOK, TypeOK
<1>2. QED
  BY <1>1, BrowserInvariance, PTL

\* No index into the channels or the changes is beyond its list, whatever the store held
\* when the lists were read (app.rs:217-220, 385-419).
THEOREM IndicesStayInRange == Spec => []IndexesInRange
<1>1. Inv => IndexesInRange
  BY DEF Inv, AppOK, Indexed, IndexesInRange, ChannelsIndexed, ChangesIndexed
<1>2. QED
  BY <1>1, BrowserInvariance, PTL

\* What is shown as the changes of a channel is a past of that channel's log, newest first,
\* while other processes record, fork, switch and remove (app.rs:238-266).
THEOREM ShowsAPast == Spec => []ShownIsPast
<1>1. Inv => ShownIsPast
  BY DEF Inv, AppOK, Past, ShownIsPast
<1>2. QED
  BY <1>1, BrowserInvariance, PTL

\* Leaving the command mode clears what was typed (app.rs:346-355).
THEOREM BufferStaysOfMode == Spec => []BufferIsOfMode
<1>1. Inv => BufferIsOfMode
  BY DEF Inv, AppOK, Indexed, BufferIsOfMode
<1>2. QED
  BY <1>1, BrowserInvariance, PTL

\* The cursor of the projects leaves its list only when the list is replaced, and comes back
\* with the first move downwards or to the end, however short the list became
\* (app.rs:196-203, 433-437, 460-464, 490-494).
THEOREM CursorsComeBack == Spec => CursorComesBack
<1>1. ASSUME Inv, [Next]_izevVars, ~Beyond(app), app'.projects = app.projects
      PROVE  ~Beyond(app')
  <2>1. /\ app.projects_index \in Nat /\ app'.projects_index \in Nat
        /\ app.projects \in Seq(Project)
    BY <1>1, InvStep DEF Inv, AppOK, App
  <2>2. app'.projects_index > app.projects_index => app'.projects_index < Len(app.projects)
    BY <1>1, InvStep
  <2>3. QED
    BY <1>1, <2>1, <2>2 DEF Beyond
<1>2. ASSUME Inv, GoesDown, app.projects # <<>>
      PROVE  ~Beyond(app')
  <2>1. /\ app \in App /\ app.projects_index \in Nat /\ app.projects \in Seq(Project)
        /\ Len(app.projects) \in Nat \ {0}
    BY <1>2 DEF Inv, AppOK, App
  <2>2. \A i \in Nat : /\ GoesTo(app, i).projects_index = i
                       /\ GoesTo(app, i).projects = app.projects
    BY <1>2, <2>1 DEF GoesDown, GoesTo, App
  <2>3. \E i \in Nat : app' = GoesTo(app, i) /\ i < Len(app.projects)
    BY <1>2, <2>1, IzevAssumption DEF GoesDown, Down, Bottom, CurrentListLen, CurrentIndex
  <2>4. QED
    BY <2>1, <2>2, <2>3 DEF Beyond
<1>3. Inv /\ [Next]_izevVars
        => [/\ Beyond(app') /\ ~Beyond(app) => app'.projects # app.projects
            /\ GoesDown /\ app.projects # <<>> => ~Beyond(app')]_izevVars
  BY <1>1, <1>2
<1>4. QED
  BY <1>3, BrowserInvariance, PTL DEF Spec, CursorComesBack
=============================================================================
