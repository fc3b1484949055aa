---------------------------- MODULE Fleet_proofs ----------------------------
(***************************************************************************)
(* One task id of the fleet, for every set of settings: what holds for any *)
(* number of fleet-spawn runs at once, and what needs that there is one    *)
(* at a time (OneSpawner).                                                 *)
(***************************************************************************)
EXTENDS Fleet, FiniteSetTheorems, WellFoundedInduction, TLAPS

-----------------------------------------------------------------------------
(* Type correctness *)

\* What a line can be.
Kinds == {"working", "blocked", "ready", "spawned", "spawned?", "dispatched",
          "done", "failed", "steered", "archived", "died"}

\* The lines a worker writes, and all lines.
SaidLine == [kind : {"working", "blocked", "ready"}, run : Runs]
Line == [kind : Kinds, run : Runs \cup {0}]

\* The files, the workers, fleet-spawn, fleet-watch, and the two other tools.
LogsOK == status \in Seq(Line) /\ fallback \in Seq(SaidLine)
WorkersOK ==
  /\ spawns \in 0 .. setting.maxSpawns
  /\ windows \subseteq Runs /\ live \subseteq windows
  /\ worker \in [Runs -> [pc : {"none", "waiting", "busy", "blocked", "ready"},
                          lines : Nat]]
SpawnersOK ==
  spawner \in [Spawners ->
    [pc : {"idle", "file", "truncate", "launch", "pid", "keys", "ready"}, run : Runs \cup {0}]]
WatchState ==
  [pc : {"off", "wait", "bridge", "count", "print", "tail", "sleep"},
   bridges : BOOLEAN, taken : Nat, last : Nat, cur : Nat, out : Seq(Line)]
WatchOK == watch \in WatchState /\ watches \in Nat
ToolsOK ==
  /\ steers \in Nat /\ archiver \in {"idle", "kill", "mark"}
  /\ dog \in [pc : {"idle", "check", "write"}, run : Runs \cup {0}]

\* The state of one task is well typed.
TypeOK ==
  /\ setting \in Setting /\ exists \in BOOLEAN
  /\ LogsOK /\ WorkersOK /\ SpawnersOK /\ WatchOK /\ ToolsOK

-----------------------------------------------------------------------------
(* Numbers of spawns, and the dead *)

\* A worker has been started; fleet-spawn is between its truncation and its last line.
Launched(r) == worker[r].pc # "none"
Launching(s) == spawner[s].pc \in {"launch", "pid", "keys", "ready"}

\* A spawn has its number for itself, from its truncation on.
SpawnsApart ==
  /\ \A r \in Runs : Launched(r) => r <= spawns
  /\ \A r \in live : Launched(r)
  /\ \A s \in Spawners : Launching(s) =>
       /\ spawner[s].run \in 1 .. spawns
       /\ spawner[s].pc = "launch" => ~Launched(spawner[s].run)
       /\ spawner[s].pc # "launch" => Launched(spawner[s].run)
       /\ \A t \in Spawners : Launching(t) /\ t # s => spawner[t].run # spawner[s].run

\* Whoever is named dead, or about to be, was started and is not alive; whoever
\* is named with a pid was started.
NamedWereStarted ==
  /\ \A i \in DOMAIN status :
       status[i].kind \in {"spawned", "died"} =>
         /\ status[i].run \in Runs /\ Launched(status[i].run)
         /\ status[i].kind = "died" => status[i].run \notin live
  /\ dog.pc = "write" => dog.run \in Runs /\ Launched(dog.run) /\ dog.run \notin live

-----------------------------------------------------------------------------
(* One fleet-spawn at a time *)

\* fleet-spawn runs by one caller, never twice at once.
OneSpawner == \A s, t \in Spawners : s = t

\* From fleet-spawn's look for a window to the one it makes, there is none.
AtMostOneWindow ==
  /\ \A v, w \in windows : v = w
  /\ \A s \in Spawners : spawner[s].pc \in {"file", "truncate", "launch"} => windows = {}

\* Nobody writes a status file that is not there, and from fleet-spawn's look
\* at it to the truncation a verdict stays in it.
LogBegins ==
  ~exists => /\ status = <<>> /\ watch.pc \in {"off", "wait"}
             /\ archiver = "idle" /\ dog.pc = "idle" /\ windows = {}
             /\ \A s \in Spawners : ~Launching(s)

\* From fleet-spawn's look at the last line to the truncation, the verdict stays.
LogEnds ==
  \A s \in Spawners : spawner[s].pc = "truncate" => (exists => Has(status, Verdict))

-----------------------------------------------------------------------------
(* The watch *)

\* fleet-watch has printed the file up to its count, and counts within the file.
Follows ==
  /\ watch.pc = "wait" => watch.last = 0 /\ watch.out = <<>>
  /\ watch.pc = "print" => watch.last <= watch.cur /\ watch.cur <= Len(status)
  /\ PrintsEachLineOnce

\* No fleet-spawn begins the file anew under an armed watch.
NoRestartWatched ==
  spawns' # spawns => watch.pc \in {"off", "wait"}

\* A watched task id is used once: a retry gets a fresh one.
FreshIds == \A c \in Settings : c.maxWatches > 0 => c.maxSpawns <= 1

\* There is a file only after a spawn, and a watch only where the setting has one.
Armed ==
  /\ setting \in Settings
  /\ exists => spawns > 0
  /\ Watching => setting.maxWatches > 0

-----------------------------------------------------------------------------
(* Sequences and the pid *)

\* A nonempty set of positions has a last one.
LEMMA MaxExists ==
  ASSUME NEW n \in Nat, NEW S, S \subseteq 1 .. n, S # {}
  PROVE  \E i \in S : \A j \in S : j <= i
<1> DEFINE R == OpToRel(<, Nat)
           T == {n - i : i \in S}
<1>1. IsWellFoundedOn(R, Nat)
  BY NatLessThanWellFounded
<1>2. \A a, b \in Nat : <<a, b>> \in R <=> a < b
  BY DEF OpToRel
<1>3. \A i \in S : n - i \in Nat
  OBVIOUS
<1>4. T \subseteq Nat /\ T # {}
  BY <1>3
<1> HIDE DEF R
<1>5. PICK x \in T : \A y \in T : <<y, x>> \notin R
  <2> HIDE DEF T
  <2> QED BY <1>1, <1>4, WFMin
<1>6. PICK i \in S : x = n - i
  OBVIOUS
<1>7. \A j \in S : ~(n - j < n - i)
  BY <1>2, <1>3, <1>5, <1>6
<1> QED BY <1>7

\* fleet-watchdog finds no pid, or one that a spawned: line names.
LEMMA PidNamed ==
  ASSUME NEW S, NEW s \in Seq(S)
  PROVE  PidIn(s) = 0 \/ \E i \in DOMAIN s : s[i].kind = "spawned" /\ PidIn(s) = s[i].run
<1> DEFINE at == {i \in DOMAIN s : s[i].kind = "spawned"}
<1>1. CASE at = {}
  BY <1>1 DEF PidIn
<1>2. CASE at # {}
  <2>1. at \subseteq 1 .. Len(s) /\ Len(s) \in Nat
    OBVIOUS
  <2>2. \E i \in at : \A j \in at : j <= i
    <3> HIDE DEF at
    <3> QED BY <1>2, <2>1, MaxExists
  <2> QED BY <1>2, <2>2 DEF PidIn
<1> QED BY <1>1, <1>2

\* What is appended comes after what was there.
LEMMA Appended ==
  ASSUME NEW S, NEW s \in Seq(S), NEW x \in S
  PROVE  /\ Append(s, x) \in Seq(S) /\ DOMAIN Append(s, x) = DOMAIN s \cup {Len(s) + 1}
         /\ \A i \in DOMAIN s : Append(s, x)[i] = s[i]
         /\ Append(s, x)[Len(s) + 1] = x
OBVIOUS

\* The same of several lines, each of which is one of those appended.
LEMMA Concatenated ==
  ASSUME NEW S, NEW s \in Seq(S), NEW t \in Seq(S)
  PROVE  /\ s \o t \in Seq(S) /\ DOMAIN s \subseteq DOMAIN (s \o t)
         /\ \A i \in DOMAIN s : (s \o t)[i] = s[i]
         /\ \A i \in DOMAIN (s \o t) \ DOMAIN s : \E j \in DOMAIN t : (s \o t)[i] = t[j]
<1>1. s \o t \in Seq(S) /\ Len(s) \in Nat /\ Len(t) \in Nat
      /\ Len(s \o t) = Len(s) + Len(t)
  OBVIOUS
<1>2. DOMAIN s = 1 .. Len(s) /\ DOMAIN t = 1 .. Len(t) /\ DOMAIN (s \o t) = 1 .. Len(s \o t)
  BY <1>1
<1>3. ASSUME NEW i \in DOMAIN (s \o t) \ DOMAIN s
      PROVE  \E j \in DOMAIN t : (s \o t)[i] = t[j]
  <2>1. i - Len(s) \in DOMAIN t
    BY <1>1, <1>2
  <2>2. (s \o t)[i] = t[i - Len(s)]
    BY <1>1, <1>2
  <2> QED BY <2>1, <2>2
<1> QED BY <1>1, <1>2, <1>3

-----------------------------------------------------------------------------
(* Type correctness, proved *)

LEMMA InitFleet == Init => TypeOK /\ SpawnsApart
<1> SUFFICES ASSUME Init PROVE TypeOK /\ SpawnsApart
  OBVIOUS
<1>1. setting \in Setting /\ setting.maxSpawns \in Nat
  BY FleetAssumption DEF Init, Setting
<1>2. LogsOK /\ WorkersOK /\ SpawnersOK
  BY <1>1 DEF Init, LogsOK, WorkersOK, SpawnersOK
<1>3. WatchOK /\ ToolsOK
  BY DEF Init, WatchOK, WatchState, ToolsOK, NoWatch
<1>4. SpawnsApart
  BY DEF Init, SpawnsApart, Launched, Launching
<1> QED BY <1>1, <1>2, <1>3, <1>4 DEF Init, TypeOK

\* The sets of numbers and lines depend on the setting only, which stays.
LEMMA SameSets ==
  ASSUME UNCHANGED setting
  PROVE  Runs' = Runs /\ Line' = Line /\ SaidLine' = SaidLine
BY DEF Runs, Line, SaidLine

\* A fleet-spawn begins the status file anew.
Begun == \E s \in Spawners : Truncate(s)

\* Lines are appended, if any: a died: line with the pid that fleet-watchdog
\* found gone, a spawned: line with the number of a spawn under way.
Extended ==
  /\ status' \in Seq(Line) /\ DOMAIN status \subseteq DOMAIN status'
  /\ \A i \in DOMAIN status : status'[i] = status[i]
  /\ \A i \in DOMAIN status' \ DOMAIN status :
       /\ status'[i].kind = "died" => dog.pc = "write" /\ status'[i].run = dog.run
       /\ status'[i].kind = "spawned" =>
            \E s \in Spawners : spawner[s].pc = "pid" /\ status'[i].run = spawner[s].run

\* One line written at the end extends the log.
LEMMA AppendExtends ==
  ASSUME TypeOK, NEW kind \in Kinds, NEW run \in Runs \cup {0}, Append1(kind, run),
         kind = "died" => dog.pc = "write" /\ run = dog.run,
         kind = "spawned" => \E s \in Spawners : spawner[s].pc = "pid" /\ run = spawner[s].run
  PROVE  Extended
<1> DEFINE line == Text(kind, run)
<1>1. line \in Line /\ line.kind = kind /\ line.run = run
  BY DEF Text, Line
<1>2. status \in Seq(Line) /\ status' = Append(status, line)
  BY DEF TypeOK, LogsOK, Append1
<1> HIDE DEF line
<1>3. /\ status' \in Seq(Line) /\ DOMAIN status' = DOMAIN status \cup {Len(status) + 1}
      /\ \A i \in DOMAIN status : status'[i] = status[i]
      /\ status'[Len(status) + 1] = line
  BY <1>1, <1>2, Appended
<1> QED BY <1>1, <1>3 DEF Extended

\* Every step begins the log anew, extends it, or leaves it.
LEMMA LogSteps ==
  ASSUME TypeOK, SpawnsApart, [Next]_vars
  PROVE  Begun \/ Extended
<1>0. UNCHANGED status => Extended
  BY DEF TypeOK, LogsOK, Extended
<1>1. ASSUME NEW s \in Spawners, Spawn(s)
      PROVE  Begun \/ Extended
  <2>1. spawner[s].run \in Runs \cup {0}
    BY DEF TypeOK, SpawnersOK
  <2>2. CASE Spawned(s)
    <3> PICK kind \in {"spawned", "spawned?"} : Append1(kind, spawner[s].run)
      BY <2>2 DEF Spawned
    <3> QED BY <2>1, <2>2, AppendExtends DEF Spawned, Kinds
  <2>3. CASE Dispatched(s)
    BY <2>1, <2>3, AppendExtends DEF Dispatched, Kinds
  <2> QED BY <1>0, <1>1, <2>2, <2>3
          DEF Spawn, Begun, CheckWindow, CheckFile, Launch, LaunchFails, Keys, Breaks
<1>2. ASSUME NEW r \in Runs, Work(r) \/ Report(r)
      PROVE  Extended
  <2>1. PICK kind \in {"working", "blocked", "ready"} : Says(r, kind)
    BY <1>2 DEF Work, Report
  <2> QED BY <1>0, <2>1, AppendExtends DEF Says, Kinds
<1>3. CASE Complete \/ Steer \/ ArchiveMarks
  BY <1>3, AppendExtends DEF Complete, Steer, ArchiveMarks, Kinds
<1>4. CASE DogWrites
  <2>1. dog.run \in Runs \cup {0}
    BY DEF TypeOK, ToolsOK
  <2> QED BY <1>4, <2>1, AppendExtends DEF DogWrites, Kinds
<1>5. CASE Bridge
  <2>1. CASE watch.bridges
    <3> DEFINE seg == SubSeq(fallback, watch.taken + 1, Len(fallback))
    <3>1. seg \in Seq(SaidLine)
      BY DEF TypeOK, LogsOK, WatchOK, WatchState
    <3>2. SaidLine \subseteq Line
      BY DEF SaidLine, Line, Kinds
    <3>3. seg \in Seq(Line)
      BY <3>1, <3>2
    <3> HIDE DEF seg
    <3>4. \A j \in DOMAIN seg : seg[j].kind \notin {"died", "spawned"}
      <4>1. \A j \in DOMAIN seg : seg[j] \in SaidLine
        BY <3>1
      <4> QED BY <4>1 DEF SaidLine
    <3>5. status' = status \o seg /\ status \in Seq(Line)
      BY <1>5, <2>1 DEF Bridge, seg, TypeOK, LogsOK
    <3>6. /\ status' \in Seq(Line) /\ DOMAIN status \subseteq DOMAIN status'
          /\ \A i \in DOMAIN status : status'[i] = status[i]
          /\ \A i \in DOMAIN status' \ DOMAIN status : \E j \in DOMAIN seg : status'[i] = seg[j]
      BY <3>3, <3>5, Concatenated
    <3> QED BY <3>4, <3>6 DEF Extended
  <2> QED BY <1>0, <1>5, <2>1 DEF Bridge
<1>6. CASE UNCHANGED vars
  BY <1>0, <1>6 DEF vars
<1> QED BY <1>0, <1>1, <1>2, <1>3, <1>4, <1>5, <1>6
        DEF Next, Step, Leave, Die, CloseWindow, ArchiveReads, ArchiveKills, DogReads,
            DogChecks, Arm, WatchStep, Open, Count, Prints, Tails, Sleeps, still

\* The workers and the windows stay well typed.
LEMMA NextWorkers ==
  ASSUME TypeOK, SpawnsApart, [Next]_vars
  PROVE  WorkersOK'
<1>0. Runs' = Runs /\ setting' = setting /\ WorkersOK /\ setting.maxSpawns \in Nat
  BY SameSets DEF Next, vars, TypeOK, Setting
<1> USE DEF WorkersOK
<1>1. CASE UNCHANGED <<spawns, windows, live, worker>>
  BY <1>0, <1>1
<1>2. ASSUME NEW s \in Spawners, Spawn(s)
      PROVE  WorkersOK'
  <2>1. Launching(s) => spawner[s].run \in Runs
    BY <1>0 DEF SpawnsApart, Runs
  <2>2. CASE Truncate(s)
    BY <1>0, <2>2 DEF Truncate, world
  <2>3. CASE Launch(s)
    <3>1. spawner[s].run \in Runs
      BY <2>1, <2>3 DEF Launch, Launching
    <3> QED BY <1>0, <2>3, <3>1 DEF Launch
  <2>4. CASE Keys(s)
    BY <1>0, <2>4 DEF Keys
  <2>5. CASE Dispatched(s)
    BY <1>0, <2>5 DEF Dispatched
  <2>6. CASE Breaks(s)
    <3>1. CASE UNCHANGED <<windows, live>>
      BY <1>0, <2>6, <3>1 DEF Breaks, KillWindow
    <3>2. CASE KillWindow(spawner[s].run) /\ UNCHANGED worker
      BY <1>0, <2>6, <3>2 DEF Breaks, KillWindow
    <3> QED BY <2>6, <3>1, <3>2 DEF Breaks
  <2> QED BY <1>1, <1>2, <2>2, <2>3, <2>4, <2>5, <2>6
          DEF Spawn, CheckWindow, CheckFile, LaunchFails, Spawned, world
<1>3. ASSUME NEW r \in Runs, Work(r)
      PROVE  WorkersOK'
  BY <1>0, <1>3, SMTT(40) DEF Work
<1>4. ASSUME NEW r \in Runs, Report(r)
      PROVE  WorkersOK'
  BY <1>0, <1>4, SMTT(40) DEF Report
<1>5. ASSUME NEW r \in Runs, Leave(r) \/ Die(r)
      PROVE  WorkersOK'
  BY <1>0, <1>5 DEF Leave, Die
<1>6. CASE Steer
  BY <1>0, <1>6 DEF Steer
<1>7. ASSUME NEW w \in windows, CloseWindow(w)
      PROVE  WorkersOK'
  BY <1>0, <1>7 DEF CloseWindow, KillWindow
<1>8. CASE ArchiveKills
  BY <1>0, <1>8 DEF ArchiveKills, KillWindow
<1> QED BY <1>1, <1>2, <1>3, <1>4, <1>5, <1>6, <1>7, <1>8
        DEF Next, Step, vars, Complete, ArchiveReads, ArchiveMarks, DogReads, DogChecks,
            DogWrites, Arm, WatchStep, Open, Bridge, Count, Prints, Tails, Sleeps, still, world

\* So does fleet-spawn,
LEMMA NextSpawners ==
  ASSUME TypeOK, [Next]_vars
  PROVE  SpawnersOK'
<1>0. Runs' = Runs /\ SpawnersOK /\ setting.maxSpawns \in Nat /\ spawns \in Nat
  BY SameSets DEF Next, vars, TypeOK, Setting, WorkersOK
<1> USE DEF SpawnersOK
<1>1. ASSUME NEW s \in Spawners, Spawn(s)
      PROVE  SpawnersOK'
  <2>1. CASE Truncate(s)
    <3>1. spawns + 1 \in Runs
      BY <1>0, <2>1 DEF Truncate, Runs
    <3> QED BY <1>0, <2>1, <3>1 DEF Truncate
  <2>2. CASE ~Truncate(s)
    BY <1>0, <1>1, <2>2
       DEF Spawn, CheckWindow, CheckFile, Launch, LaunchFails, Spawned, Keys, Breaks, Dispatched,
           Goto
  <2> QED BY <2>1, <2>2
<1>2. CASE UNCHANGED spawner
  BY <1>0, <1>2
<1> QED BY <1>1, <1>2
        DEF Next, Step, vars, Work, Report, Leave, Die, Complete, Steer, CloseWindow,
            ArchiveReads, ArchiveKills, ArchiveMarks, DogReads, DogChecks, DogWrites, Arm,
            WatchStep, Open, Bridge, Count, Prints, Tails, Sleeps, still

\* so does fleet-watch,
LEMMA NextWatch ==
  ASSUME TypeOK, [Next]_vars
  PROVE  WatchOK'
<1>0. /\ WatchState' = WatchState /\ watch \in WatchState /\ watches \in Nat
      /\ Len(status) \in Nat /\ Len(fallback) \in Nat /\ status \in Seq(Line)
  <2>1. status \in Seq(Line) /\ fallback \in Seq(SaidLine) /\ WatchOK /\ Line' = Line
    BY SameSets DEF Next, vars, TypeOK, LogsOK
  <2>2. Len(status) \in Nat /\ Len(fallback) \in Nat
    BY <2>1
  <2>3. WatchState' = WatchState
    BY <2>1 DEF WatchState
  <2> QED BY <2>1, <2>2, <2>3 DEF WatchOK
<1>a. NoWatch \in WatchState /\ [NoWatch EXCEPT !.pc = "wait"] \in WatchState
  <2>1. <<>> \in Seq(Line)
    OBVIOUS
  <2> QED BY <2>1 DEF NoWatch, WatchState
<1>b. \A label \in {"bridge", "count", "sleep"} : [watch EXCEPT !.pc = label] \in WatchState
  BY <1>0 DEF WatchState
<1>1. CASE UNCHANGED <<watch, watches>>
  BY <1>0, <1>1 DEF WatchOK
<1>2. CASE Arm
  BY <1>0, <1>2, <1>a DEF Arm, WatchOK
<1>3. CASE Open
  <2> DEFINE there == Has(status, {"spawned", "spawned?"})
  <2>1. there \in BOOLEAN
    BY DEF Has
  <2> HIDE DEF there
  <2>2. [watch EXCEPT !.pc = "bridge", !.bridges = there] \in WatchState
    BY <1>0, <2>1 DEF WatchState
  <2> QED BY <1>0, <1>3, <2>2 DEF Open, still, WatchOK, there
<1>4. CASE Bridge
  <2>1. [watch EXCEPT !.pc = "count", !.taken = Len(fallback)] \in WatchState
    BY <1>0 DEF WatchState
  <2>2. watch' \in WatchState
    BY <1>4, <1>b, <2>1 DEF Bridge
  <2> QED BY <1>0, <1>4, <2>2 DEF Bridge, still, WatchOK
<1>5. CASE Count
  <2>1. [watch EXCEPT !.pc = "print", !.cur = Len(status)] \in WatchState
    BY <1>0 DEF WatchState
  <2>2. watch' \in WatchState
    BY <1>5, <1>b, <2>1 DEF Count
  <2> QED BY <1>0, <1>5, <2>2 DEF Count, still, WatchOK
<1>6. CASE Prints
  <2> DEFINE upto == IF watch.cur <= Len(status) THEN watch.cur ELSE Len(status)
             seg == SubSeq(status, watch.last + 1, upto)
  <2>1. /\ upto \in Nat /\ upto <= Len(status)
        /\ watch.last \in Nat /\ watch.out \in Seq(Line)
    BY <1>0 DEF WatchState
  <2>2. watch.out \o seg \in Seq(Line)
    <3> HIDE DEF upto
    <3>1. seg \in Seq(Line)
      BY <1>0, <2>1
    <3> HIDE DEF seg
    <3> QED BY <2>1, <3>1
  <2> HIDE DEF seg
  <2>3. [watch EXCEPT !.pc = "tail", !.last = watch.cur, !.out = @ \o seg] \in WatchState
    BY <1>0, <2>2 DEF WatchState
  <2> QED BY <1>0, <1>6, <2>3 DEF Prints, still, seg, WatchOK
<1>7. CASE Tails
  BY <1>0, <1>7, <1>a, <1>b DEF Tails, still, WatchOK
<1>8. CASE Sleeps
  BY <1>0, <1>8, <1>b DEF Sleeps, still, WatchOK
<1>9. ASSUME NEW s \in Spawners, Spawn(s)
      PROVE  UNCHANGED <<watch, watches>>
  BY <1>9 DEF Spawn, CheckWindow, CheckFile, Truncate, Launch, LaunchFails, Spawned,
     Keys, Breaks, Dispatched, others
<1> QED BY <1>1, <1>2, <1>3, <1>4, <1>5, <1>6, <1>7, <1>8, <1>9
        DEF Next, Step, vars, Work, Report, Leave, Die, Complete, Steer, CloseWindow,
            ArchiveReads, ArchiveKills, ArchiveMarks, DogReads, DogChecks, DogWrites,
            WatchStep, others

\* so do the other tools,
LEMMA NextTools ==
  ASSUME TypeOK, [Next]_vars
  PROVE  ToolsOK'
<1>0. Runs' = Runs /\ ToolsOK /\ status \in Seq(Line)
  BY SameSets DEF Next, vars, TypeOK, LogsOK
<1>1. PidIn(status) \in Runs \cup {0}
  <2>1. \A i \in DOMAIN status : status[i] \in Line
    BY <1>0
  <2> QED BY <1>0, <2>1, PidNamed DEF Line
<1> USE DEF ToolsOK
<1>2. CASE UNCHANGED <<steers, archiver, dog>>
  BY <1>0, <1>2
<1>3. CASE DogReads \/ DogChecks \/ DogWrites
  BY <1>0, <1>1, <1>3 DEF DogReads, DogChecks, DogWrites
<1>4. CASE Steer \/ ArchiveReads \/ ArchiveKills \/ ArchiveMarks
  BY <1>0, <1>4 DEF Steer, ArchiveReads, ArchiveKills, ArchiveMarks
<1>5. ASSUME NEW s \in Spawners, Spawn(s)
      PROVE  UNCHANGED <<steers, archiver, dog>>
  BY <1>5 DEF Spawn, CheckWindow, CheckFile, Truncate, Launch, LaunchFails, Spawned,
     Keys, Breaks, Dispatched, others
<1> QED BY <1>2, <1>3, <1>4, <1>5
        DEF Next, Step, vars, Work, Report, Leave, Die, Complete, CloseWindow, Arm,
            WatchStep, Open, Bridge, Count, Prints, Tails, Sleeps, still, others

\* and so do the files.
LEMMA NextLogs ==
  ASSUME TypeOK, SpawnsApart, [Next]_vars
  PROVE  LogsOK'
<1>0. Line' = Line /\ SaidLine' = SaidLine /\ LogsOK
  BY SameSets DEF Next, vars, TypeOK
<1>1. status' \in Seq(Line)
  <2>1. <<>> \in Seq(Line)
    OBVIOUS
  <2> QED BY <2>1, LogSteps DEF Begun, Truncate, Extended
<1>2. CASE UNCHANGED fallback
  BY <1>0, <1>1, <1>2 DEF LogsOK
<1>3. ASSUME NEW r \in Runs, Work(r) \/ Report(r)
      PROVE  LogsOK'
  <2>1. PICK kind \in {"working", "blocked", "ready"} : Says(r, kind)
    BY <1>3 DEF Work, Report
  <2>2. Text(kind, r) \in SaidLine
    BY DEF Text, SaidLine
  <2>3. fallback' \in Seq(SaidLine)
    BY <1>0, <2>1, <2>2 DEF Says, LogsOK
  <2> QED BY <1>0, <1>1, <2>3 DEF LogsOK
<1>4. ASSUME NEW s \in Spawners, Spawn(s)
      PROVE  UNCHANGED fallback
  BY <1>4 DEF Spawn, CheckWindow, CheckFile, Truncate, Launch, LaunchFails, Spawned,
     Keys, Breaks, Dispatched, world
<1> QED BY <1>2, <1>3, <1>4
        DEF Next, Step, vars, Leave, Die, Complete, Steer, CloseWindow, ArchiveReads,
            ArchiveKills, ArchiveMarks, DogReads, DogChecks, DogWrites, Arm, WatchStep,
            Open, Bridge, Count, Prints, Tails, Sleeps, world

\* A spawn's number stays its own, and only its Launch starts its worker.
LEMMA NextSpawnsApart ==
  ASSUME TypeOK, SpawnsApart, [Next]_vars
  PROVE  SpawnsApart'
<1>0. /\ Runs' = Runs /\ WorkersOK /\ SpawnersOK /\ setting.maxSpawns \in Nat
      /\ spawns \in Nat /\ 1 .. spawns \subseteq Runs /\ Runs \subseteq Nat
  BY SameSets DEF Next, vars, TypeOK, Setting, WorkersOK, Runs
<1> USE DEF SpawnsApart, Launched, Launching
<1>1. ASSUME NEW s \in Spawners, Spawn(s)
      PROVE  SpawnsApart'
  <2>0. \A t \in Spawners : t # s => spawner'[t] = spawner[t]
    BY <1>0, <1>1 DEF SpawnersOK, Spawn, CheckWindow, CheckFile, Truncate, Launch,
       LaunchFails, Spawned, Keys, Breaks, Dispatched, Goto
  <2>1. CASE Truncate(s)
    <3>1. /\ spawns + 1 \in Runs /\ spawns' = spawns + 1 /\ worker' = worker /\ live' = live
          /\ spawner'[s] = [pc |-> "launch", run |-> spawns + 1]
      BY <1>0, <2>1 DEF Truncate, SpawnersOK, Runs, world
    <3>2. ~Launched(spawns + 1)
      BY <1>0, <3>1
    <3>3. \A r \in 1 .. spawns : r \in 1 .. spawns' /\ r # spawns + 1 /\ r <= spawns'
      BY <1>0, <3>1
    <3>4. spawns + 1 \in 1 .. spawns'
      BY <1>0, <3>1
    <3>5. ASSUME NEW t \in Spawners, Launching(t)'
          PROVE  /\ spawner'[t].run \in 1 .. spawns'
                 /\ spawner'[t].pc = "launch" => ~Launched(spawner'[t].run)
                 /\ spawner'[t].pc # "launch" => Launched(spawner'[t].run)
                 /\ \A o \in Spawners :
                      Launching(o)' /\ o # t => spawner'[o].run # spawner'[t].run
      BY <2>0, <3>1, <3>2, <3>3, <3>4, <3>5
    <3>6. \A r \in Runs : Launched(r) => r <= spawns'
      <4>1. \A r \in Runs : r <= spawns => r <= spawns'
        BY <1>0, <3>1
      <4> QED BY <4>1
    <3> QED BY <1>0, <3>1, <3>5, <3>6
  <2>2. CASE Launch(s)
    <3> DEFINE r == spawner[s].run
    <3>1. /\ r \in Runs /\ r <= spawns /\ spawns' = spawns /\ live' = live \cup {r}
          /\ spawner'[s].run = r /\ spawner'[s].pc = "pid"
      BY <1>0, <2>2 DEF Launch, SpawnersOK, Goto, Runs, WorkersOK
    <3>2. worker'[r].pc # "none" /\ \A q \in Runs : q # r => worker'[q] = worker[q]
      BY <1>0, <2>2, <3>1 DEF Launch, WorkersOK
    <3> QED BY <1>0, <2>0, <2>2, <3>1, <3>2 DEF Launch
  <2>3. CASE Spawned(s) \/ Keys(s) \/ Breaks(s) \/ Dispatched(s)
    <3>1. /\ spawns' = spawns /\ live' \subseteq live /\ spawner'[s].run = spawner[s].run
          /\ spawner'[s].pc \in {"keys", "ready", "idle"}
          /\ spawner[s].pc \in {"pid", "keys", "ready"}
      BY <1>0, <2>3
         DEF Spawned, Keys, Breaks, KillWindow, Dispatched, SpawnersOK, Goto, world
    <3>2. \A q \in Runs : worker'[q].pc = "none" <=> worker[q].pc = "none"
      BY <1>0, <2>3 DEF Spawned, Keys, Breaks, Dispatched, WorkersOK, world
    <3> QED BY <1>0, <2>0, <3>1, <3>2 DEF WorkersOK
  <2>4. CASE CheckWindow(s) \/ CheckFile(s) \/ LaunchFails(s)
    <3>1. /\ spawns' = spawns /\ live' = live /\ worker' = worker
          /\ spawner'[s].pc \in {"file", "truncate", "idle"}
      BY <1>0, <2>4 DEF CheckWindow, CheckFile, LaunchFails, SpawnersOK, Goto, world
    <3> QED BY <1>0, <2>0, <3>1
  <2> QED BY <1>1, <2>1, <2>2, <2>3, <2>4 DEF Spawn
<1>2. ASSUME spawns' = spawns, spawner' = spawner, live' \subseteq live,
             \A q \in Runs : worker'[q].pc = "none" <=> worker[q].pc = "none"
      PROVE  SpawnsApart'
  <2>1. live \subseteq Runs
    BY <1>0 DEF WorkersOK
  <2> QED BY <1>0, <1>2, <2>1
<1>3. ASSUME NEW r \in Runs, Work(r) \/ Report(r)
      PROVE  SpawnsApart'
  <2>1. worker[r].pc = "busy" /\ \A q \in Runs : q # r => worker'[q] = worker[q]
    BY <1>0, <1>3 DEF Work, Report, WorkersOK
  <2>2. worker'[r].pc # "none"
    BY <1>0, <1>3 DEF Work, Report, WorkersOK
  <2> QED BY <1>2, <1>3, <2>1, <2>2 DEF Work, Report
<1>4. CASE Steer
  <2>1. \A q \in Runs : worker'[q].pc = "none" <=> worker[q].pc = "none"
    BY <1>0, <1>4 DEF Steer, WorkersOK
  <2> QED BY <1>2, <1>4, <2>1 DEF Steer
<1> QED BY <1>1, <1>2, <1>3, <1>4
        DEF Next, Step, vars, Leave, Die, Complete, CloseWindow, KillWindow,
            ArchiveReads, ArchiveKills, ArchiveMarks, DogReads, DogChecks, DogWrites, Arm,
            WatchStep, Open, Bridge, Count, Prints, Tails, Sleeps, still, world

LEMMA AlwaysTyped == Spec => [](TypeOK /\ SpawnsApart)
<1>1. TypeOK /\ SpawnsApart /\ [Next]_vars => TypeOK' /\ SpawnsApart'
  <2> SUFFICES ASSUME TypeOK, SpawnsApart, [Next]_vars PROVE TypeOK' /\ SpawnsApart'
    OBVIOUS
  <2>1. setting' = setting
    BY DEF Next, vars
  <2>2. exists' \in BOOLEAN
    BY DEF TypeOK, Next, Step, vars, Spawn, CheckWindow, CheckFile, Truncate, Launch,
       LaunchFails, Spawned, Keys, Breaks, Dispatched, Work, Report, Leave, Die, Complete, Steer,
       CloseWindow, ArchiveReads, ArchiveKills, ArchiveMarks, DogReads, DogChecks,
       DogWrites, Arm, WatchStep, Open, Bridge, Count, Prints, Tails, Sleeps, still
  <2> QED BY <2>1, <2>2, NextLogs, NextWorkers, NextSpawners, NextWatch, NextTools,
             NextSpawnsApart DEF TypeOK
<1> QED BY <1>1, InitFleet, PTL DEF Spec

\* Type correctness of the fleet's files, windows and scripts, for every set of
\* settings and any number of fleet-spawn runs: every line, window, process and
\* pid in use belongs to a spawn that was begun.
THEOREM TypeCorrect == Spec => []TypeOK
BY AlwaysTyped, PTL

-----------------------------------------------------------------------------
(* The watchdog *)

\* What a step does to the living: only a Launch adds one, that nobody has named.
LEMMA LiveSteps ==
  ASSUME TypeOK, SpawnsApart, [Next]_vars
  PROVE  /\ \A r \in Runs : Launched(r) => Launched(r)'
         /\ \A r \in Runs : Launched(r) /\ r \notin live => r \notin live'
<1>0. WorkersOK /\ SpawnersOK
  BY DEF TypeOK
<1> USE DEF Launched, WorkersOK
<1>1. ASSUME NEW s \in Spawners, Spawn(s)
      PROVE  /\ \A r \in Runs : Launched(r) => Launched(r)'
             /\ \A r \in Runs : Launched(r) /\ r \notin live => r \notin live'
  <2>1. CASE Launch(s)
    BY <1>0, <2>1 DEF Launch, SpawnsApart, Launching
  <2>2. CASE Spawned(s) \/ Keys(s) \/ Dispatched(s)
    BY <1>0, <2>2 DEF Spawned, Keys, Dispatched, world
  <2>3. CASE Breaks(s)
    BY <1>0, <2>3 DEF Breaks, KillWindow
  <2> QED BY <1>1, <2>1, <2>2, <2>3
          DEF Spawn, CheckWindow, CheckFile, Truncate, LaunchFails, world
<1>2. ASSUME NEW r \in Runs, Work(r) \/ Report(r)
      PROVE  /\ \A q \in Runs : Launched(q) => Launched(q)'
             /\ live' = live
  BY <1>0, <1>2 DEF Work, Report
<1>3. CASE Steer
  BY <1>0, <1>3 DEF Steer
<1>4. CASE live' \subseteq live /\ worker' = worker
  BY <1>4
<1> QED BY <1>1, <1>2, <1>3, <1>4
        DEF Next, Step, vars, Leave, Die, Complete, CloseWindow, KillWindow,
            ArchiveReads, ArchiveKills, ArchiveMarks, DogReads, DogChecks, DogWrites, Arm,
            WatchStep, Open, Bridge, Count, Prints, Tails, Sleeps, still, world

\* A line names a worker that was started, and a dead one stays dead.
LEMMA NextNamed ==
  ASSUME TypeOK, SpawnsApart, NamedWereStarted, [Next]_vars
  PROVE  NamedWereStarted'
<1>0. /\ Runs' = Runs /\ status \in Seq(Line)
      /\ \A r \in Runs : Launched(r) => worker'[r].pc # "none"
      /\ \A r \in Runs : Launched(r) /\ r \notin live => r \notin live'
  BY SameSets, LiveSteps DEF Next, vars, TypeOK, LogsOK, Launched
<1>a. \A r \in 1 .. spawns : r \in Runs
  BY DEF TypeOK, Setting, WorkersOK, Runs
<1>1. ASSUME NEW i \in DOMAIN status', status'[i].kind \in {"spawned", "died"}
      PROVE  /\ status'[i].run \in Runs /\ worker'[status'[i].run].pc # "none"
             /\ status'[i].kind = "died" => status'[i].run \notin live'
  <2>1. CASE Begun
    BY <1>1, <2>1 DEF Begun, Truncate
  <2>2. CASE Extended /\ i \in DOMAIN status
    <3>1. status'[i] = status[i]
      BY <2>2 DEF Extended
    <3> QED BY <1>0, <1>1, <2>2, <3>1 DEF NamedWereStarted, Launched
  <2>3. CASE Extended /\ i \notin DOMAIN status
    <3>1. CASE status'[i].kind = "died"
      <4>1. dog.pc = "write" /\ status'[i].run = dog.run
        BY <1>1, <2>3, <3>1 DEF Extended
      <4> QED BY <1>0, <4>1 DEF NamedWereStarted, Launched
    <3>2. CASE status'[i].kind = "spawned"
      <4>1. PICK s \in Spawners : spawner[s].pc = "pid" /\ status'[i].run = spawner[s].run
        BY <1>1, <2>3, <3>2 DEF Extended
      <4> QED BY <1>0, <1>a, <3>2, <4>1 DEF SpawnsApart, Launching, Launched
    <3> QED BY <1>1, <3>1, <3>2
  <2> QED BY <2>1, <2>2, <2>3, LogSteps
<1>2. ASSUME dog'.pc = "write"
      PROVE  dog'.run \in Runs /\ worker'[dog'.run].pc # "none" /\ dog'.run \notin live'
  <2>1. CASE DogChecks
    <3>1. /\ dog'.run = PidIn(status) /\ PidIn(status) # 0
          /\ PidIn(status) \notin live /\ live' = live /\ worker' = worker
      BY <1>2, <2>1 DEF DogChecks, world
    <3>2. PICK i \in DOMAIN status :
            status[i].kind = "spawned" /\ PidIn(status) = status[i].run
      BY <1>0, <3>1, PidNamed
    <3> QED BY <1>0, <3>1, <3>2 DEF NamedWereStarted, Launched
  <2>2. CASE ~DogChecks
    <3>1. ~DogReads /\ ~DogWrites
      BY <1>2 DEF DogReads, DogWrites
    <3>2. \A s \in Spawners : Spawn(s) => dog' = dog
      BY DEF Spawn, CheckWindow, CheckFile, Truncate, Launch, LaunchFails, Spawned,
         Keys, Breaks, Dispatched, others
    <3>3. dog' = dog
      BY <2>2, <3>1, <3>2
         DEF Next, Step, vars, Work, Report, Leave, Die, Complete, Steer, CloseWindow,
             ArchiveReads, ArchiveKills, ArchiveMarks, Arm, WatchStep, Open, Bridge, Count,
             Prints, Tails, Sleeps, still, others
    <3> QED BY <1>0, <1>2, <3>3 DEF NamedWereStarted
  <2> QED BY <2>1, <2>2
<1> QED BY <1>0, <1>1, <1>2 DEF NamedWereStarted, Launched

\* Whatever fleet-watchdog writes off was started and is gone, for any number of
\* fleet-spawn runs: a spawn that begins after its reading has another number,
\* and no process comes back (fleet-watchdog, "ONLY when its worker pid is gone").
THEOREM OnlyTheDeadAreFailed == Spec => []WatchdogFailsOnlyTheDead
<1>1. Init => NamedWereStarted
  BY DEF Init, NamedWereStarted
<1>2. TypeOK /\ SpawnsApart /\ NamedWereStarted /\ [Next]_vars => NamedWereStarted'
  BY NextNamed
<1>3. NamedWereStarted => WatchdogFailsOnlyTheDead
  BY DEF NamedWereStarted, WatchdogFailsOnlyTheDead
<1> QED BY <1>1, <1>2, <1>3, AlwaysTyped, PTL DEF Spec

-----------------------------------------------------------------------------
(* One fleet-spawn at a time *)

\* Only fleet-spawn makes windows, and it has looked for one.
LEMMA NextOneWindow ==
  ASSUME OneSpawner, TypeOK, AtMostOneWindow, [Next]_vars
  PROVE  AtMostOneWindow'
<1>0. SpawnersOK
  BY DEF TypeOK
<1> USE DEF AtMostOneWindow
<1>1. ASSUME NEW s \in Spawners, Spawn(s)
      PROVE  AtMostOneWindow'
  <2>1. Spawners = {s}
    BY DEF OneSpawner
  <2>2. CASE Launch(s)
    BY <1>0, <2>1, <2>2 DEF Launch, SpawnersOK, Goto
  <2>3. CASE CheckWindow(s)
    BY <1>0, <2>1, <2>3 DEF CheckWindow, SpawnersOK, Goto, world
  <2>4. CASE ~Launch(s) /\ ~CheckWindow(s)
    <3>1. /\ windows' \subseteq windows
          /\ \/ spawner[s].pc \in {"file", "truncate", "launch"}
             \/ spawner'[s].pc \notin {"file", "truncate", "launch"}
      BY <1>0, <1>1, <2>4 DEF Spawn, CheckFile, Truncate, LaunchFails, Spawned, Keys, Breaks,
         Dispatched, KillWindow, SpawnersOK, Goto, world
    <3> QED BY <2>1, <3>1
  <2> QED BY <2>2, <2>3, <2>4
<1>2. CASE spawner' = spawner /\ windows' \subseteq windows
  BY <1>2
<1> QED BY <1>1, <1>2
        DEF Next, Step, vars, Work, Report, Leave, Die, Complete, Steer, CloseWindow,
            KillWindow, ArchiveReads, ArchiveKills, ArchiveMarks, DogReads, DogChecks,
            DogWrites, Arm, WatchStep, Open, Bridge, Count, Prints, Tails, Sleeps, still,
            world

\* A set whose members are all the same has at most one.
LEMMA AtMostOne ==
  ASSUME NEW S, \A v, w \in S : v = w
  PROVE  Cardinality(S) <= 1
<1>1. CASE S = {}
  BY <1>1, FS_EmptySet
<1>2. ASSUME NEW x \in S
      PROVE  Cardinality(S) <= 1
  <2>1. S = {x}
    OBVIOUS
  <2> QED BY <2>1, FS_Singleton
<1> QED BY <1>1, <1>2

\* While one fleet-spawn runs at a time, a task id never has two workers or two
\* windows, whatever is archived, steered, closed or killed in between: the
\* window that fleet-spawn did not find is still not there when it makes its own.
THEOREM OneWorkerAtATime ==
  ASSUME OneSpawner PROVE Spec => []OneWorkerPerTask
<1>1. Init => AtMostOneWindow
  BY DEF Init, AtMostOneWindow
<1>2. TypeOK /\ AtMostOneWindow /\ [Next]_vars => AtMostOneWindow'
  BY NextOneWindow
<1>3. TypeOK /\ AtMostOneWindow => OneWorkerPerTask
  <2> SUFFICES ASSUME TypeOK, AtMostOneWindow PROVE OneWorkerPerTask
    OBVIOUS
  <2>1. /\ \A v, w \in windows : v = w
        /\ \A v, w \in live : v = w
    BY DEF TypeOK, WorkersOK, AtMostOneWindow
  <2> QED BY <2>1, AtMostOne DEF OneWorkerPerTask
<1> QED BY <1>1, <1>2, <1>3, TypeCorrect, PTL DEF Spec

\* Only what is there is written: before the first truncation there is no
\* worker, no window, and no script at work on the file.
LEMMA NextBegins ==
  ASSUME TypeOK, LogBegins, [Next]_vars
  PROVE  LogBegins'
<1> SUFFICES ASSUME ~exists' PROVE LogBegins'
  BY DEF LogBegins
<1>0. SpawnersOK /\ WorkersOK /\ exists \in BOOLEAN
  BY DEF TypeOK
<1> USE DEF LogBegins
<1>1. ASSUME NEW s \in Spawners, Spawn(s)
      PROVE  LogBegins'
  <2>1. /\ ~exists /\ ~Launching(s) /\ ~Truncate(s)
    BY <1>1 DEF Spawn, CheckWindow, CheckFile, Truncate, Launch, LaunchFails, Spawned,
       Keys, Breaks, Dispatched, Launching
  <2>2. CheckWindow(s) \/ CheckFile(s)
    BY <1>1, <2>1 DEF Spawn, Launch, LaunchFails, Spawned, Keys, Breaks, Dispatched, Launching
  <2>3. /\ UNCHANGED <<status, windows, watch, archiver, dog>>
        /\ spawner'[s].pc \in {"file", "truncate", "idle"}
        /\ \A t \in Spawners : t # s => spawner'[t] = spawner[t]
    BY <1>0, <2>2 DEF CheckWindow, CheckFile, SpawnersOK, Goto, world, others
  <2> QED BY <2>1, <2>3 DEF Launching
<1>2. ~exists => live = {}
  BY <1>0 DEF WorkersOK
<1>3. ASSUME UNCHANGED exists, UNCHANGED <<status, windows, archiver, dog, spawner>>,
             watch' = watch \/ watch'.pc \in {"off", "wait"}
      PROVE  LogBegins'
  BY <1>3 DEF Launching
<1>4. CASE Arm
  BY <1>3, <1>4 DEF Arm, world, NoWatch
<1>5. CASE WatchStep
  BY <1>5 DEF WatchStep, Open, Bridge, Count, Prints, Tails, Sleeps, still
<1>6. ASSUME NEW r \in Runs, Work(r) \/ Report(r) \/ Leave(r) \/ Die(r)
      PROVE  LogBegins'
  BY <1>2, <1>6 DEF Work, Report, Leave, Die
<1>7. ASSUME NEW w \in windows, CloseWindow(w)
      PROVE  LogBegins'
  BY <1>7 DEF CloseWindow
<1>8. CASE Complete \/ Steer \/ ArchiveReads \/ ArchiveKills \/ ArchiveMarks
           \/ DogReads \/ DogChecks \/ DogWrites
  BY <1>8 DEF Complete, Steer, ArchiveReads, ArchiveKills, ArchiveMarks, DogReads,
     DogChecks, DogWrites
<1> QED BY <1>1, <1>3, <1>4, <1>5, <1>6, <1>7, <1>8 DEF Next, Step, vars

\* Only a truncation brings the file into being and counts a spawn.
LEMMA BeginSteps ==
  ASSUME [Next]_vars
  PROVE  Begun \/ UNCHANGED <<exists, spawns>>
BY DEF Begun, Next, Step, vars, Spawn, CheckWindow, CheckFile, Launch, LaunchFails,
   Spawned, Keys, Breaks, Dispatched, Work, Report, Leave, Die, Complete, Steer, CloseWindow,
   ArchiveReads, ArchiveKills, ArchiveMarks, DogReads, DogChecks, DogWrites, Arm,
   WatchStep, Open, Bridge, Count, Prints, Tails, Sleeps, still

LEMMA AlwaysBegins == Spec => []LogBegins
<1>1. Init => LogBegins
  BY DEF Init, LogBegins, NoWatch, Launching
<1> QED BY <1>1, NextBegins, TypeCorrect, PTL DEF Spec

\* A file that may be begun anew has a verdict, its last line.
LEMMA ReusableEnds ==
  ASSUME TypeOK, Reusable(status)
  PROVE  Has(status, Verdict)
<1>1. status \in Seq(Line) /\ status # <<>>
  BY DEF TypeOK, LogsOK, Reusable
<1>2. Len(status) \in DOMAIN status
  BY <1>1
<1> QED BY <1>1, <1>2 DEF Reusable, LastLine, Has

\* Nobody but fleet-spawn takes the verdict from the log.
LEMMA NextEnds ==
  ASSUME OneSpawner, TypeOK, SpawnsApart, LogEnds, [Next]_vars
  PROVE  LogEnds'
<1>0. SpawnersOK
  BY DEF TypeOK
<1> SUFFICES ASSUME NEW t \in Spawners, spawner'[t].pc = "truncate", exists'
             PROVE  Has(status, Verdict)'
  BY DEF LogEnds
<1>1. ~Begun
  <2> SUFFICES ASSUME NEW s \in Spawners, Truncate(s) PROVE FALSE
    BY DEF Begun
  <2>1. s = t
    BY DEF OneSpawner
  <2> QED BY <1>0, <2>1 DEF Truncate, SpawnersOK
<1>2. Has(status, Verdict) => Has(status, Verdict)'
  <2>1. Extended
    BY <1>1, LogSteps
  <2> QED BY <2>1 DEF Extended, Has
<1>3. exists' = exists
  BY <1>1, BeginSteps
<1>4. CASE spawner[t].pc = "truncate"
  BY <1>2, <1>3, <1>4 DEF LogEnds
<1>5. CASE spawner[t].pc # "truncate"
  <2>1. PICK s \in Spawners : Spawn(s)
    BY <1>5 DEF Next, Step, vars, Work, Report, Leave, Die, Complete, Steer, CloseWindow,
       ArchiveReads, ArchiveKills, ArchiveMarks, DogReads, DogChecks, DogWrites, Arm,
       WatchStep, Open, Bridge, Count, Prints, Tails, Sleeps, still
  <2>2. s = t
    BY DEF OneSpawner
  <2>3. CheckFile(s)
    <3>1. ASSUME NEW label \in {"file", "pid", "keys", "ready", "idle"}, Goto(s, label)
          PROVE  FALSE
      BY <1>0, <2>2, <3>1 DEF Goto, SpawnersOK
    <3>2. /\ ~CheckWindow(s) /\ ~Launch(s) /\ ~LaunchFails(s) /\ ~Spawned(s)
          /\ ~Keys(s) /\ ~Breaks(s) /\ ~Dispatched(s)
      BY <3>1 DEF CheckWindow, Launch, LaunchFails, Spawned, Keys, Breaks, Dispatched
    <3> QED BY <1>1, <2>1, <3>2 DEF Spawn, Begun
  <2>4. Reusable(status)
    BY <1>0, <1>3, <2>2, <2>3 DEF CheckFile, Goto, SpawnersOK
  <2> QED BY <1>2, <2>4, ReusableEnds
<1> QED BY <1>4, <1>5

\* While one fleet-spawn runs at a time, the log of a task nobody has closed is
\* never thrown away: what others append between fleet-spawn's check of the last
\* line and its truncation comes after the verdict it has seen.
THEOREM OpenLogIsKept ==
  ASSUME OneSpawner PROVE Spec => OpenLogKept
<1>1. Init => LogEnds
  BY DEF Init, LogEnds
<1>2. TypeOK /\ SpawnsApart /\ LogEnds /\ [Next]_vars => LogEnds'
  BY NextEnds
<1>3. TypeOK /\ SpawnsApart /\ LogBegins /\ LogEnds /\ [Next]_vars
        => [status' = <<>> /\ status # <<>> => Has(status, Verdict)]_vars
  <2> SUFFICES ASSUME TypeOK, SpawnsApart, LogBegins, LogEnds, [Next]_vars,
                      status' = <<>>, status # <<>>
               PROVE  Has(status, Verdict)
    OBVIOUS
  <2>1. status \in Seq(Line)
    BY DEF TypeOK, LogsOK
  <2>2. ~Extended
    <3>1. 1 \in DOMAIN status /\ 1 \notin DOMAIN <<>>
      BY <2>1
    <3> QED BY <3>1 DEF Extended
  <2>3. PICK s \in Spawners : Truncate(s)
    BY <2>2, LogSteps DEF Begun
  <2> QED BY <2>3 DEF Truncate, LogBegins, LogEnds
<1> QED BY <1>1, <1>2, <1>3, AlwaysTyped, AlwaysBegins, PTL DEF Spec, OpenLogKept

-----------------------------------------------------------------------------
(* The watch *)

\* What was the start of a file stays its start when lines are appended.
LEMMA SameStart ==
  ASSUME NEW S, NEW s \in Seq(S), NEW t \in Seq(S), DOMAIN s \subseteq DOMAIN t,
         \A i \in DOMAIN s : t[i] = s[i], NEW n \in Nat, n <= Len(s)
  PROVE  n <= Len(t) /\ Len(s) <= Len(t) /\ SubSeq(t, 1, n) = SubSeq(s, 1, n)
<1>1. Len(s) \in Nat /\ DOMAIN s = 1 .. Len(s) /\ Len(t) \in Nat /\ DOMAIN t = 1 .. Len(t)
  OBVIOUS
<1>2. Len(s) <= Len(t)
  BY <1>1
<1> QED BY <1>1, <1>2

\* Two adjacent stretches are one.
LEMMA Adjacent ==
  ASSUME NEW S, NEW s \in Seq(S), NEW a \in Nat, NEW b \in Nat, a <= b, b <= Len(s)
  PROVE  SubSeq(s, 1, a) \o SubSeq(s, a + 1, b) = SubSeq(s, 1, b)
OBVIOUS

\* What others append lies behind fleet-watch's count until it prints it.
LEMMA NextFollows ==
  ASSUME TypeOK, SpawnsApart, Follows, [Next]_vars, [NoRestartWatched]_vars
  PROVE  Follows'
<1>0. /\ status \in Seq(Line) /\ Len(status) \in Nat /\ watch \in WatchState
      /\ watch.last \in Nat /\ watch.cur \in Nat
  <2>1. status \in Seq(Line) /\ watch \in WatchState
    BY DEF TypeOK, LogsOK, WatchOK
  <2> QED BY <2>1 DEF WatchState
<1>k. UNCHANGED vars \/ NoRestartWatched
  BY DEF vars
<1> DEFINE following == {"bridge", "count", "print", "tail", "sleep"}
<1>a. NoWatch.pc = "off" /\ [NoWatch EXCEPT !.pc = "wait"].pc = "wait"
      /\ [NoWatch EXCEPT !.pc = "wait"].last = 0 /\ [NoWatch EXCEPT !.pc = "wait"].out = <<>>
  BY DEF NoWatch
<1>1. CASE Begun
  <2>1. PICK s \in Spawners : Truncate(s)
    BY <1>1 DEF Begun
  <2>2. watch' = watch /\ spawns' = spawns + 1 /\ spawns \in Nat
    BY <2>1 DEF Truncate, others, TypeOK, Setting, WorkersOK
  <2>3. watch.pc \in {"off", "wait"}
    BY <1>k, <2>2 DEF NoRestartWatched, vars
  <2> QED BY <2>2, <2>3 DEF Follows, PrintsEachLineOnce
<1>2. ASSUME Extended
      PROVE  \A n \in Nat : n <= Len(status) =>
               /\ n <= Len(status') /\ SubSeq(status', 1, n) = SubSeq(status, 1, n)
  BY <1>0, <1>2, SameStart DEF Extended
<1>3. CASE Extended /\ watch' = watch
  BY <1>0, <1>2, <1>3 DEF Follows, PrintsEachLineOnce
<1>4. CASE Arm
  BY <1>4, <1>a DEF Arm, Follows, PrintsEachLineOnce
<1>5. CASE Open
  <2>1. /\ status' = status /\ watch'.pc = "bridge" /\ watch'.last = watch.last
        /\ watch'.out = watch.out /\ watch.last = 0 /\ watch.out = <<>>
    BY <1>0, <1>5 DEF Open, Follows, WatchState
  <2>2. SubSeq(status, 1, 0) = <<>>
    BY <1>0
  <2> QED BY <1>0, <2>1, <2>2 DEF Follows, PrintsEachLineOnce
<1>6. CASE Bridge
  <2>1. /\ watch'.pc = "count" /\ watch'.last = watch.last /\ watch'.out = watch.out
        /\ watch.pc = "bridge"
    BY <1>0, <1>6 DEF Bridge, WatchState
  <2>2. ~Begun
    BY <1>6 DEF Begun, Bridge, Truncate, still, TypeOK, Setting, WorkersOK
  <2>3. Extended
    BY <2>2, LogSteps
  <2> QED BY <1>0, <1>2, <2>1, <2>3 DEF Follows, PrintsEachLineOnce
<1>7. CASE Count
  <2>1. /\ status' = status /\ watch'.last = watch.last /\ watch'.out = watch.out
        /\ watch.pc = "count"
        /\ \/ watch'.pc = "print" /\ watch'.cur = Len(status) /\ Len(status) > watch.last
           \/ watch'.pc = "sleep"
    BY <1>0, <1>7 DEF Count, WatchState
  <2> QED BY <1>0, <2>1 DEF Follows, PrintsEachLineOnce
<1>8. CASE Prints
  <2>1. /\ watch.last <= watch.cur /\ watch.cur <= Len(status)
        /\ watch.out = SubSeq(status, 1, watch.last)
    BY <1>8 DEF Prints, Follows, PrintsEachLineOnce
  <2>2. /\ status' = status /\ watch'.pc = "tail" /\ watch'.last = watch.cur
        /\ watch'.out = watch.out \o SubSeq(status, watch.last + 1, watch.cur)
    BY <1>0, <1>8, <2>1 DEF Prints, WatchState
  <2>3. watch'.out = SubSeq(status, 1, watch.cur)
    BY <1>0, <2>1, <2>2, Adjacent
  <2> QED BY <2>1, <2>2, <2>3 DEF Follows, PrintsEachLineOnce
<1>9. CASE Tails \/ Sleeps
  <2>1. /\ status' = status /\ watch.pc \in {"tail", "sleep"}
        /\ \/ watch'.pc = "off"
           \/ /\ watch'.pc \in {"sleep", "bridge"} /\ watch'.last = watch.last
              /\ watch'.out = watch.out
    BY <1>0, <1>9, <1>a DEF Tails, Sleeps, WatchState
  <2> QED BY <2>1 DEF Follows, PrintsEachLineOnce
<1>10. CASE watch' = watch
  BY <1>1, <1>3, <1>10, LogSteps
<1>11. \A s \in Spawners : Spawn(s) => watch' = watch
  BY DEF Spawn, CheckWindow, CheckFile, Truncate, Launch, LaunchFails, Spawned, Keys, Breaks,
         Dispatched, others
<1> QED BY <1>4, <1>5, <1>6, <1>7, <1>8, <1>9, <1>10, <1>11
        DEF Next, Step, vars, Work, Report, Leave, Die, Complete, Steer, CloseWindow,
            ArchiveReads, ArchiveKills, ArchiveMarks, DogReads, DogChecks, DogWrites,
            WatchStep, others

\* As long as no fleet-spawn begins the file anew under an armed watch, fleet-watch
\* prints each line of the status file once, in its order, whatever is appended
\* between its count, its sed and its tail, by any number of writers.
THEOREM LinesPrintedOnce == Spec /\ [][NoRestartWatched]_vars => []PrintsEachLineOnce
<1>1. Init => Follows
  BY DEF Init, NoWatch, Follows, PrintsEachLineOnce
<1>2. TypeOK /\ SpawnsApart /\ Follows /\ [Next]_vars /\ [NoRestartWatched]_vars
        => Follows'
  BY NextFollows
<1>3. Follows => PrintsEachLineOnce
  BY DEF Follows
<1> QED BY <1>1, <1>2, <1>3, AlwaysTyped, PTL DEF Spec

\* A step keeps this.
LEMMA NextArmed ==
  ASSUME TypeOK, Armed, [Next]_vars
  PROVE  Armed'
<1>0. setting' = setting /\ spawns \in Nat /\ watches \in Nat /\ setting.maxWatches \in Nat
  BY DEF Next, vars, TypeOK, Setting, WorkersOK, WatchOK
<1>1. exists' => spawns' > 0
  <2>1. CASE Begun
    BY <1>0, <2>1 DEF Begun, Truncate
  <2>2. CASE UNCHANGED <<exists, spawns>>
    BY <2>2 DEF Armed
  <2> QED BY <2>1, <2>2, BeginSteps
<1>2. Watching' => Watching \/ setting.maxWatches > 0
  <2>1. CASE Arm
    BY <1>0, <2>1 DEF Arm
  <2>2. CASE WatchStep
    BY <2>2 DEF WatchStep, Open, Bridge, Count, Prints, Tails, Sleeps, Watching
  <2>3. CASE watch' = watch
    BY <2>3 DEF Watching
  <2>4. \A s \in Spawners : Spawn(s) => watch' = watch
    BY DEF Spawn, CheckWindow, CheckFile, Truncate, Launch, LaunchFails, Spawned,
       Keys, Breaks, Dispatched, others
  <2> QED BY <2>1, <2>2, <2>3, <2>4
          DEF Next, Step, vars, Work, Report, Leave, Die, Complete, Steer, CloseWindow,
              ArchiveReads, ArchiveKills, ArchiveMarks, DogReads, DogChecks, DogWrites, others
<1> QED BY <1>0, <1>1, <1>2 DEF Armed

\* A watched id that is used once is never begun anew under the watch: a second
\* fleet-spawn for it, at the same time or later, finds the count of spawns used up.
LEMMA FreshIdsRestartNothing ==
  ASSUME FreshIds PROVE Spec => [][NoRestartWatched]_vars
<1>1. Init => Armed
  BY DEF Init, Armed, Watching, NoWatch
<1>2. TypeOK /\ Armed /\ [Next]_vars => Armed'
  BY NextArmed
<1>3. TypeOK /\ Armed /\ LogBegins /\ [Next]_vars => [NoRestartWatched]_vars
  <2> SUFFICES ASSUME TypeOK, Armed, LogBegins, Next, spawns' # spawns
               PROVE  watch.pc \in {"off", "wait"}
    BY DEF NoRestartWatched, vars
  <2>1. PICK s \in Spawners : Truncate(s)
    BY BeginSteps DEF Begun
  <2>2. CASE Watching
    <3>1. setting.maxSpawns <= 1 /\ setting.maxSpawns \in Nat /\ spawns \in Nat
      BY <2>2 DEF Armed, FreshIds, TypeOK, Setting, WorkersOK
    <3>2. ~exists
      BY <2>1, <3>1 DEF Truncate, Armed
    <3> QED BY <3>2 DEF LogBegins
  <2> QED BY <2>2 DEF Watching
<1> QED BY <1>1, <1>2, <1>3, TypeCorrect, AlwaysBegins, PTL DEF Spec

\* fleet-spawn's rule "fresh id for retries", kept for watched ids, is enough for
\* that: each line is printed once, whoever else writes and however many
\* fleet-spawn runs there are.
THEOREM FreshIdsPrintedOnce ==
  ASSUME FreshIds PROVE Spec => []PrintsEachLineOnce
BY FreshIdsRestartNothing, LinesPrintedOnce, PTL
=============================================================================
