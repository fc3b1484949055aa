------------------------------- MODULE Fleet -------------------------------
(***************************************************************************)
(* One task id of the worker fleet (fleet/): shell scripts that share an   *)
(* append-only status file, a tmux window name and process ids, without a  *)
(* lock.  fleet-spawn starts a worker, the worker and the coordinator      *)
(* append lines, fleet-watch follows them, fleet-archive kills windows,    *)
(* fleet-watchdog writes off dead workers.                                 *)
(*                                                                         *)
(* A line is its kind and the spawn (a number) of the worker it is from or *)
(* about.  "blocked" stands for blocked: and needs-decision:, which every  *)
(* script treats alike; "died" is the failed: line of fleet-watchdog.      *)
(***************************************************************************)
EXTENDS Integers, Sequences, FiniteSets

CONSTANTS
  Spawners,  \* concurrent runs of fleet-spawn
  Settings   \* the fleets to look at

\* What a fleet consists of; tools: what runs beside fleet-spawn, the worker and
\* fleet-watch.  The last five are bounds.
Setting ==
  [tools : SUBSET {"archive", "watchdog", "steer", "close"},
   sandboxed : BOOLEAN,   \* can the worker only reach <cwd>/.fleet-status?
   stamped : BOOLEAN,     \* does the worker put a time stamp before its lines?
   oneShot : BOOLEAN,     \* does the worker exit by itself when it has reported?
   prompt : BOOLEAN,      \* may the worker report before fleet-spawn is done?
   earlyWatch : BOOLEAN,  \* may fleet-watch be armed before fleet-spawn is done?
   maxSpawns : Nat,       \* times the status file is begun for a worker
   maxWorking : Nat,      \* working: lines of one worker
   maxSteers : Nat,       \* steered: lines
   maxVerdicts : Nat,     \* lines of fleet-complete in one log
   maxWatches : Nat]      \* times fleet-watch is armed

ASSUME FleetAssumption == Settings \subseteq Setting

VARIABLES
  setting,         \* the fleet: it never changes
  exists, status,  \* state/<id>.status: is there one, and its lines
  fallback,        \* <cwd>/.fleet-status
  spawns,          \* times fleet-spawn began the status file
  windows,         \* the open windows named fleet-<id>, by spawn
  live,            \* the spawns whose worker process is alive
  worker,          \* worker[r]: what the worker of spawn r is doing
  spawner,         \* fleet-spawn: [pc, run]
  watch,           \* fleet-watch: its locals
  watches, steers, \* how often it was armed; steered: lines written
  archiver,        \* fleet-archive: "idle", "kill" or "mark"
  dog              \* fleet-watchdog: [pc, run]

vars == <<setting, exists, status, fallback, spawns, windows, live, worker, spawner,
          watch, watches, steers, archiver, dog>>

Tools == setting.tools
Runs == 1 .. setting.maxSpawns

-----------------------------------------------------------------------------
(* Reading the status file *)

Text(kind, run) == [kind |-> kind, run |-> run]
NoLine == Text("working", 0)
LastLine(s) == IF s = <<>> THEN NoLine ELSE s[Len(s)]
Has(s, kinds) == \E i \in DOMAIN s : s[i].kind \in kinds
Append1(kind, run) == status' = Append(status, Text(kind, run))

Verdict == {"done", "failed", "died"}
Closed(s) == Has(s, {"done", "failed"})
Verdicts(s) == Cardinality({i \in DOMAIN s : s[i].kind \in {"done", "failed"}})

\* Mutant: the worker's success line is not an attention state.
AttentionButReady(l) == l.kind \in Verdict \cup {"blocked"}

\* fleet-watch and fleet-archive strip a leading time stamp.
Attention(l) == l.kind \in Verdict \cup {"blocked", "ready"}

\* fleet-watchdog does not: a stamped escalation looks like an open task.
Skipped(l) == l.kind \in Verdict \/ (l.kind = "blocked" /\ ~setting.stamped)

\* Mutant: any archived task is reusable.
ReusableArchived(s) == s # <<>> /\ LastLine(s).kind \in Verdict \cup {"archived"}

\* The reuse test of fleet-spawn.
Reusable(s) == s # <<>> /\ LastLine(s).kind \in Verdict

\* The worker whose pid the last spawned: line with a pid names; 0 if none.
PidIn(s) ==
  LET at == {i \in DOMAIN s : s[i].kind = "spawned"}
  IN IF at = {} THEN 0 ELSE s[CHOOSE i \in at : \A j \in at : j <= i].run

-----------------------------------------------------------------------------
Watching == watch.pc # "off"
NoWatch == [pc |-> "off", bridges |-> FALSE, taken |-> 0, last |-> 0, cur |-> 0,
            out |-> <<>>]

Init ==
  /\ setting \in Settings
  /\ exists = FALSE /\ status = <<>> /\ fallback = <<>>
  /\ spawns = 0 /\ windows = {} /\ live = {}
  /\ worker = [r \in Runs |-> [pc |-> "none", lines |-> 0]]
  /\ spawner = [s \in Spawners |-> [pc |-> "idle", run |-> 0]]
  /\ watch = NoWatch /\ watches = 0 /\ steers = 0
  /\ archiver = "idle" /\ dog = [pc |-> "idle", run |-> 0]

world == <<fallback, windows, live, worker>>
others == <<watch, watches, steers, archiver, dog>>
Goto(s, label) == spawner' = [spawner EXCEPT ![s].pc = label]
KillWindow(w) == windows' = windows \ {w} /\ live' = live \ {w}

\* Mutant: only the status file is asked, not the windows.
CheckFileOnly(s) ==
  /\ spawner[s].pc = "idle" /\ spawns < setting.maxSpawns
  /\ Goto(s, "file")
  /\ UNCHANGED <<exists, status, spawns, world, others>>

\* A window of that name: refuse to clobber.
CheckWindow(s) ==
  /\ spawner[s].pc = "idle" /\ spawns < setting.maxSpawns
  /\ windows = {}
  /\ Goto(s, "file")
  /\ UNCHANGED <<exists, status, spawns, world, others>>

\* A status file whose last line is no verdict: "task still open", exit 1.
CheckFile(s) ==
  /\ spawner[s].pc = "file"
  /\ IF ~exists \/ Reusable(status)
     THEN Goto(s, "truncate") ELSE Goto(s, "idle")
  /\ UNCHANGED <<exists, status, spawns, world, others>>

Truncate(s) ==
  /\ spawner[s].pc = "truncate" /\ spawns < setting.maxSpawns
  /\ exists' = TRUE /\ status' = <<>>
  /\ spawns' = spawns + 1
  /\ spawner' = [spawner EXCEPT ![s] = [pc |-> "launch", run |-> spawns + 1]]
  /\ UNCHANGED <<world, others>>

\* tmux new-window; a one-shot worker has its prompt already.  tmux allows two
\* windows of one name.
Launch(s) ==
  /\ spawner[s].pc = "launch"
  /\ LET r == spawner[s].run
     IN /\ windows' = windows \cup {r} /\ live' = live \cup {r}
        /\ worker' = [worker EXCEPT ![r].pc =
                        IF setting.oneShot /\ setting.prompt THEN "busy" ELSE "waiting"]
  /\ Goto(s, "pid")
  /\ UNCHANGED <<exists, status, fallback, spawns, others>>

\* tmux cannot create the window: set -e ends the script, the file stays empty.
LaunchFails(s) ==
  /\ spawner[s].pc = "launch"
  /\ Goto(s, "idle")
  /\ UNCHANGED <<exists, status, spawns, world, others>>

\* The spawned: line, with the engine's pid or with pid=unknown.
Spawned(s) ==
  /\ spawner[s].pc = "pid"
  /\ LET r == spawner[s].run
     IN \E kind \in {"spawned", "spawned?"} :
          /\ kind = "spawned" => r \in live
          /\ Append1(kind, r)
  /\ Goto(s, IF setting.oneShot THEN "ready" ELSE "keys")
  /\ UNCHANGED <<exists, spawns, world, others>>

\* The pointer is typed into a TUI, whose worker starts.
Keys(s) ==
  /\ spawner[s].pc = "keys"
  /\ LET r == spawner[s].run
     IN worker' = [worker EXCEPT ![r].pc =
                     IF setting.prompt /\ @ = "waiting" THEN "busy" ELSE @]
  /\ Goto(s, "ready")
  /\ UNCHANGED <<exists, status, spawns, fallback, windows, live, others>>

\* tmux fails on the new window, to set it up, list its pane or type into it:
\* set -e ends the script without the lines that follow.  The window and its
\* worker stay, a one-shot worker with its prompt, unless the worker was gone,
\* and the window with it, before remain-on-exit was set.
Breaks(s) ==
  /\ spawner[s].pc \in {"pid", "keys"}
  /\ LET r == spawner[s].run
     IN \/ /\ worker' = [worker EXCEPT ![r].pc =
                             IF setting.oneShot /\ @ = "waiting" THEN "busy" ELSE @]
           /\ UNCHANGED <<windows, live>>
        \/ /\ spawner[s].pc = "pid"
           /\ KillWindow(r) /\ UNCHANGED worker
  /\ Goto(s, "idle")
  /\ UNCHANGED <<exists, status, fallback, spawns, others>>

\* The dispatched: line; a worker that is not Prompt starts after it.
Dispatched(s) ==
  /\ spawner[s].pc = "ready"
  /\ LET r == spawner[s].run
     IN /\ Append1("dispatched", r)
        /\ worker' = [worker EXCEPT ![r].pc = IF @ = "waiting" THEN "busy" ELSE @]
  /\ Goto(s, "idle")
  /\ UNCHANGED <<exists, spawns, fallback, windows, live, others>>

Spawn(s) ==
  \/ CheckWindow(s) \/ CheckFile(s) \/ Truncate(s) \/ Launch(s) \/ LaunchFails(s)
  \/ Spawned(s) \/ Keys(s) \/ Breaks(s) \/ Dispatched(s)

-----------------------------------------------------------------------------
(* The worker: it appends to the file it can reach, and after an attention *)
(* line it waits to be steered or closed.                                  *)

Says(r, kind) ==
  IF setting.sandboxed THEN fallback' = Append(fallback, Text(kind, r)) /\ UNCHANGED status
               ELSE Append1(kind, r) /\ UNCHANGED fallback

Work(r) ==
  /\ r \in live /\ worker[r].pc = "busy" /\ worker[r].lines < setting.maxWorking
  /\ Says(r, "working")
  /\ worker' = [worker EXCEPT ![r].lines = @ + 1]
  /\ UNCHANGED <<exists, spawns, windows, live, spawner, others>>

Report(r) ==
  /\ r \in live /\ worker[r].pc = "busy"
  /\ \E kind \in {"blocked", "ready"} :
       /\ Says(r, kind)
       /\ worker' = [worker EXCEPT ![r].pc = kind]
  /\ UNCHANGED <<exists, spawns, windows, live, spawner, others>>

\* A one-shot worker exits when it has reported; its window remains.
Leave(r) ==
  /\ r \in live /\ setting.oneShot /\ worker[r].pc \in {"blocked", "ready"}
  /\ live' = live \ {r}
  /\ UNCHANGED <<exists, status, fallback, spawns, windows, worker, spawner, others>>

\* Any worker can die; remain-on-exit keeps its window.
Die(r) ==
  /\ r \in live /\ worker[r].pc # "ready"
  /\ live' = live \ {r}
  /\ UNCHANGED <<exists, status, fallback, spawns, windows, worker, spawner, others>>

-----------------------------------------------------------------------------
(* The coordinator's scripts *)

\* fleet-complete: done or failed, at any time and again.
Complete ==
  /\ "close" \in Tools /\ exists /\ Verdicts(status) < setting.maxVerdicts
  /\ \E verdict \in {"done", "failed"} : Append1(verdict, 0)
  /\ UNCHANGED <<exists, fallback, spawns, windows, live, worker, spawner, others>>

\* fleet-steer: a steered: line and keys to the window; a worker that asked
\* goes on.
Steer ==
  /\ "steer" \in Tools /\ steers < setting.maxSteers
  /\ exists /\ windows # {}
  /\ steers' = steers + 1
  /\ Append1("steered", 0)
  /\ worker' = [r \in Runs |->
       IF r \in live /\ worker[r].pc = "blocked"
       THEN [worker[r] EXCEPT !.pc = "busy"] ELSE worker[r]]
  /\ UNCHANGED <<exists, fallback, spawns, windows, live, spawner,
                 watch, watches, archiver, dog>>

\* The coordinator kills the window of a closed task by hand.
CloseWindow(w) ==
  /\ "close" \in Tools /\ w \in windows /\ Closed(status)
  /\ KillWindow(w)
  /\ UNCHANGED <<exists, status, fallback, spawns, worker, spawner, others>>

\* fleet-archive: an attention line old enough, ...
ArchiveReads ==
  /\ "archive" \in Tools /\ archiver = "idle"
  /\ exists /\ Attention(LastLine(status))
  /\ archiver' = "kill"
  /\ UNCHANGED <<exists, status, spawns, spawner, world, watch, watches, steers, dog>>

\* ... a window of that name is killed if there is one, ...
ArchiveKills ==
  /\ archiver = "kill"
  /\ \/ windows = {} /\ archiver' = "idle" /\ UNCHANGED <<windows, live>>
     \/ \E w \in windows : KillWindow(w) /\ archiver' = "mark"
  /\ UNCHANGED <<exists, status, fallback, spawns, worker, spawner,
                 watch, watches, steers, dog>>

\* ... and an archived: line is appended.
ArchiveMarks ==
  /\ archiver = "mark"
  /\ Append1("archived", 0)
  /\ archiver' = "idle"
  /\ UNCHANGED <<exists, spawns, spawner, world, watch, watches, steers, dog>>

\* fleet-watchdog: the last line is no verdict and no escalation, ...
DogReads ==
  /\ "watchdog" \in Tools /\ dog.pc = "idle"
  /\ exists /\ ~Skipped(LastLine(status))
  /\ dog' = [pc |-> "check", run |-> 0]
  /\ UNCHANGED <<exists, status, spawns, spawner, world, watch, watches, steers, archiver>>

\* Mutant: without a pid the task counts as dead.
DogChecksAnyPid ==
  /\ dog.pc = "check"
  /\ LET r == PidIn(status)
     IN dog' = IF r \notin live THEN [pc |-> "write", run |-> r]
                                ELSE [pc |-> "idle", run |-> 0]
  /\ UNCHANGED <<exists, status, spawns, spawner, world, watch, watches, steers, archiver>>

\* ... the pid of the last spawned: line is gone, ...
DogChecks ==
  /\ dog.pc = "check"
  /\ LET r == PidIn(status)
     IN dog' = IF r # 0 /\ r \notin live THEN [pc |-> "write", run |-> r]
                                        ELSE [pc |-> "idle", run |-> 0]
  /\ UNCHANGED <<exists, status, spawns, spawner, world, watch, watches, steers, archiver>>

\* ... so the task failed.
DogWrites ==
  /\ dog.pc = "write"
  /\ Append1("died", dog.run)
  /\ dog' = [pc |-> "idle", run |-> 0]
  /\ UNCHANGED <<exists, spawns, spawner, world, watch, watches, steers, archiver>>

-----------------------------------------------------------------------------
(* fleet-watch *)

still == <<exists, spawns, windows, live, worker, spawner, watches,
           steers, archiver, dog>>

\* The coordinator arms a watch, as a rule once fleet-spawn has succeeded.
Arm ==
  /\ watch.pc = "off" /\ watches < setting.maxWatches
  /\ \/ setting.earlyWatch
     \/ Has(status, {"dispatched"}) /\ \A s \in Spawners : spawner[s].pc = "idle"
  /\ watches' = watches + 1
  /\ watch' = [NoWatch EXCEPT !.pc = "wait"]
  /\ UNCHANGED <<exists, status, spawns, spawner, world, steers, archiver, dog>>

\* The file is there: the worker's directory is read from its spawned: line.
Open ==
  /\ watch.pc = "wait" /\ exists
  /\ watch' = [watch EXCEPT !.pc = "bridge",
                            !.bridges = Has(status, {"spawned", "spawned?"})]
  /\ UNCHANGED <<still, status, fallback>>

\* bridge_fallback: new lines of .fleet-status are appended to the status file.
Bridge ==
  /\ watch.pc = "bridge"
  /\ IF watch.bridges
     THEN /\ status' = status \o SubSeq(fallback, watch.taken + 1, Len(fallback))
          /\ watch' = [watch EXCEPT !.pc = "count", !.taken = Len(fallback)]
     ELSE status' = status /\ watch' = [watch EXCEPT !.pc = "count"]
  /\ UNCHANGED <<still, fallback>>

Count ==
  /\ watch.pc = "count"
  /\ watch' = IF Len(status) > watch.last
              THEN [watch EXCEPT !.pc = "print", !.cur = Len(status)]
              ELSE [watch EXCEPT !.pc = "sleep"]
  /\ UNCHANGED <<still, status, fallback>>

\* Mutant: lines that arrive after the count are printed now and again later.
PrintsAll ==
  /\ watch.pc = "print"
  /\ watch' = [watch EXCEPT !.pc = "tail", !.last = watch.cur,
                            !.out = @ \o SubSeq(status, watch.last + 1, Len(status))]
  /\ UNCHANGED <<still, status, fallback>>

\* sed prints the lines counted; the file may have been truncated meanwhile.
Prints ==
  /\ watch.pc = "print"
  /\ LET upto == IF watch.cur <= Len(status) THEN watch.cur ELSE Len(status)
     IN watch' = [watch EXCEPT !.pc = "tail", !.last = watch.cur,
                               !.out = @ \o SubSeq(status, watch.last + 1, upto)]
  /\ UNCHANGED <<still, status, fallback>>

\* tail reads the last line there is now: an attention state ends the watch.
Tails ==
  /\ watch.pc = "tail"
  /\ watch' = IF Attention(LastLine(status)) THEN NoWatch
              ELSE [watch EXCEPT !.pc = "sleep"]
  /\ UNCHANGED <<still, status, fallback>>

Sleeps ==
  /\ watch.pc = "sleep"
  /\ watch' = [watch EXCEPT !.pc = "bridge"]
  /\ UNCHANGED <<still, status, fallback>>

WatchStep == Open \/ Bridge \/ Count \/ Prints \/ Tails \/ Sleeps

-----------------------------------------------------------------------------
Step ==
  \/ \E s \in Spawners : Spawn(s)
  \/ \E r \in Runs : Work(r) \/ Report(r) \/ Leave(r) \/ Die(r)
  \/ Complete \/ Steer \/ \E w \in windows : CloseWindow(w)
  \/ ArchiveReads \/ ArchiveKills \/ ArchiveMarks
  \/ DogReads \/ DogChecks \/ DogWrites
  \/ Arm \/ WatchStep

Next == Step /\ UNCHANGED setting

Spec == Init /\ [][Next]_vars

\* fleet-watch is a loop of short commands; nothing in it waits for others
\* for ever but the file it waits for.
FairSpec == Spec /\ WF_vars(WatchStep /\ UNCHANGED setting)

-----------------------------------------------------------------------------
(* Properties *)

\* fleet-spawn: "Open status file for a task id = refused (fresh id for
\* retries)": a task id never has two workers at a time.
OneWorkerPerTask == Cardinality(live) <= 1 /\ Cardinality(windows) <= 1

\* The log of a task nobody has closed is never thrown away, whatever the
\* scripts append between fleet-spawn's check and its truncation.
OpenLogKept ==
  [][status' = <<>> /\ status # <<>> => Has(status, Verdict)]_vars

\* README, fleet-watch: each line of the status file is printed once, in the
\* order of the file, while others append to it between any two commands.
PrintsEachLineOnce ==
  watch.pc \in {"bridge", "count", "print", "tail", "sleep"} =>
    watch.last <= Len(status) /\ watch.out = SubSeq(status, 1, watch.last)

\* fleet-watchdog: the worker whose pid a line "failed: worker died mid-task
\* (pid ... gone)" gives is gone, for good, whoever spawns, steers or archives
\* between the watchdog's reading of that pid and its line.
WatchdogFailsOnlyTheDead ==
  \A i \in DOMAIN status : status[i].kind = "died" => status[i].run \in Runs \ live

\* fleet-watchdog: "a task is declared dead ONLY when its worker pid is gone":
\* when its line is written, no worker of the task is alive.
DeclaredOnlyWhenDead == [][DogWrites => live = {}]_vars

\* README: fleet-watch "exits on ANY attention state": a worker that has
\* reported and waits does not wait for ever behind an armed watch.
Asking(r) == worker[r].pc \in {"blocked", "ready"}
AttentionReachesWatch == ~<>[](Watching /\ \E r \in Runs : Asking(r))

=============================================================================
