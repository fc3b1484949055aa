# zcode-axi in TLA+

zcode-axi is a command-line supervisor for the ZCode coding agent: it queues
briefs for the GUI, watches the GUI's window, asks the agent's app-server about
sessions, and comes with shell scripts that run a fleet of workers in tmux.
This directory holds TLA+ models of those parts, configurations that check them
with TLC, and theorems about them checked with TLAPS. Paths below are relative
to the repository.

## The system

| part | code | state it keeps | operations |
|---|---|---|---|
| GUI dispatch queue | `src/gui_queue.rs`, `cmd_run_gui` and `cmd_gui_queue_*` in `src/commands.rs` | a directory with one JSON file per request, temp files | enqueue, claim, list |
| screen watch | `src/watch.rs`, `classify.rs`, `notify.rs`, `tasks.rs` | last signature, streak and error counts, last state, alert times, cached task row | one loop: capture, compare, OCR, classify, report, alert, heartbeat |
| frame comparison | `src/framediff.rs` | none | signature, is_uniform, diff, downscale |
| campaign window | `src/window.rs` | none | civil dates, advice |
| app-server client | `src/proto.rs` | child process, reader thread, channel, next id | spawn, call, drop |
| wait | `cmd_wait` in `src/commands.rs` | deadline, "seen" flag | poll until idle, gone or late |
| cancel, sessions, inspect | `src/commands.rs` | none | one call each |
| headless run/resume, status | `src/runtime.rs`, `src/error.rs`, `src/main.rs`, `src/cli.rs` | none | probe the runtime, run a child, map its end to an exit code |
| session store, task index | `src/store.rs`, `src/tasks.rs` | databases of other programs | read-only queries |
| fleet | `fleet/fleet-*` | `state/<id>.status`, `.fleet-status`, tmux windows, pids | spawn, watch, archive, watchdog, complete, steer; digest, status, event read only |
| packaging | `packaging-watcher/` | a staged and an installed application bundle | compare, build, sign, verify, install; `build.sh` is its ad-hoc case |

How they interact. The queue's processes share nothing but the directory; none
takes a lock. The watch reads the screen, the task index (a `sqlite3` subprocess)
and two clocks, all of which move between its steps, and runs `hermes` for alerts.
The other commands start `zcode` again and again (to find out what it can do, as
an app-server, headless) and read its session store, both of which belong to
somebody else. `wait` opens an app-server per poll; the client talks to it over a
pipe, through a thread and a channel. The fleet's scripts and its workers share an
append-only file per task, a window name and process ids. The packaging script
replaces a bundle that macOS knows by its signature.

What is hard about it: processes that interleave between any two system calls
(queue, fleet); a crash, failed write or clock step in between; a value read
before and used after the world moved (prev_sig, the task cache, the last line
of a status file, a pid); answers that come late, in the wrong order or never,
and threads and children that outlive the call they serve (app-server);
timeouts that race them; limits met exactly (streaks, windows, deadlines,
blocks). The list of hazards, each at its line, is in `PROJECT.json`.

What makes each part correct:

* queue: a confirmed request is never lost or overwritten, a confirmed claim is
  never undone, listings and claims see what was confirmed before they began;
* watch: it reports the transitions it saw, in a chain; it follows a screen that
  settles; alerts and queries are spaced; it gives up exactly at its limits;
* app-server client: a call returns its own answer, a failure, or a timeout after
  the whole budget; nothing outlives the client;
* wait: what it reports was so, and it ends in time;
* the commands: an exit code says what its documentation says of it, a limit that is
  dropped is warned of, a session too long to print is hinted at, and no command
  hangs on a server;
* packaging: what is installed was signed, and a rebuild signed alike keeps the
  grant;
* fleet: one worker per task, no open log thrown away, every line printed once,
  a worker that asks is noticed, the worker a verdict names as dead is dead;
* algorithms: the comparison sees areas, the dates are the calendar's.

## Modules

| module | models | built on |
|---|---|---|
| `DispatchLane` | abstract: a request is absent, queued, claimed, in that order | |
| `GuiQueue` | the queue, each file-system call a step | refines `DispatchLane` |
| `GuiQueue_proofs` | theorems about `GuiQueue`: its types, its writes, its names | |
| `GuiQueueLane_proofs` | theorems about what its users see, the refinement among them | extends `GuiQueue_proofs` |
| `Watch` | the watch loop and its environment | |
| `WatchLimits` | the loop with a record of its captures and readings, to judge its counters by | extends `Watch` |
| `Watch_proofs` | theorems about `Watch` and `WatchLimits` | |
| `RoundTrip` | abstract: what a caller of the app-server client is promised | |
| `AppServer` | child, reader thread, channel and caller | refines `RoundTrip` |
| `AppServer_proofs` | theorems about `AppServer`, the refinement among them | |
| `Wait` | the steps of `cmd_wait` | extends `RoundTrip` |
| `Commands` | every command that uses the zcode runtime, from `main` to its exit code | extends `Wait` |
| `Commands_proofs` | theorems about `Commands` | |
| `Signing` | `sign-with-identity.sh`, run after run | |
| `Signing_proofs` | theorems about `Signing` | |
| `Fleet` | one task id and all scripts that touch it | |
| `Fleet_proofs` | theorems about `Fleet` | |
| `FrameDiff`, `Calendar` | the pure algorithms, as operators | |
| `Algorithms` | their inputs as states, and their properties | both |
| `Algorithms_proofs` | theorems about the operators and the properties | |
| `MC*` | small instances for TLC | |

### GuiQueue

`dir` is the set of `*.json` files, `tmp` the temp files, `proc[p]` the locals
and program counter of the process that actor `p` runs. `enqueue` is
`StartEnqueue` (the stamp is read from the clock), `Probe` (one `exists` of
`unique_stem` each), `Build`, `WriteTemp`, `Rename`, `PrintId`; `claim` is
`StartClaim` (the directory is listed once), `Scan` (one file read each), then
the same temp file and rename, or `NotFound`; `list` is `StartList`, `ListNext`,
`ListDone`. `Crash` and `WriteFails` may end a process at any of these points and
leave the temp file behind. A file name is `<<second, name>>` and a name a
sequence of tokens, so that the suffix `-2` of one slug and a slug that ends in
`-2` are one name, as on disk; `TextRank` is the byte order `json_files` sorts by.
`acked` and `claims` are histories of what was printed.

### Watch

`pc` walks `gate`, `top` (capture), `ocr`, `send`, `emit`, `beat`, `ended`. The
actions `ScreenChanges`, `IndexChanges`, `Tick` and `SetWall` are the world.
`HandleText` is the first part of `handle_text`, up to the limiter, which the code
consults whether or not alerts are on; the task cache is read in three places, so
`HandleText`, `SendAlert` and `Emit` each may refresh it. A frame is a model
value; `ReadsAs` gives the marker sets OCR may read on it, `Near` the frames below
the change threshold, `Uniform` the solid ones. `MCWatch` draws each frame as a
small picture and assumes (`PictureAssumption`, evaluated by TLC) that `Near` and
`Uniform` are what `FrameDiff` computes for the pictures. The monotonic clock and
the wall clock are separate: the limiter uses the second. `GateFailures` is only
the two ways the gate can end the command; which window it chooses is not
modelled.

`WatchLimits` adds the last captures and the last answers of OCR, up to the limits,
as histories that no step depends on: whether the loop gave up in time, or too soon,
can be told only from what it has seen, not from the counters it keeps itself. The
runs check the loop with this record, which every run of `Watch` has.

### AppServer, RoundTrip

A frame is its kind and the id it carries. Each client has a child, a pipe
(`stdout`), a reader thread and the channel `frames`; `Recv` is one turn of the
loop in `call`, which skips frames of other requests, fails on an error, a line
that does not parse or the end of the stream, and takes a queued frame even when
the budget is spent, as `recv_timeout` does; `TimeOut` needs an empty channel.
`Ended` is what ends a reader thread: no more lines from a dead child, or `eof`, a
closed pipe or a line that is not UTF-8 under a child that lives.
`RoundTrip` hides the frames: a call that was `served` may end with an answer or
a refusal, any call may fail, and one whose budget is spent may time out.

### Wait, Commands

A behaviour of `Commands` is one run of the program. `cmd` is the command line
(name, is the session id well formed, `--full`, `--max-turns`), `pc` the place in
the command: `start` (`Runtime::discover` and the id), for `status` `version` and
`doctor`, for `resume` `exists`, for a headless run `probe` (`supports_max_turns`)
and `launch`, for `inspect` `find`, `count`, `read` (three queries of the store),
then `poll`, `ask`, `asked` for the app-server, and `print` or `stored`. `Wait`
holds the loop of `wait`; its calls are the actions of `RoundTrip`, which the
other commands use too. `zcode` (replaced or removed at any time), `store` (rows
and messages come and go, the file changes its state) and `session` are the world;
what a command never looks at is fixed. The store's file is missing, closed (it
cannot be opened), locked (it opens, its queries fail) or ok; `resume` asks only
one that `Opens`. `WaitsForChild` holds while a command waits for a zcode process.
`child` ends with one of `Fates`, which are the ends `classify_run_failure` tells
apart. `stores`, `swapped`, `during` and `before` are histories.

### Signing

`pc` walks through the commands of the script; `Fails` stops it before any of them
(`set -e`, an interrupt), and `Ditto` takes two steps with half a bundle between
them. A certificate is a name and a serial number; the names asked for match a
part of it, as `codesign --sign` does. `Designator` is what the script can read
off a signature: a name of the certificate, or `unsigned-or-unknown` when
`codesign -dv` prints no `Authority=` line. `Requirement` is the designated
requirement of a signature (the certificate's, or the very build's if ad hoc) and
the grant macOS keeps is for one; both are external, as is the user.

### Fleet

`status` is the status file as lines of a kind and the spawn they belong to. Each
command of a script that reads or writes shared state is a step: `fleet-spawn` is
`CheckWindow`, `CheckFile`, `Truncate`, `Launch`, `Spawned`, `Keys` (the pointer
is typed into a TUI), `Dispatched`, and ends early in `LaunchFails` (no window) or
`Breaks` (a later tmux command fails: the worker stays, its lines do not come);
`fleet-watch` is `Open`, `Bridge`, `Count`, `Prints`, `Tails`, `Sleeps`;
`fleet-archive` `ArchiveReads`, `ArchiveKills`, `ArchiveMarks`; `fleet-watchdog`
`DogReads`, `DogChecks`, `DogWrites`; `fleet-complete` and `fleet-steer` are one
step each, and `fleet-complete` asks nothing but that the file is there. tmux, the
worker and the coordinator are external. `setting` says what kind of worker runs
(sandboxed, one-shot, stamping its lines), how many times it is spawned and
steered, and which scripts run beside it; it is chosen at the start among the
constant `Settings` and never changes.

### FrameDiff, Calendar, Algorithms

The formulas of the code, with exact fractions for `f32`/`f64` (they differ only
where a quotient is exactly half or whole). `Algorithms` enumerates inputs as
initial states; for dates it also walks day by day beside a date advanced by the
calendar's own rule, which is the reference the formulas are compared with.

## Runs

Passing runs:

| run | shows | bounds, and why they are enough |
|---|---|---|
| `queue` | no confirmed request lost, writes disciplined, the lane implemented | two enqueuers with disjoint names (one with `alpha` and `alpha-2`), one driver, a stray file on the first name, two requests, one fault, two seconds, one step back of the clock: each pair of operations interleaves and each step can be the one that fails |
| `queue_claims` | claims stick, listings are current and in the order of their seconds, claims are current, every enqueue, claim and listing ends | one enqueuer with one brief, a stray file on its first name, so that two requests of one second take two suffixes, and two actors that claim and list at once; no faults; two seconds of the clock, so names collide within one and are ordered across both |
| `watch_loop` | the loop gives up exactly at its limits, spacing of alerts and queries, chain of reports | three frames (busy, finished, solid), failing captures, OCR and index, clock up to 3 with an alert window and a refresh of 2, both limits 2, so that a good frame falls between two bad ones: each boundary is met and passed |
| `watch_live` | a settled screen is tracked | six frames, wall clock set back and forth by a window, a blinking cursor below the threshold; the monotonic clock is kept at 0, which only makes alerts rarer and never affects what is read |
| `fleet` | one worker per task, open logs kept, lines printed once, who is named dead is dead, a report is noticed | a worker at its console beside the tools two by two: archive, watchdog, `close` with two spawns; archive, steer, `close`; watchdog, steer, `close` with two spawns and one answer; and a sandboxed one-shot worker under two watches one after the other and the watchdog |
| `appserver` | the client implements `RoundTrip`, no orphan, timeouts mean silence, calls and threads end | two clients in a row, two calls each, budget 2, one unasked frame per server: late answers meet the next call and a dropped client |
| `commands` | outcomes and exit codes are true, `wait` ends in time, --max-turns never fails a run, resume asks the store it can open, long sessions are hinted at, every command ends that waits for no zcode process | timeout 5, pause 2, call budget 3: the deadline falls in a poll and in a pause that is cut short; three changes of the world; a limit of 2 messages with up to 4 there: below it, at it, beyond it |
| `signing` | what is installed was signed, "unchanged" means the same signature, a rebuild with the same certificate keeps the grant | three runs of the script, so that an interrupted one lies between two; two certificates, of one name or of two of which one is part of the other |
| `algorithms` | comparison, dates, advice | a 4 by 3 grid with frames narrower, equal, larger and not a multiple; 430 days from each of five dates, so leap days, 2000 and 2100, the epoch and the campaign |

`fleet`, `watch_loop`, `watch_live`, `appserver`, `commands`, `signing` and
`algorithms` are run without deadlock check: the loop of `watch` ends, a task is
closed, a command ends, clients, changes, runs and inputs run out. `queue` and
`queue_claims` check it.

Runs that find the code in disagreement with its documents:

* `queue_race`: two processes enqueue the same slug in one second; both probe,
  both find the name free, and the second `rename` replaces the first request
  after it was confirmed (`gui_queue.rs:121`).
* `watch_ocr_loss`: `prev_sig` takes a frame before it is read. When OCR fails on
  the last change, the frame counts as seen and the state is never corrected,
  although failures below the limit are "tolerated" (`watch.rs:395`).
* `fleet_masked`: a worker that reports before `fleet-spawn` has written
  `dispatched:` is hidden behind that line for `fleet-watch`, which looks only at
  the last one (`fleet-watch:69`).

Further configurations, one property each, which TLC finds violated when they are run
by hand (`tlc -config <config> <module>`). Each is the part of a document's claim that
the passing property of the same subject has to leave out:

* `MCGuiQueueOrder.cfg` of `MCGuiQueue` (`NewestFirst`, beside `ListingIsCurrent`): of
  two requests of one second the listing shows the older first, as `name-2.json` sorts
  below `name.json` and slugs go by the alphabet (`gui_queue.rs:155`); README and
  `json_files` say "newest first".
* `MCFleetWatchdog.cfg` of `MCFleet` (`DeclaredOnlyWhenDead`, beside
  `WatchdogFailsOnlyTheDead`): between `ps` and the `failed:` line the task is closed
  and its id spawned anew; the line lands on the log of a worker that lives
  (`fleet-watchdog:27`), though "declared dead ONLY when its worker pid is gone".
* `MCCommandsResume.cfg` of `MCCommands` (`SessionIsFound`, beside
  `ResumeNeedsASession`): a store that is missing or cannot be opened is passed over
  (`commands.rs:192`), and zcode is started for a session nobody has found.
* `MCCommandsInspect.cfg` of `MCCommands` (`OmissionsAreHinted`, beside
  `LongSessionsAreHinted`): a message written between the two queries of a session
  with exactly the limit pushes the oldest out of the output, while the number
  counted before equals the number shown: no hint (`commands.rs:578-585`), though
  "Truncation always prints a hint" (`SWARM-REPORT.md:46`).
* `MCSigningAdHoc.cfg` of `MCSigning` (`UnchangedKeepsGrant`, beside
  `GrantOutlivesRebuild`): for an ad-hoc build over an ad-hoc bundle the script prints
  "unchanged — Screen Recording grant should survive this build"
  (`sign-with-identity.sh:187`), against its own header: macOS knows such a bundle by
  the build itself.
* `MCAlgorithmsEvening.cfg` of `MCAlgorithms` (`NextIsAnOpening`, beside
  `AdviceIsRight`): from 22:00 on the last day the advice names the next noon,
  when the campaign is over (`window.rs:158` against the comment at 124).

## Fairness

* queue: `WF` of the steps of each started process. Only `ProcessEnds` uses it:
  a process that runs is scheduled. Starting a process and the clock are not fair.
* watch: `WF` of the loop. It is one thread that blocks only in subprocesses and
  sleeps that end; a failing capture, the screen, the index and both clocks owe
  nothing.
* fleet: `WF` of `fleet-watch`'s commands. No other script and no worker is fair:
  the property quantifies over what they did.
* app-server: `WF` of the caller's receive loop, of each reader thread, and of the
  clock. The server owes nothing. Finitely many unasked frames: see below.
* commands: `WF` of the command's own steps and the clock, but not while it waits
  for a zcode process: `zcode --version`, `doctor`, the probe for `--max-turns`
  and a headless run have no time limit (`runtime.rs:48,62,88,116`) and may take
  for ever, so `CommandEnds` asks nothing of a command that waits for one.
  Servers, sessions, the store and zcode owe nothing (a call may also fail or time
  out).
* signing: none; the script may stop anywhere.

## Proofs

`GuiQueue_proofs`, for every set of processes, briefs, stray files and clock:

* `TypeCorrect`. Typing alone is not inductive: a rename installs what the
  process finds under its temp name and a scan reads a file of its snapshot, so
  the invariant carries `TempsOwned` (at a rename, the temp file is there and is
  the process's own) and `SnapshotsExist` (no file of a snapshot disappears).
* `WriteDisciplineHolds`, and from it `ConfirmedRequestsStay`,
  `ConfirmedClaimsStick` and `DisjointNamesNeverCollide`, under the assumption
  `DisjointNames`: no two actors enqueue briefs whose possible names coincide.
  The assumption is needed, as `queue_race` shows. What is wanted
  (`ConfirmedStaysQueued`) says nothing of processes half way; `Discipline` adds
  what holds at each program point: a name found free is still free at the rename
  because only this actor can use it; a claim rewrites the file it read, with the
  request it read; what is about to be printed is on disk. One lemma says what
  each step does to the directory (`DirStep`), one that others' steps keep an
  actor's discipline, one that its own do.

`GuiQueueLane_proofs`, for the same:

* `ConfirmedAreClaimable`, without any assumption on names: even where two names
  collide, the file that took a name carries that name's id. The invariant
  `Findable` says that every confirmed id has a readable file, that what is about to
  be printed has one, and that a scan whose id was confirmed before it still has the
  file in front of it.
* `ListingsAreCurrent`, under `DisjointNames`, from `ListingsSoFar`: what is shown so
  far, together with what is left to read, holds what was due; what is left comes
  after what is shown, in the order of seconds; and a confirmed claim is never
  shown as open, because files only go from queued to claimed.
* `LaneImplemented`: under `DisjointNames` `GuiQueue` implements `DispatchLane`. Each
  rename maps to an enqueue, a claim or (a claim repeated) a stutter, every other
  step to a stutter. This needs `RequestsApart`, that each request is in one file or
  with one process: only then is "the status in the file of the request" a
  refinement mapping. Without `DisjointNames` it fails, as `queue_race` shows.

`Watch_proofs`, for every set of frames, every limit and clock:

* `TypeCorrect`; `ReportsAreCurrent` and `EventsFormAChain`, from an invariant
  that also relates the pending report to the last printed event;
  `RefreshesAreSpaced`.
* `LimitsHold`, of the loop with its record (`RecordedSpec`): it gives up at its
  limits, neither sooner nor later. `Counted` says that each counter is the number
  of black captures, or failed readings, at the front of the record.
* `AlertsAreSpaced` and `SuppressionHasACause`, under `WallSteps = {}` (nobody sets
  the wall clock), from `LimiterAgrees`: the limiter's marks are then the real
  times of the alerts.

`AppServer_proofs`, for every budget, any number of clients, calls and unasked
frames:

* `RoundTripImplemented`: `AppServer` implements `RoundTrip`, and with it
  `TypeCorrect`, `NoServerIsOrphaned` and `TimeoutsMeanSilence`. That a call never
  ends with a false answer is not inductive, as the frame it takes was written
  long before; `Answered` says of every frame on its way, in the pipe or in the
  channel, that it is honest: the request it names is below `next_id` and no
  longer open. `Untouched` keeps new clients apart from old ones, and `EndIsTold`
  says that the channel holds the end of the stream when its reader has ended, so
  that a timeout without it has used up the budget.

`Commands_proofs`, for every limit and any changes of the world:

* `OutcomesAreTrue` and `CommandsEndInTime` for `wait`, from `Witnessed` (what the
  histories hold while the last poll is under way) and `Timely` (the time passed
  and what is left of the call never exceed the deadline by more than one budget).
* `ExitCodesAreTrue`, `TurnLimitsNeverFail`, `ResumesNeedASession` (of a store
  that is there and opens; else see `MCCommandsResume.cfg`) and
  `LongSessionsHaveHints` (of a session too long throughout; else see
  `MCCommandsInspect.cfg`), from `Headless`, `Limited`, `Refusals` and
  `FromStore`, one for each thing a command decides early and relies on later;
  `Placed` and `Ordered` say which steps belong to which command. Every step of
  the client is one of `RoundTrip` (`NextRT`), so what `AppServer_proofs` shows is
  what these rely on.

`Signing_proofs`, for every set of certificates and names, any number of runs:

* `InstalledIsAlwaysSigned`, from `InPlace`: what is installed and what is staged,
  command by command.
* `GrantsOutliveRebuilds` (of certificates; for ad-hoc builds see
  `MCSigningAdHoc.cfg`), from `Compared` (what was said before the build),
  `SignedAlike` (what the signature then is, which needs `Aged`: a new certificate
  is never one that was there) and `Kept` (whose the grant is).

`Fleet_proofs`, for every set of settings and so for any mix of scripts, numbers of
spawns, steers and watches:

* `TypeCorrect`, with `SpawnsApart`: fleet-spawn runs that overlap have numbers of
  their own, which is what makes a pid in a line mean one worker.
* `OnlyTheDeadAreFailed`, for any number of fleet-spawn runs at once: the pid in a
  `failed:` line is a dead worker's, though the log may be another's by then
  (`MCFleetWatchdog.cfg`). That the log names only dead workers as dead is not
  inductive, as the watchdog reads, checks and writes in three steps;
  `NamedWereStarted` adds that whoever a `spawned:` line names was started, so
  that one found gone between the reading and the writing cannot still come to
  life.
* `OneWorkerAtATime` and `OpenLogIsKept`, under `OneSpawner` (one fleet-spawn at a
  time; two at once do fail, see below). `AtMostOneWindow` carries the answer of
  "no window" from fleet-spawn's question to its own launch, past everything that
  archive, the watchdog, `steer` and the worker do between; `LogEnds` carries the
  verdict on the last line to the truncation, past everything they append.
* `LinesPrintedOnce`: fleet-watch prints each line once, in order, whoever appends
  between its count, its `sed` and its `tail`, as long as no fleet-spawn begins the
  file anew under an armed watch (`NoRestartWatched`). That condition is needed: a
  new file is shorter than the watch's count of the old one. `FreshIdsPrintedOnce`
  derives it from the rule that fleet-spawn states, "fresh id for retries"
  (`FreshIds`: a watched id is spawned once), for any number of fleet-spawn runs.

`Algorithms_proofs`, for every grid, threshold, frame, colour and day:

* `EveryPixelCounts` and `ShrinksInOrder`, from bounds of the rounded divisions
  (`SpanIs`, `InOrder`): no frame size, smaller than the grid included, leaves a pixel
  out or makes a block empty, and no factor makes two lines of a shrunk picture the
  same one.
* `ChangesAreAreas`: what a test with pictures can only sample. `SumIs` evaluates the
  fold over a block's pixels when all are alike: the fold is a recursive function
  chosen by its equation, and a least counterexample takes the place of induction.
* `FormulaIsCalendar` and `OnlyCalendar`: the closed formulas of `window.rs` go from
  each date to the next one by the rule of months and leap years, for every day
  before and after 1970, they are each other's inverse, and there is no other
  function that does. `YearParts` and `DayParts` split a day into 400 years,
  centuries, four-year cycles and years; `YearOfDay` is the formula's one hard step,
  that the year falls out of one division. `WalksAgree` gives `CivilIsCalendar` for
  walks of any length from days of the calendar.
* `AdviceAt`: the advice is right at every second of every year, but for the next
  opening on the last evening (`MCAlgorithmsEvening.cfg`); `AdviceFollows` gives
  `AdviceIsRight` from it, of the seconds the run looks at in walks of any length.
  `FirstOpening` has to be the first second of the campaign
  (`OpeningIsRight`: 2026-09-03 12:00 at UTC-3), which is what the run sets it to.

Each theorem rests on the named assumptions of its module's constants only, except
the ones above that name `DisjointNames`, `WallSteps = {}`, `OneSpawner`,
`NoRestartWatched`, `FreshIds`, a calendar or `OpeningIsRight`. The passing runs
that check the properties of these theorems satisfy what they assume.

Only model-checked: liveness (`ProcessEnds`, `SettledScreenIsTracked`,
`AttentionReachesWatch`, `CallsAndReadersEnd`, `CommandEnds`), as fairness is out of
the prover's reach. Every invariant and action property of the passing runs, and
both refinements, are proved.

## What the models leave out

* The layout of JSON, events and messages; logging; evidence dumps; the frame
  hash. OCR and capture are nondeterministic results.
* Argument parsing beyond what decides a command's way, rendering, truncation of
  texts, `--dry-run`, `--app`, the SQL of the databases.
* Revoking the Screen Recording grant, and two runs of the packaging script at once.
* fleet-watch's `--timeout`, a window that tmux renames before `fleet-spawn` has
  pinned its name (182-185), fleet-archive's dialog scan, pid reuse, worker logs.
* A pipe that is full: requests are small. An unbounded stream of foreign frames,
  which can hold a call past its budget because a queued frame is always taken.

Seen while modelling, with no run of their own:

* Two concurrent `fleet-spawn` runs for one id both pass the checks
  (`fleet-spawn:89-103`); with two `Spawners`, `OneWorkerPerTask` fails.
* `fleet-spawn:96` calls an archived id reusable, but the last line is then
  `archived:`, which its test refuses. After a failed launch the empty status file
  makes the id unusable.
* `fleet-watchdog:23` skips neither `ready-for-review:`, so that a one-shot worker
  that finished is written off (README of the fleet, line 66, calls it the success
  path), nor `archived:`, nor lines with a time stamp.
* `fleet-watch` reads the worker's directory once (46) and starts at line 0 of the
  fallback file each time it is armed (48), which bridges lines again.
* `fleet-watch:76,82` call `fleet-event.sh`; the script is `fleet-event`.
* The limiter uses the wall clock (`watch.rs:508`): set forward, a second alert
  comes at once.
* An event can name a task other than the one its confidence came from
  (`watch.rs:539`).
* A reader thread that cannot start leaves the child running (`proto.rs:161`).
* A single failing poll ends `wait` (`commands.rs:672`); `Instant + Duration` panics
  for a huge `--timeout` (669).
* `sessions --json` gives the number shown as the total when the server is live
  (`commands.rs:487`).
* No zcode process has a time limit (`runtime.rs:48,62,88,116`); when zcode-axi is
  killed, `zcode -p` goes on.
* The packaging script can say CHANGED of the very same certificate: plain
  `codesign -dv` may print no `Authority=` line (`sign-with-identity.sh:123-128`),
  while its README asks for consent "if (and only if)" the identity changed.
  Consenting again does no harm, and what codesign prints is its own, so no run
  states it.
* When a tmux command fails after the window is there, `fleet-spawn` leaves a worker
  without its `spawned:` or `dispatched:` line (182-237).

## Plan

Done: the queue, the watch loop, the app-server client, every command that uses the
zcode runtime, the scripts of the fleet that write, the packaging script, the
comparison and the calendar; the abstract `DispatchLane` and `RoundTrip`; the
theorems above.

Next models: the slugs of `gui_queue.rs` and the matching of OCR text in
`classify.rs`, as operators; `fleet-watch --timeout` and the dialog scan of
`fleet-archive`; two task ids that share one fallback file.

Next proofs: which invariants of `Fleet` hold when two fleet-spawn runs overlap (one
worker per spawn instead of one per task); that `Shrink` keeps a flat picture flat
and `Diff` is symmetric, so that `Near` of `Watch` can be any relation of that kind;
with the next models, that the names `unique_stem` gives start with the slug.
