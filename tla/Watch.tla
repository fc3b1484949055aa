------------------------------- MODULE Watch -------------------------------
(***************************************************************************)
(* `zcode-axi watch' (src/watch.rs): one loop that captures the ZCode      *)
(* window, OCRs the frames that changed, classifies the text, reports      *)
(* state transitions and sends rate-limited alerts.  The screen, the task  *)
(* index and the clocks move between any two of its steps.                 *)
(*                                                                         *)
(* A frame stands for its signature and what OCR can read on it; text is   *)
(* the set of classify.rs markers it contains.                             *)
(***************************************************************************)
EXTENDS Integers, FiniteSets

CONSTANTS
  Frames,        \* what a capture can show
  Uniform,       \* the frames with all blocks equal (solid black)
  ReadsAs,       \* ReadsAs[f]: the texts OCR can return for frame f
  Near,          \* Near[f]: the frames below the change threshold from f
  Rows,          \* rows of the task index, each [task, status]
  NoRow,         \* an empty index
  Notify,        \* "none" or "telegram" (--notify)
  Window,        \* RATE_LIMIT: spacing of alerts for one state
  Refresh,       \* TASKS_REFRESH: spacing of index queries
  Heartbeat,     \* HEARTBEAT: cadence of liveness events
  StreakLimit,   \* UNIFORM_STREAK_LIMIT
  OcrLimit,      \* OCR_ERROR_LIMIT
  Duration,      \* --duration-secs, or Never
  Never,         \* no duration; no time stamp yet
  OcrFails,      \* may OCR fail?
  IndexFails,    \* may the task-index query fail?
  WallSteps,     \* amounts the wall clock may be set by
  MaxClock,      \* bound on the monotonic clock
  MaxWall        \* bound on the wall clock when it is set

Markers == {"approval", "running", "done"}
States == {"awaiting_approval", "running", "done"}
Row == [task : Nat, status : {"completed", "other"}]

ASSUME WatchAssumption ==
  /\ Uniform \subseteq Frames
  /\ ReadsAs \in [Frames -> SUBSET SUBSET Markers]
  /\ Near \in [Frames -> SUBSET Frames]
  /\ Rows \subseteq Row /\ NoRow \notin Row
  /\ Notify \in {"none", "telegram"}
  /\ Window \in Nat /\ Refresh \in Nat \ {0} /\ Heartbeat \in Nat
  /\ StreakLimit \in Nat \ {0} /\ OcrLimit \in Nat \ {0}
  /\ Duration \in Nat \cup {Never} /\ Never \notin Nat
  /\ OcrFails \in BOOLEAN /\ IndexFails \in BOOLEAN
  /\ WallSteps \subseteq Int /\ MaxClock \in Nat /\ MaxWall \in Nat

VARIABLES
  screen,      \* environment: what the window shows
  row,         \* environment: most recently updated row of the task index
  clock,       \* monotonic clock (Instant)
  wall,        \* wall clock (SystemTime)
  pc,          \* where the loop is
  exit,        \* how the command ended
  started,     \* when the loop began
  frame,       \* the captured frame
  prev_sig,    \* the frame later captures are compared with
  fresh_run,   \* iterations = 0
  uniform_streak, ocr_errors,
  prev_state, states_seen,
  last_sent,   \* RateLimiter: wall time of the last alert of each state
  cache,       \* TasksCache: [latest, last_refresh]
  pending,     \* the transition being reported by handle_text
  last_beat,   \* when the last heartbeat was printed
  event,       \* history: the last `state' event printed
  beat,        \* history: the state named by the last heartbeat
  alerted      \* history: monotonic time of the last alert of each state

env == <<screen, row, clock, wall>>
vars == <<env, pc, exit, started, frame, prev_sig, fresh_run, uniform_streak,
          ocr_errors, prev_state, states_seen, last_sent, cache, pending,
          last_beat, event, beat, alerted>>

-----------------------------------------------------------------------------
(* classify.rs *)

\* A permission dialog beats the status line, which beats the transcript.
Classify(text) ==
  IF "approval" \in text THEN "awaiting_approval"
  ELSE IF "running" \in text THEN "running"
  ELSE IF "done" \in text THEN "done"
  ELSE "unknown"

\* Mutant: the confidence is the status found in the index.
ConfidenceIsStatus(state, latest) ==
  IF state = "done" /\ latest # NoRow THEN latest.status ELSE "ocr"

\* The index corroborates `done'; it never proves anything alone.
Confidence(state, latest) ==
  IF state = "done" /\ latest # NoRow /\ latest.status = "completed"
  THEN "ocr+tasks" ELSE "ocr"

(* notify.rs *)

\* Mutants of Suppressed: the boundary one too early; one too late.
SuppressedBriefly(s) == last_sent[s] # Never /\ wall - last_sent[s] < Window - 1
SuppressedAtWindow(s) == last_sent[s] # Never /\ wall - last_sent[s] <= Window

\* `RateLimiter::check': too soon after the last alert for the state, by the
\* wall clock.  A clock behind the last alert saturates to no time at all.
Suppressed(s) ==
  /\ last_sent[s] # Never
  /\ wall - last_sent[s] < Window

(* TasksCache *)

\* Mutant: a cache with no row is never fresh.
FreshIfFilled(c) ==
  c.latest # NoRow /\ c.last_refresh # Never /\ clock - c.last_refresh < Refresh

IsFresh(c) == c.last_refresh # Never /\ clock - c.last_refresh < Refresh

\* tasks.rs: sqlite3 finds the most recent row; no database, a failed query or
\* rows that do not parse leave the old one.
LatestTask(old) == {row} \cup (IF IndexFails THEN {old} ELSE {})

\* What `latest' can leave in the cache: a fresh entry is served as it is; a
\* query that fails still counts as a refresh.
Refreshed(c) ==
  IF IsFresh(c) THEN {c}
  ELSE {[latest |-> r, last_refresh |-> clock] : r \in LatestTask(c.latest)}

Expired == Duration # Never /\ clock - started >= Duration

(* notify.rs, watch.rs: what the outside world can answer *)

\* How `send_telegram' ends: skipped when hermes is missing; not started, cut
\* off, lost or exiting with a status, it failed.
Sent == {"ok", "failed", "skipped"}

\* How the gate can end the command before the first capture: no consent, or
\* only system surfaces to enumerate; no ZCode window, or no enumeration.
GateFailures == {"permission", "runtime"}

(* The guards of the loop *)

\* Mutants: a good frame leaves the count; the first capture is not special.
NeverReset == IF screen \in Uniform THEN uniform_streak + 1 ELSE uniform_streak
Moved == screen \notin Near[prev_sig]

\* The uniform frames in a row, with the one on the screen.
Streak == IF screen \in Uniform THEN uniform_streak + 1 ELSE 0

\* A count that ends the command.
AtLimit(count, limit) == count >= limit

\* The captured frame goes to OCR: the first one does, changed or not.
Changed == fresh_run \/ screen \notin Near[prev_sig]

-----------------------------------------------------------------------------
NoEvent == [from |-> "unknown", state |-> "unknown", confidence |-> "ocr",
            evidence |-> NoRow, task |-> NoRow, notified |-> "none"]

Init ==
  /\ screen \in Frames /\ row \in Rows \cup {NoRow}
  /\ clock = 0 /\ wall = 0
  /\ pc = "gate" /\ exit = "none" /\ started = 0
  /\ frame = screen /\ prev_sig = screen /\ fresh_run = TRUE
  /\ uniform_streak = 0 /\ ocr_errors = 0
  /\ prev_state = "unknown" /\ states_seen = {}
  /\ last_sent = [s \in States |-> Never]
  /\ cache = [latest |-> NoRow, last_refresh |-> Never]
  /\ pending = NoEvent /\ event = NoEvent /\ beat = "unknown"
  /\ last_beat = 0
  /\ alerted = [s \in States |-> Never]

End(code) == pc' = "ended" /\ exit' = code

\* Permission, window lookup, OCR models, then the gate: the first capture
\* must not be uniform.
Gate ==
  /\ pc = "gate"
  /\ \/ \E code \in GateFailures : End(code)
        /\ UNCHANGED <<prev_sig, started, last_beat>>
     \/ screen \in Uniform /\ End("permission")
        /\ UNCHANGED <<prev_sig, started, last_beat>>
     \/ /\ screen \notin Uniform
        /\ prev_sig' = screen /\ started' = clock /\ last_beat' = clock
        /\ pc' = "top" /\ UNCHANGED exit
  /\ UNCHANGED <<env, frame, fresh_run, uniform_streak, ocr_errors, prev_state,
                 states_seen, last_sent, cache, pending, event, beat, alerted>>

\* Top of the loop: capture, count uniform frames, and go to OCR when the
\* frame is the first of the loop or differs from prev_sig, which it replaces.
Capture ==
  /\ pc = "top" /\ ~Expired
  /\ frame' = screen
  /\ uniform_streak' = Streak
  /\ IF screen \in Uniform /\ AtLimit(uniform_streak', StreakLimit)
     THEN End("permission") /\ UNCHANGED prev_sig
     ELSE /\ UNCHANGED exit
          /\ IF Changed
             THEN prev_sig' = screen /\ pc' = "ocr"
             ELSE UNCHANGED prev_sig /\ pc' = "beat"
  /\ UNCHANGED <<env, started, fresh_run, ocr_errors, prev_state, states_seen,
                 last_sent, cache, pending, last_beat, event, beat, alerted>>

\* A failed capture is taken for a denied permission and never retried; a
\* frame without a signature ends the command too.
CaptureFails ==
  /\ pc = "top" /\ ~Expired
  /\ \E code \in {"permission", "runtime"} : End(code)
  /\ UNCHANGED <<env, started, frame, prev_sig, fresh_run, uniform_streak,
                 ocr_errors, prev_state, states_seen, last_sent, cache, pending,
                 last_beat, event, beat, alerted>>

\* OCR fails on a changed frame; prev_sig already holds that frame.
OcrError ==
  /\ pc = "ocr" /\ OcrFails
  /\ ocr_errors' = ocr_errors + 1
  /\ IF AtLimit(ocr_errors', OcrLimit) THEN End("runtime")
     ELSE pc' = "beat" /\ UNCHANGED exit
  /\ UNCHANGED <<env, started, frame, prev_sig, fresh_run, uniform_streak,
                 prev_state, states_seen, last_sent, cache, pending, last_beat,
                 event, beat, alerted>>

\* OCR succeeds and `handle_text' starts: refresh the cache, classify, and on a
\* transition move prev_state and consult the limiter, whether or not alerts
\* are on: an allowed decision consumes the state's window there and then.
HandleText ==
  /\ pc = "ocr"
  /\ ocr_errors' = 0
  /\ cache' \in Refreshed(cache)
  /\ \E text \in ReadsAs[frame] :
       LET new == Classify(text)
       IN IF new \in {"unknown", prev_state}
          THEN /\ pc' = "beat"
               /\ UNCHANGED <<prev_state, states_seen, last_sent, pending, alerted>>
          ELSE /\ prev_state' = new
               /\ states_seen' = states_seen \cup {new}
               /\ pending' = [from |-> prev_state, state |-> new,
                              confidence |-> Confidence(new, cache'.latest),
                              evidence |-> cache'.latest, task |-> NoRow,
                              notified |-> IF Suppressed(new) THEN "limited" ELSE "allowed"]
               /\ IF Suppressed(new)
                  THEN UNCHANGED <<last_sent, alerted>>
                  ELSE /\ last_sent' = [last_sent EXCEPT ![new] = wall]
                       /\ alerted' = [alerted EXCEPT ![new] = clock]
               /\ pc' = IF Notify = "telegram" THEN "send" ELSE "emit"
  /\ UNCHANGED <<env, exit, started, frame, prev_sig, fresh_run, uniform_streak,
                 last_beat, event, beat>>

\* Mutant: when hermes fails the transition is not printed either.
SendAlertOrNothing ==
  /\ pc = "send"
  /\ cache' \in Refreshed(cache)
  /\ \E result \in Sent :
       pending' = [pending EXCEPT !.notified = result]
  /\ pc' = IF pending'.notified \in {"failed", "skipped"} THEN "beat" ELSE "emit"
  /\ UNCHANGED <<env, exit, started, frame, prev_sig, fresh_run, uniform_streak,
                 ocr_errors, prev_state, states_seen, last_sent, last_beat,
                 event, beat, alerted>>

\* The telegram branch: the title comes from the cache, then hermes runs to
\* its end, which may take long or fail.
SendAlert ==
  /\ pc = "send"
  /\ cache' \in Refreshed(cache)
  /\ IF pending.notified = "limited" THEN UNCHANGED pending
     ELSE \E result \in Sent :
            pending' = [pending EXCEPT !.notified = result]
  /\ pc' = "emit"
  /\ UNCHANGED <<env, exit, started, frame, prev_sig, fresh_run, uniform_streak,
                 ocr_errors, prev_state, states_seen, last_sent, last_beat,
                 event, beat, alerted>>

\* The `state' event: the task it names is read from the cache once more.
Emit ==
  /\ pc = "emit"
  /\ cache' \in Refreshed(cache)
  /\ event' = [pending EXCEPT !.task = cache'.latest,
                              !.notified = IF Notify = "none" THEN "none" ELSE @]
  /\ pc' = "beat"
  /\ UNCHANGED <<env, exit, started, frame, prev_sig, fresh_run, uniform_streak,
                 ocr_errors, prev_state, states_seen, last_sent, pending,
                 last_beat, beat, alerted>>

\* Bottom of the loop: heartbeat when due, next iteration, sleep (of any
\* length: the clock moves on its own).
Bottom ==
  /\ pc = "beat"
  /\ IF clock - last_beat >= Heartbeat
     THEN beat' = prev_state /\ last_beat' = clock
     ELSE UNCHANGED <<beat, last_beat>>
  /\ fresh_run' = FALSE
  /\ IF Expired THEN End("ok") ELSE pc' = "top" /\ UNCHANGED exit
  /\ UNCHANGED <<env, started, frame, prev_sig, uniform_streak, ocr_errors,
                 prev_state, states_seen, last_sent, cache, pending, event, alerted>>

\* The duration elapsed during the sleep: watch_end, exit 0.
TimeUp ==
  /\ pc = "top" /\ Expired
  /\ End("ok")
  /\ UNCHANGED <<env, started, frame, prev_sig, fresh_run, uniform_streak,
                 ocr_errors, prev_state, states_seen, last_sent, cache, pending,
                 last_beat, event, beat, alerted>>

-----------------------------------------------------------------------------
(* The environment *)

loop == <<pc, exit, started, frame, prev_sig, fresh_run, uniform_streak,
          ocr_errors, prev_state, states_seen, last_sent, cache, pending,
          last_beat, event, beat, alerted>>

ScreenChanges ==
  /\ pc # "ended"
  /\ screen' \in Frames /\ UNCHANGED <<row, clock, wall, loop>>

IndexChanges ==
  /\ pc # "ended"
  /\ row' \in Rows \cup {NoRow} /\ UNCHANGED <<screen, clock, wall, loop>>

Tick ==
  /\ pc # "ended" /\ clock < MaxClock
  /\ clock' = clock + 1 /\ wall' = wall + 1
  /\ UNCHANGED <<screen, row, loop>>

\* The wall clock is set, forwards or back.
SetWall(d) ==
  /\ pc # "ended" /\ wall + d \in 0 .. MaxWall
  /\ wall' = wall + d
  /\ UNCHANGED <<screen, row, clock, loop>>

Watcher == Gate \/ Capture \/ OcrError \/ HandleText \/ SendAlert \/ Emit \/ Bottom \/ TimeUp

Next ==
  \/ Watcher \/ CaptureFails
  \/ ScreenChanges \/ IndexChanges \/ Tick \/ \E d \in WallSteps : SetWall(d)

Spec == Init /\ [][Next]_vars

-----------------------------------------------------------------------------
(* Properties *)

Time == Nat \cup {Never}
Cached == Rows \cup {NoRow}
Event == [from : States \cup {"unknown"}, state : States \cup {"unknown"},
          confidence : {"ocr", "ocr+tasks"}, evidence : Cached, task : Cached,
          notified : {"none", "allowed", "limited", "ok", "failed", "skipped"}]

\* Type invariant of the loop's variables (cmd_watch, WatchCtx, RateLimiter,
\* TasksCache) and of the last events printed.
TypeOK ==
  /\ screen \in Frames /\ row \in Cached /\ clock \in Nat /\ wall \in Nat
  /\ pc \in {"gate", "top", "ocr", "send", "emit", "beat", "ended"}
  /\ exit \in {"none", "ok", "permission", "runtime"}
  /\ started \in Nat /\ last_beat \in Nat
  /\ frame \in Frames /\ prev_sig \in Frames /\ fresh_run \in BOOLEAN
  /\ uniform_streak \in Nat /\ ocr_errors \in Nat
  /\ prev_state \in States \cup {"unknown"} /\ states_seen \subseteq States
  /\ last_sent \in [States -> Time] /\ alerted \in [States -> Time]
  /\ cache \in [latest : Cached, last_refresh : Time]
  /\ pending \in Event /\ event \in Event
  /\ beat \in States \cup {"unknown"}

\* README: "max 1 telegram alert per state per 5 minutes".  Two alerts for one
\* state are decided at least Window of real time apart (RateLimiter::check).
AlertSpacing ==
  [][\A s \in States :
       alerted'[s] # alerted[s] /\ alerted[s] # Never
         => alerted'[s] - alerted[s] >= Window]_vars

\* No alert is swallowed without cause: a transition is suppressed only within
\* Window of real time of an alert for the same state.
SuppressedWithCause ==
  [][pc = "ocr" /\ pc' \in {"send", "emit"} /\ pending'.notified = "limited"
       => /\ alerted[pending'.state] # Never
          /\ clock - alerted[pending'.state] < Window]_vars

\* The printed `state' events form a chain: each starts from the state the one
\* before it named, and names another one (transitions only, handle_text).
EventsChain ==
  [][event' # event => event'.from = event.state /\ event'.state # event.state]_vars

\* What the heartbeat and the next transition build on is the last state
\* reported; while a report is under way, it is the state being reported.
ReportedStateIsCurrent ==
  /\ prev_state = IF pc \in {"send", "emit"} THEN pending.state ELSE event.state
  /\ pc \in {"send", "emit"} => pending.from = event.state /\ pending.from # pending.state
  /\ beat \in states_seen \cup {"unknown"}

\* README: index "refreshed <=1x/10s": two refreshes are Refresh apart, over
\* the three places of handle_text that ask for the latest task.
RefreshSpacing ==
  [][cache'.last_refresh # cache.last_refresh /\ cache.last_refresh # Never
       => cache'.last_refresh - cache.last_refresh >= Refresh]_vars

\* The state shown by frame f, when OCR reads f one way only.
Shows(f, s) == \A text \in ReadsAs[f] : Classify(text) = s

\* A window that stays on a frame showing state s is eventually reported to be
\* in state s, for as long as the watch runs.
SettledScreenIsTracked ==
  \A f \in Frames \ Uniform : \A s \in States : Shows(f, s) =>
    (<>[](screen = f /\ pc # "ended") => <>[](prev_state = s))

=============================================================================
