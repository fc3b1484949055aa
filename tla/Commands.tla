------------------------------ MODULE Commands ------------------------------
(***************************************************************************)
(* One run of zcode-axi, from main to its exit code, for the commands that *)
(* use the zcode runtime (src/main.rs, commands.rs, runtime.rs, store.rs,  *)
(* error.rs): they start zcode several times over, call its app-server and *)
(* read its session store, while the runtime is replaced, sessions change  *)
(* and messages are written.  `wait' is Wait; its actions of the app-server*)
(* client serve the other commands too.                                    *)
(***************************************************************************)
EXTENDS Wait

CONSTANTS
  Limit,   \* INSPECT_MESSAGES
  MaxRows  \* bound: messages of the session

ASSUME CommandsAssumption == Limit \in Nat \ {0} /\ MaxRows \in Nat

Runs == {"run", "resume"}
NeedsId == {"resume", "inspect", "cancel", "wait"}
Names == {"status", "sessions"} \cup Runs \cup NeedsId

\* Flags and arguments that a command does not look at are as if not given.
CommandLine ==
  {c \in [name : Names, goodId : BOOLEAN, full : BOOLEAN, turns : BOOLEAN] :
     /\ c.goodId \/ c.name \in NeedsId
     /\ c.full => c.name = "inspect"
     /\ c.turns => c.name \in Runs}

\* How `zcode -p' ends: with status 0 and the JSON contract or without it, with
\* a failure that speaks of authentication, with another one or a signal, with
\* its parser's error on --max-turns; or it cannot be started.
Fates == {"contract", "mute", "auth", "failed", "usage", "unstarted"}

VARIABLES
  cmd,      \* the command line
  zcode,    \* the runtime: "absent", or it "takes" or "rejects" --max-turns
  store,    \* db.sqlite: [file, row, msgs], row and msgs of the session; a file
            \* that is "closed" cannot be opened, one "locked" cannot be queried
  stores,   \* history: what the store has been since the command started
  swapped,  \* history: has zcode been replaced since then?
  limit,    \* --max-turns: "none", "passed", or "dropped" with a warning
  child,    \* zcode -p: "none", "running" or its fate
  total, shown  \* messages counted, messages printed

world == <<zcode, store, stores, swapped>>
results == <<limit, child, total, shown>>
cmdvars == <<vars, cmd, world, results>>
others == <<rtvars, env, past, reported, now, wake, seen, cmd, world>>

Files == {"missing", "closed", "locked", "ok"}

ReadsStore == cmd.name \in {"resume", "inspect", "sessions"}

CmdInit ==
  /\ InitAt("start")
  /\ cmd \in CommandLine
  /\ zcode \in {"absent", "takes"} \cup (IF cmd.turns THEN {"rejects"} ELSE {})
  /\ store \in [file : Files, row : BOOLEAN, msgs : {0, Limit, Limit + 1}]
  /\ store.row <=> store.msgs > 0
  /\ ReadsStore \/ (store.file = "ok" /\ store.row)
  /\ stores = {store} /\ swapped = FALSE
  /\ limit = "none" /\ child = "none" /\ total = 0 /\ shown = 0

At(label) == pc = label /\ UNCHANGED others
Goto(label) == pc' = label /\ UNCHANGED outcome
Least(m, n) == IF m <= n THEN m ELSE n

-----------------------------------------------------------------------------
\* Where a command begins once zcode is found and its session id is one.
First ==
  CASE cmd.name = "status" -> "version"
    [] cmd.name = "run" -> "probe"
    [] cmd.name = "resume" -> "exists"
    [] cmd.name = "inspect" -> "find"
    [] OTHER -> "poll"

IdIsValid == cmd.name \in NeedsId => cmd.goodId

Start ==
  /\ At("start")
  /\ IF zcode # "absent" /\ IdIsValid THEN Goto(First) ELSE Stop("error")
  /\ UNCHANGED results

\* status: `zcode --version', then `zcode doctor', then a headless run.
AskVersion ==
  /\ At("version")
  /\ Goto("doctor") \/ Stop("error")
  /\ UNCHANGED results

AskDoctor ==
  /\ At("doctor")
  /\ Goto("launch") \/ Stop("error")
  /\ UNCHANGED results

\* Mutant: any session will do.
FoundAnyway == TRUE

Found == store.row

Opens == store.file \in {"locked", "ok"}

\* resume: a store that is not there or cannot be opened is not asked, and one
\* that cannot be queried fails the command.
CheckExists ==
  /\ At("exists")
  /\ IF ~Opens \/ (store.file = "ok" /\ Found) THEN Goto("probe")
     ELSE Stop("error")
  /\ UNCHANGED results

\* Mutant: the flag is passed whatever the probe says.
PassAnyway == limit' = "passed"

\* A probe that cannot be run counts as a refusal.
ProbeTurns ==
  \/ limit' = "dropped"
  \/ zcode = "takes" /\ limit' = "passed"

ProbeLimit ==
  /\ At("probe")
  /\ IF cmd.turns THEN ProbeTurns ELSE UNCHANGED limit
  /\ Goto("launch")
  /\ UNCHANGED <<child, total, shown>>

\* Mutant: status 0 is enough.
ExitForStatus(fate) ==
  IF fate \in {"contract", "mute"} THEN "ok" ELSE IF fate = "auth" THEN "auth" ELSE "error"

\* What main makes of a headless run: exit_code, run and stderr.
ExitFor(fate) ==
  CASE fate = "contract" -> "ok" [] fate = "auth" -> "auth" [] OTHER -> "error"

\* The probe of status tells how authentication is, whatever comes out.
Ended(fate) ==
  /\ child' = fate
  /\ Stop(IF cmd.name = "status" THEN "ok" ELSE ExitFor(fate))

Launch ==
  /\ At("launch") /\ child = "none"
  /\ \/ Ended("unstarted")
     \/ zcode = "rejects" /\ limit = "passed" /\ Ended("usage")
     \/ /\ zcode = "takes" \/ (zcode = "rejects" /\ limit # "passed")
        /\ child' = "running" /\ UNCHANGED <<pc, outcome>>
  /\ UNCHANGED <<limit, total, shown>>

\* Nobody limits the time of a headless run.
ChildEnds ==
  /\ At("launch") /\ child = "running"
  /\ \E fate \in {"contract", "mute", "auth", "failed"} : Ended(fate)
  /\ UNCHANGED <<limit, total, shown>>

-----------------------------------------------------------------------------
\* inspect: the session's row, all of its messages for their number, and once
\* more the newest of them, all on the connection opened for the first.
Find ==
  /\ At("find")
  /\ IF store.file = "ok" /\ Found THEN Goto("count") ELSE Stop("error")
  /\ UNCHANGED results

\* Mutant: the messages are counted as they are printed.
CountTheNewest == IF cmd.full THEN store.msgs ELSE Least(Limit, store.msgs)

Counted == store.msgs

Read(label, next) ==
  /\ At(label)
  /\ IF store.file # "locked" THEN Goto(next) ELSE Stop("error")
  /\ UNCHANGED <<limit, child>>

Count == Read("count", "read") /\ total' = Counted /\ UNCHANGED shown

Newest ==
  /\ Read("read", "poll")
  /\ shown' = IF cmd.full THEN store.msgs ELSE Least(Limit, store.msgs)
  /\ UNCHANGED total

Hint == shown < total

-----------------------------------------------------------------------------
(* The app-server, for `sessions', `inspect' and `cancel' *)

\* sessions falls back on the store, inspect goes without the live status,
\* cancel fails; -32004 is one of the refusals.
GiveUp(o) ==
  \/ cmd.name = "sessions" /\ Goto("stored")
  \/ cmd.name = "inspect" /\ Goto("print")
  \/ cmd.name = "cancel" /\ o = "refusal" /\ Stop("unsupported")
  \/ cmd.name = "cancel" /\ Stop(IF o = "timeout" THEN o ELSE "error")

CallEnds ==
  /\ cmd.name # "wait"
  /\ \/ pc = "asked" /\ Answers /\ verdict' = "answer" /\ Goto("print")
     \/ \E o \in {"error", "refusal", "timeout"} : CallFails(o) /\ GiveUp(o)
  /\ UNCHANGED <<env, past, reported, now, wake, seen, cmd, world, results>>

\* The client goes out of scope.
Drop ==
  /\ pc \in {"print", "stored"}
  /\ Close
  /\ UNCHANGED <<env, past, reported, pc, now, wake, seen, outcome, cmd, world,
                 results>>

Prints ==
  /\ At("print") /\ phase = "closed"
  /\ Stop("ok")
  /\ UNCHANGED results

Stored ==
  /\ At("stored") /\ phase = "closed"
  /\ Stop(IF store.file = "ok" THEN "ok" ELSE "error")
  /\ UNCHANGED results

-----------------------------------------------------------------------------
(* The world and the next-state relation.  What a command never looks at is   *)
(* given one value and left alone.                                            *)

Change == changes < MaxChanges /\ outcome = "none" /\ changes' = changes + 1
unmoved == <<rtvars, past, reported, session, pc, now, wake, seen, outcome, cmd,
             results>>

\* A message is written, the session is saved or deleted, the file appears, is
\* locked or can no longer be opened.
StoreChanges ==
  /\ Change /\ ReadsStore
  /\ \/ store.row /\ store.msgs < MaxRows /\ store' = [store EXCEPT !.msgs = @ + 1]
     \/ store' = [store EXCEPT !.row = ~@, !.msgs = 0]
     \/ \E f \in Files \ {"missing", store.file} : store' = [store EXCEPT !.file = f]
  /\ stores' = stores \cup {store'}
  /\ UNCHANGED <<unmoved, zcode, swapped>>

\* An update of zcode, or its removal.
ZcodeChanges ==
  /\ Change /\ cmd.turns
  /\ zcode' \in {"absent", "takes", "rejects"} \ {zcode} /\ swapped' = TRUE
  /\ UNCHANGED <<unmoved, store, stores>>

\* What `wait' does of its own; the other commands share the rest of it.
Waits(action) == cmd.name = "wait" /\ action /\ UNCHANGED <<cmd, world, results>>

Calls ==
  /\ Poll \/ Request \/ ServerAnswers \/ Finish \/ Tick
  /\ UNCHANGED <<cmd, world, results>>

CmdStep ==
  \/ Start \/ AskVersion \/ AskDoctor \/ CheckExists \/ ProbeLimit \/ Launch
  \/ Find \/ Count \/ Newest
  \/ Calls \/ Waits(PollFails \/ Listed \/ NextPoll)
  \/ CallEnds \/ Drop \/ Prints \/ Stored

CmdNext ==
  \/ CmdStep \/ ChildEnds \/ StoreChanges \/ ZcodeChanges
  \/ Waits(SessionChanges)

\* zcode --version, doctor, the probe and `zcode -p' are waited for without limit.
WaitsForChild ==
  \/ pc \in {"version", "doctor"}
  \/ pc = "probe" /\ cmd.turns
  \/ child = "running"

\* The command runs and the clock moves, where it does not wait for a child.
CmdSpec ==
  CmdInit /\ [][CmdNext]_cmdvars /\ WF_cmdvars(~WaitsForChild /\ CmdStep)

-----------------------------------------------------------------------------
(* Properties *)

ExitCode ==
  CASE outcome \in {"ok", "idle"} -> 0
    [] outcome = "auth" -> 3
    [] outcome \in {"late", "timeout"} -> 4
    [] outcome = "unsupported" -> 5
    [] OTHER -> 1

\* EXIT-CODES: of run and resume 0 says that the goal was carried out and its
\* contract printed, and 3 that zcode complained of the login; 4 comes from wait or
\* a server that left cancel waiting for its whole budget, 5 from a refusal; and for a bad
\* session id nothing has been started.
ExitCodeIsTrue ==
  outcome # "none" =>
    /\ cmd.name \in Runs => /\ ExitCode = 0 <=> child = "contract"
                            /\ ExitCode = 3 <=> child = "auth"
    /\ ExitCode = 4 => \/ cmd.name = "wait"
                       \/ cmd.name = "cancel" /\ now = FrameTimeout
    /\ ExitCode = 5 => cmd.name = "cancel" /\ verdict = "refusal"
    /\ cmd.name \in NeedsId /\ ~cmd.goodId =>
         ExitCode = 1 /\ child = "none" /\ verdict = "none" /\ phase = "closed"

\* EXIT-CODES: --max-turns does not fail when the runtime lacks the flag.  Only
\* a zcode that was replaced after the probe refuses its command line, and no
\* limit that was asked for is left out without the warning.
TurnLimitNeverFails ==
  /\ child = "usage" => swapped
  /\ child # "none" /\ cmd.name \in Runs => (limit = "none" <=> ~cmd.turns)

\* resume starts no zcode for a session that the store, open to be asked from
\* the start to the end of the command, has never listed.
ResumeNeedsASession ==
  cmd.name = "resume" /\ child # "none" =>
    \E s \in stores : s.file \in {"missing", "closed"} \/ (s.file = "ok" /\ s.row)

\* What "The session store is the source of truth for exists" and EXIT-CODES
\* ("session store unusable, session not found") promise: resume starts zcode
\* only for a session that the store listed.  Fails when the store is missing or
\* cannot be opened: the check is then passed over in silence.
SessionIsFound ==
  cmd.name = "resume" /\ child # "none" => \E s \in stores : s.file = "ok" /\ s.row

\* A session that has held more messages than inspect prints, from the start of
\* the command to its end, is not printed without the hint, whatever is written
\* and deleted meanwhile.
LongSessionsAreHinted ==
  cmd.name = "inspect" /\ outcome = "ok" /\ ~Hint =>
    \E s \in stores : s.msgs <= shown

\* What "Truncation always prints a hint" promises: when inspect reads more
\* messages than it keeps to print, the number it has counted tells.  Fails when
\* one is written between the two queries of a session with Limit messages.
OmissionsAreHinted ==
  [][pc = "read" /\ pc' = "poll" /\ shown' < store.msgs => Hint']_cmdvars

\* No command hangs on a server, the store or the session: each ends, unless it
\* waits for ever for a zcode that does not.
CommandEnds == <>[](outcome # "none" \/ WaitsForChild)
=============================================================================
