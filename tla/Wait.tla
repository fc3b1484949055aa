-------------------------------- MODULE Wait --------------------------------
(***************************************************************************)
(* The steps of `zcode-axi wait` (src/commands.rs); Commands composes them *)
(* with those of the other commands.  Every second a new app-server is     *)
(* opened and asked for the list of sessions, until the session is idle,   *)
(* has disappeared, or the deadline has passed at the end of a poll.  The  *)
(* server of a poll lives on until the sleep after it is over.             *)
(*                                                                         *)
(* Time is counted in ticks, Second of them to a second; what the command  *)
(* does between two waits takes no time.                                   *)
(***************************************************************************)
EXTENDS RoundTrip, FiniteSets

CONSTANTS
  Timeout,     \* --timeout, in ticks
  Second,      \* the pause between two polls, in ticks
  MaxChanges   \* bound: changes of the session's status

ASSUME WaitAssumption ==
  {Timeout, Second, MaxChanges} \subseteq Nat

Statuses == {"absent", "busy", "idle"}

VARIABLES
  session,   \* what session/list would say of the session now
  changes,
  reported,  \* what it said in the answer under way
  pc,        \* "poll", "ask", "asked", "pause" or "done"
  now, wake, \* the clock; when the pause is over
  seen,      \* was the session in an earlier list?
  outcome,   \* how the command ended: "none" while it runs
  during,    \* history: what the session was since the last poll began
  before     \* history: what it was before that

vars == <<rtvars, session, changes, reported, pc, now, wake, seen, outcome,
          during, before>>

InitAt(label) ==
  /\ RTInit
  /\ session \in Statuses /\ changes = 0 /\ reported = "absent"
  /\ pc = label /\ now = 0 /\ wake = 0 /\ seen = FALSE /\ outcome = "none"
  /\ during = {} /\ before = {}

env == <<session, changes>>
past == <<during, before>>

Stop(o) == pc' = "done" /\ outcome' = o

\* AppServerClient::spawn at the top of the loop.
Poll ==
  /\ pc = "poll"
  /\ Open
  /\ pc' = "ask"
  /\ before' = before \cup during /\ during' = {session}
  /\ UNCHANGED <<env, reported, now, wake, seen, outcome>>

Request ==
  /\ pc = "ask"
  /\ Ask
  /\ pc' = "asked"
  /\ UNCHANGED <<env, past, reported, now, wake, seen, outcome>>

\* The server looks the session up when it answers, not when it is read.
ServerAnswers ==
  /\ pc = "asked"
  /\ Serve
  /\ reported' = session
  /\ UNCHANGED <<env, past, pc, now, wake, seen, outcome>>

\* spawn or the call returns an error: the server did not start, broke off,
\* answered with an error, or did not answer in time.
CallFails(o) ==
  \/ pc = "poll" /\ OpenFails /\ o = "error"
  \/ pc = "ask" /\ AskFails /\ o = "error"
  \/ pc = "asked" /\ Fails /\ o = "error"
  \/ pc = "asked" /\ Answers /\ verdict' = "refusal" /\ o = "refusal"
  \/ pc = "asked" /\ Expires /\ o = "timeout"

\* The command ends with that error.
PollFails ==
  /\ \E o \in {"error", "refusal", "timeout"} :
       CallFails(o) /\ Stop(IF o = "timeout" THEN o ELSE "error")
  /\ UNCHANGED <<env, past, reported, now, wake, seen>>

\* Mutant: the session may be anything but busy.
IsIdleUnlessBusy(st) == st # "busy"

IsIdle(st) == st = "idle"

\* Mutant: another whole pause, whatever is left.
WholePause == now + Second

\* One second, or what is left before the deadline.
Pause == IF now + Second <= Timeout THEN now + Second ELSE Timeout

\* Mutant: the deadline counts once the session has been listed.
DeadlineOnceSeen == seen /\ now >= Timeout

DeadlinePassed == now >= Timeout

\* The deadline is looked at after the answer and before the pause.
Listed ==
  /\ pc = "asked"
  /\ Answers /\ verdict' = "answer"
  /\ seen' = (seen \/ reported # "absent")
  /\ IF IsIdle(reported) THEN Stop("idle") /\ UNCHANGED wake
     ELSE IF reported = "absent" /\ seen THEN Stop("gone") /\ UNCHANGED wake
     ELSE IF DeadlinePassed THEN Stop("late") /\ UNCHANGED wake
     ELSE pc' = "pause" /\ wake' = Pause /\ UNCHANGED outcome
  /\ UNCHANGED <<env, past, reported, now>>

\* The end of the loop's body: the client of this poll is dropped.
NextPoll ==
  /\ pc = "pause" /\ now = wake
  /\ Close
  /\ pc' = "poll"
  /\ UNCHANGED <<env, past, reported, now, wake, seen, outcome>>

\* The end of the command: the last client is dropped.
Finish ==
  /\ pc = "done"
  /\ Close
  /\ UNCHANGED <<env, past, reported, pc, now, wake, seen, outcome>>

SessionChanges ==
  /\ changes < MaxChanges /\ outcome = "none"
  /\ \E st \in Statuses \ {session} :
       session' = st /\ during' = during \cup {st}
  /\ changes' = changes + 1
  /\ UNCHANGED <<rtvars, before, reported, pc, now, wake, seen, outcome>>

Tick ==
  /\ \/ pc = "asked" /\ TimePasses
     \/ pc = "pause" /\ now < wake /\ UNCHANGED rtvars
  /\ now' = now + 1
  /\ UNCHANGED <<env, past, reported, pc, wake, seen, outcome>>

-----------------------------------------------------------------------------
(* Properties *)

\* What the command says was so while it made its last poll: the session was
\* idle; or it was gone after it had been there; or the deadline has passed and
\* the session was not idle all along.
OutcomeIsTrue ==
  /\ outcome = "idle" => "idle" \in during
  /\ outcome = "gone" => "absent" \in during /\ before \cap {"busy", "idle"} # {}
  /\ outcome = "late" => now >= Timeout /\ during # {"idle"}

\* EXIT-CODES: "`wait` exceeded `--timeout`": the command outlives --timeout by
\* one call at most.
EndsInTime == now <= Timeout + FrameTimeout
=============================================================================
