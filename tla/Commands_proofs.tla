-------------------------- MODULE Commands_proofs --------------------------
(***************************************************************************)
(* For any limits, any number of messages and any changes of the world:    *)
(* what a command says when it ends is true, its exit code too, and `wait' *)
(* ends in time.                                                           *)
(***************************************************************************)
EXTENDS Commands, TLAPS

Store == [file : Files, row : BOOLEAN, msgs : Nat]

Labels == {"start", "version", "doctor", "exists", "probe", "launch", "find", "count",
           "read", "poll", "ask", "asked", "pause", "print", "stored", "done"}

Outcomes == {"none", "ok", "error", "auth", "timeout", "unsupported", "idle", "gone",
             "late"}

TypeOK ==
  /\ RTTypeOK
  /\ cmd \in CommandLine /\ pc \in Labels /\ outcome \in Outcomes
  /\ session \in Statuses /\ reported \in Statuses
  /\ during \subseteq Statuses /\ before \subseteq Statuses
  /\ now \in Nat /\ wake \in Nat /\ seen \in BOOLEAN
  /\ zcode \in {"absent", "takes", "rejects"} /\ swapped \in BOOLEAN
  /\ store \in Store /\ store \in stores
  /\ limit \in {"none", "passed", "dropped"}
  /\ child \in Fates \cup {"none", "running"}
  /\ total \in Nat /\ shown \in Nat

\* The steps that each command goes through.
Placed ==
  /\ pc \in {"version", "doctor"} => cmd.name = "status"
  /\ pc = "exists" => cmd.name = "resume"
  /\ pc = "probe" => cmd.name \in Runs
  /\ pc = "launch" => cmd.name \in Runs \cup {"status"}
  /\ pc \in {"find", "count", "read"} => cmd.name = "inspect"
  /\ pc \in {"poll", "ask", "asked"} => cmd.name \in {"inspect", "sessions", "cancel", "wait"}
  /\ pc = "print" => cmd.name \in {"inspect", "sessions", "cancel"}
  /\ pc = "stored" => cmd.name = "sessions"
  /\ pc = "pause" => cmd.name = "wait"

\* The command runs until it has an outcome, and waits where its client does.
Ordered ==
  /\ pc = "done" <=> outcome # "none"
  /\ pc = "asked" <=> phase = "asked"
  /\ pc = "start" \/ ~IdIsValid => child = "none" /\ verdict = "none" /\ phase = "closed"
  /\ ~IdIsValid /\ pc # "start" => outcome = "error"

\* The time a call can still take is within the limits.
Timely ==
  /\ pc = "asked" => now + left <= Timeout + FrameTimeout
  /\ pc \notin {"asked", "print", "stored", "done"} => now <= Timeout
  /\ pc = "pause" => wake <= Timeout
  /\ EndsInTime

\* The calls of the other commands begin when the clock does.
CallsOnce ==
  cmd.name # "wait" =>
    /\ pc = "asked" => now + left = FrameTimeout
    /\ pc \notin {"asked", "print", "stored", "done"} => now = 0

\* What the histories hold while `wait' makes up its mind.
Witnessed ==
  /\ pc \in {"ask", "asked", "pause"} => session \in during
  /\ pc = "asked" /\ served => reported \in during
  /\ seen => cmd.name = "wait" /\ pc # "start"
  /\ seen /\ pc \in {"ask", "asked"} => before \cap {"busy", "idle"} # {}
  /\ seen /\ pc \in {"pause", "poll"} => (before \cup during) \cap {"busy", "idle"} # {}

\* What a headless run has come to, and what the command makes of it.
Headless ==
  /\ cmd.name \notin Runs \cup {"status"} => child = "none"
  /\ child = "running" => pc = "launch"
  /\ child \in Fates => pc = "done"
  /\ cmd.name \in Runs /\ pc = "done" =>
       IF child = "none" THEN outcome = "error" ELSE outcome = ExitFor(child)

\* The limit that was asked for, from the probe to the run.
Limited ==
  /\ pc \in {"start", "exists", "probe"} => limit = "none"
  /\ limit = "passed" => zcode = "takes" \/ swapped
  /\ child = "usage" => swapped
  /\ cmd.name \in Runs /\ (pc = "launch" \/ child # "none")
       => (limit = "none" <=> ~cmd.turns)

\* Who can end with a timeout, or with a refusal.
Refusals ==
  /\ outcome \in {"late", "timeout"} =>
       cmd.name = "wait" \/ (cmd.name = "cancel" /\ now = FrameTimeout)
  /\ outcome = "unsupported" => cmd.name = "cancel" /\ verdict = "refusal"

\* What was read from the store was once in it.
FromStore ==
  /\ cmd.name = "resume" /\ (pc \in {"probe", "launch"} \/ child # "none") =>
       \E s \in stores : s.file \in {"missing", "closed"} \/ (s.file = "ok" /\ s.row)
  /\ cmd.name = "inspect"
       /\ (pc \in {"read", "poll", "ask", "asked", "print"} \/ outcome = "ok") =>
       \E s \in stores : s.msgs = total

IInv ==
  /\ TypeOK /\ Placed /\ Ordered /\ Timely /\ CallsOnce /\ Witnessed /\ OutcomeIsTrue
  /\ Headless /\ Limited /\ Refusals /\ FromStore

-----------------------------------------------------------------------------
\* A step of the client that all commands share.
Sole(action) == action /\ UNCHANGED <<cmd, world, results>>

\* The other steps, by what they are about.
Headlessly ==
  Start \/ AskVersion \/ AskDoctor \/ CheckExists \/ ProbeLimit \/ Launch \/ ChildEnds
Reads == Find \/ Count \/ Newest
Finishes == CallEnds \/ Drop \/ Prints \/ Stored
WaitsOn == Waits(PollFails \/ Listed \/ NextPoll \/ SessionChanges)
Moves == StoreChanges \/ ZcodeChanges \/ UNCHANGED cmdvars

USE DEF others, rtvars, env, past, world, results, unmoved, At, Goto, Stop

\* A command line has its parts.
LEMMA CommandType ==
  ASSUME TypeOK
  PROVE  cmd.name \in Names /\ cmd.goodId \in BOOLEAN /\ cmd.turns \in BOOLEAN
BY DEF TypeOK, CommandLine

\* What the proofs use of the constants.
LEMMA Constants ==
  Timeout \in Nat /\ Second \in Nat /\ FrameTimeout \in Nat /\ Limit \in Nat
BY RoundTripAssumption, WaitAssumption, CommandsAssumption

\* Every step uses the client as RoundTrip allows.
LEMMA NextRT ==
  ASSUME RTTypeOK, [CmdNext]_cmdvars PROVE RTTypeOK'
<1>1. [RTNext]_rtvars
  <2>1. CASE Calls \/ Waits(PollFails \/ Listed \/ NextPoll) \/ CallEnds \/ Drop
    BY <2>1 DEF Calls, Waits, Poll, Request, ServerAnswers, Finish, Tick, PollFails,
       CallFails, Listed, NextPoll, CallEnds, Drop, RTNext, Ends
  <2>2. CASE Headlessly \/ Find \/ Count \/ Newest \/ Prints \/ Stored
    BY <2>2 DEF Headlessly, Start, AskVersion, AskDoctor, CheckExists, ProbeLimit, Launch,
       ChildEnds, Find, Read, Count, Newest, Prints, Stored
  <2>3. CASE StoreChanges \/ ZcodeChanges \/ Waits(SessionChanges) \/ UNCHANGED cmdvars
    BY <2>3 DEF StoreChanges, ZcodeChanges, Waits, SessionChanges, cmdvars, vars
  <2> QED BY <2>1, <2>2, <2>3 DEF CmdNext, CmdStep, Headlessly
<1>2. left' \in 0 .. FrameTimeout
  BY <1>1, Constants DEF RTTypeOK, RTNext, Open, OpenFails, Ask, AskFails, Serve, Answers,
     Fails, Expires, Ends, TimePasses, Close
<1>3. phase' \in {"closed", "open", "asked"} /\ verdict' \in Verdicts
  BY <1>1 DEF RTTypeOK, Verdicts, RTNext, Open, OpenFails, Ask, AskFails, Serve, Answers,
     Fails, Expires, Ends, TimePasses, Close
<1>4. served' \in BOOLEAN
  BY <1>1, Zenon DEF RTTypeOK, RTNext, Open, OpenFails, Ask, AskFails, Serve, Answers,
     Fails, Expires, Ends, TimePasses, Close
<1> QED BY <1>2, <1>3, <1>4 DEF RTTypeOK

\* Every step keeps the types.
LEMMA NextType ==
  ASSUME TypeOK, [CmdNext]_cmdvars PROVE TypeOK'
<1>1. CASE Headlessly
  BY <1>1, NextRT DEF TypeOK, Labels, Outcomes, Fates, Headlessly, Start, First,
     AskVersion, AskDoctor, CheckExists, ProbeLimit, ProbeTurns, Launch, Ended, ExitFor, ChildEnds
<1>2. CASE Find
  BY <1>2, NextRT DEF TypeOK, Labels, Outcomes, Find, Found
<1>3. CASE Count
  BY <1>3, NextRT DEF TypeOK, Labels, Outcomes, Store, Count, Read, Counted
<1>4. CASE Newest
  BY <1>4, NextRT, Constants DEF TypeOK, Labels, Outcomes, Store, Newest, Read, Least
<1>5. CASE Sole(Poll)
  BY <1>5, NextRT DEF TypeOK, Labels, Poll, Sole
<1>6. CASE Sole(Request)
  BY <1>6, NextRT DEF TypeOK, Labels, Request, Sole
<1>7. CASE Sole(ServerAnswers)
  BY <1>7, NextRT DEF TypeOK, ServerAnswers, Sole
<1>8. CASE Sole(Finish)
  BY <1>8, NextRT DEF TypeOK, Finish, Sole
<1>9. CASE Sole(Tick)
  BY <1>9, NextRT DEF TypeOK, Tick, Sole
<1>10. CASE Waits(PollFails)
  BY <1>10, NextRT DEF TypeOK, Labels, Outcomes, PollFails, Waits
<1>11. CASE Waits(Listed)
  BY <1>11, NextRT, Constants DEF TypeOK, Labels, Outcomes, Listed, Pause, Waits
<1>12. CASE Waits(NextPoll)
  BY <1>12, NextRT DEF TypeOK, Labels, NextPoll, Waits
<1>13. CASE Waits(SessionChanges)
  BY <1>13, NextRT DEF TypeOK, SessionChanges, Waits
<1>14. CASE CallEnds
  BY <1>14, NextRT DEF TypeOK, Labels, Outcomes, CallEnds, GiveUp, Expires
<1>15. CASE Drop
  BY <1>15, NextRT DEF TypeOK, Drop, Close
<1>16. CASE Prints
  BY <1>16, NextRT DEF TypeOK, Labels, Outcomes, Prints
<1>17. CASE Stored
  BY <1>17, NextRT DEF TypeOK, Labels, Outcomes, Stored
<1>18. CASE ZcodeChanges
  BY <1>18, NextRT DEF TypeOK, ZcodeChanges, Change
<1>19. CASE StoreChanges
  <2>1. store' \in Store
    <3>1. store.file \in Files /\ store.row \in BOOLEAN
      BY DEF TypeOK, Store
    <3>2. store.msgs \in Nat /\ store.msgs + 1 \in Nat
      BY DEF TypeOK, Store
    <3>3. CASE store' = [store EXCEPT !.msgs = @ + 1]
      BY <3>1, <3>2, <3>3 DEF TypeOK, Store
    <3>4. CASE store' = [store EXCEPT !.row = ~@, !.msgs = 0]
      BY <3>1, <3>4 DEF TypeOK, Store
    <3>5. CASE \E f \in Files : store' = [store EXCEPT !.file = f]
      BY <3>1, <3>2, <3>5 DEF TypeOK, Store
    <3> QED BY <1>19, <3>3, <3>4, <3>5 DEF StoreChanges
  <2>2. store' \in stores'
    BY <1>19 DEF StoreChanges
  <2> QED BY <1>19, <2>1, <2>2, NextRT DEF TypeOK, StoreChanges, Change
<1>20. CASE UNCHANGED cmdvars
  BY <1>20, NextRT DEF cmdvars, vars, TypeOK, Names, Runs, NeedsId
<1> QED BY <1>1, <1>2, <1>3, <1>4, <1>5, <1>6, <1>7, <1>8, <1>9, <1>10, <1>11, <1>12, <1>13,
           <1>14, <1>15, <1>16, <1>17, <1>18, <1>19, <1>20 DEF CmdNext, CmdStep, Calls, Waits,
           Sole, Headlessly

\* Every command stays on its way.
LEMMA NextPlaced ==
  ASSUME IInv, [CmdNext]_cmdvars PROVE Placed'
<1>1. CASE Headlessly
  BY <1>1, CommandType DEF IInv, TypeOK, Placed, Names, Runs, NeedsId, Headlessly, Start,
     First, AskVersion, AskDoctor, CheckExists, ProbeLimit, Launch, Ended, ChildEnds
<1>2. CASE Reads
  BY <1>2 DEF IInv, TypeOK, Placed, Reads, Find, Count, Read, Newest, Least
<1>3. CASE Finishes
  BY <1>3 DEF IInv, TypeOK, Placed, Finishes, CallEnds, GiveUp, Drop, Prints, Stored
<1>4. CASE Calls
  BY <1>4 DEF IInv, TypeOK, Placed, Calls, Poll, Request, ServerAnswers, Finish, Tick,
     TimePasses
<1>5. CASE WaitsOn
  BY <1>5 DEF IInv, TypeOK, Placed, WaitsOn, PollFails, Waits, Listed, NextPoll,
     SessionChanges
<1>6. CASE Moves
  BY <1>6 DEF IInv, TypeOK, Placed, Moves, cmdvars, vars, StoreChanges, ZcodeChanges
<1> QED BY <1>1, <1>2, <1>3, <1>4, <1>5, <1>6 DEF CmdNext, CmdStep, Headlessly, Reads,
           Finishes, Calls, WaitsOn, Moves, Waits

\* The outcome comes last, and a bad session id goes no further than the start.
LEMMA NextOrdered ==
  ASSUME IInv, [CmdNext]_cmdvars PROVE Ordered'
<1>1. CASE Headlessly
  BY <1>1 DEF IInv, TypeOK, Ordered, IdIsValid, Headlessly, Start, First, AskVersion,
     AskDoctor, CheckExists, ProbeLimit, Launch, Ended, ExitFor, ChildEnds
<1>2. CASE Reads
  BY <1>2 DEF IInv, TypeOK, Ordered, IdIsValid, Reads, Find, Count, Read, Newest, Least
<1>3. CASE Finishes
  BY <1>3 DEF IInv, TypeOK, Ordered, IdIsValid, Finishes, CallEnds, Answers, Ends,
     CallFails, GiveUp, OpenFails, AskFails, Fails, Expires, Drop, Close, Prints, Stored
<1>4. CASE Calls
  BY <1>4 DEF IInv, TypeOK, Ordered, IdIsValid, Calls, Poll, Open, Request, Ask,
     ServerAnswers, Serve, Finish, Close, Tick, TimePasses
<1>5. CASE WaitsOn
  BY <1>5 DEF IInv, TypeOK, Ordered, IdIsValid, WaitsOn, PollFails, CallFails, OpenFails,
     AskFails, Fails, Expires, Answers, Ends, Waits, Listed, NextPoll, Close, SessionChanges
<1>6. CASE Moves
  BY <1>6 DEF IInv, TypeOK, Ordered, IdIsValid, Moves, cmdvars, vars, StoreChanges,
     ZcodeChanges
<1> QED BY <1>1, <1>2, <1>3, <1>4, <1>5, <1>6 DEF CmdNext, CmdStep, Headlessly, Reads,
           Finishes, Calls, WaitsOn, Moves, Waits

\* A call starts before the deadline, or with it, and a tick uses up its budget.
LEMMA NextTimely ==
  ASSUME IInv, [CmdNext]_cmdvars PROVE Timely'
<1>1. CASE Sole(Request)
  BY <1>1, NextType, Constants DEF IInv, TypeOK, RTTypeOK, Timely, EndsInTime, Request, Sole
<1>2. CASE Sole(Tick)
  BY <1>2, Constants DEF IInv, TypeOK, RTTypeOK, Timely, EndsInTime, Tick, TimePasses, Sole
<1>3. CASE Waits(Listed)
  BY <1>3, Constants DEF IInv, TypeOK, Timely, EndsInTime, Listed, DeadlinePassed, Pause,
     Waits
<1>4. CASE Headlessly
  BY <1>4 DEF IInv, TypeOK, Timely, EndsInTime, Headlessly, Start, First, AskVersion,
     AskDoctor, CheckExists, ProbeLimit, Launch, Ended, ChildEnds
<1>5. CASE Reads
  BY <1>5 DEF IInv, TypeOK, Timely, EndsInTime, Reads, Find, Count, Read, Newest, Least
<1>6. CASE Finishes
  BY <1>6 DEF IInv, TypeOK, Timely, EndsInTime, Finishes, CallEnds, GiveUp, Drop, Prints,
     Stored
<1>7. CASE Calls
  BY <1>7, <1>1, <1>2, <1>3 DEF IInv, TypeOK, Timely, EndsInTime, Calls, Sole, Poll,
     ServerAnswers, Serve, Finish, Close
<1>8. CASE WaitsOn
  BY <1>8, <1>1, <1>2, <1>3 DEF IInv, TypeOK, Timely, EndsInTime, WaitsOn, PollFails, Waits,
     NextPoll, SessionChanges
<1>9. CASE Moves
  BY <1>9 DEF IInv, TypeOK, Timely, EndsInTime, Moves, cmdvars, vars, StoreChanges,
     ZcodeChanges
<1> QED BY <1>1, <1>2, <1>3, <1>4, <1>5, <1>6, <1>7, <1>8, <1>9 DEF CmdNext, CmdStep,
           Headlessly, Reads, Finishes, Calls, WaitsOn, Moves, Waits

\* Only `wait' sleeps between its calls.
LEMMA NextCallsOnce ==
  ASSUME IInv, [CmdNext]_cmdvars PROVE CallsOnce'
<1>1. CASE Sole(Request)
  BY <1>1, Constants DEF IInv, TypeOK, CallsOnce, Request, Ask, Sole
<1>2. CASE Sole(Tick)
  BY <1>2 DEF IInv, TypeOK, RTTypeOK, Placed, CallsOnce, Tick, TimePasses, Sole
<1>3. CASE Headlessly
  BY <1>3 DEF IInv, TypeOK, CallsOnce, Headlessly, Start, First,
     AskVersion, AskDoctor, CheckExists, ProbeLimit, Launch, Ended, ChildEnds
<1>4. CASE Reads
  BY <1>4 DEF IInv, TypeOK, CallsOnce, Reads, Find, Count, Read, Newest, Least
<1>5. CASE Finishes
  BY <1>5 DEF IInv, TypeOK, CallsOnce, Finishes, CallEnds, GiveUp, Drop, Prints, Stored
<1>6. CASE Calls
  BY <1>6, <1>1, <1>2 DEF IInv, TypeOK, CallsOnce, Calls, Sole, Poll, ServerAnswers, Serve,
     Finish, Close
<1>7. CASE WaitsOn
  BY <1>7 DEF IInv, TypeOK, CallsOnce, WaitsOn, PollFails, Waits, Listed, NextPoll,
     SessionChanges
<1>8. CASE Moves
  BY <1>8 DEF IInv, TypeOK, CallsOnce, Moves, cmdvars, vars, StoreChanges, ZcodeChanges
<1> QED BY <1>1, <1>2, <1>3, <1>4, <1>5, <1>6, <1>7, <1>8 DEF CmdNext, CmdStep, Headlessly,
           Reads, Finishes, Calls, WaitsOn, Moves, Waits

\* The histories follow the session, and `seen' the lists.
LEMMA NextWitnessed ==
  ASSUME IInv, [CmdNext]_cmdvars PROVE Witnessed'
<1>1. CASE Sole(Poll)
  BY <1>1 DEF IInv, TypeOK, Witnessed, Poll, Sole
<1>2. CASE Sole(ServerAnswers)
  BY <1>2 DEF IInv, TypeOK, Witnessed, ServerAnswers, Sole
<1>3. CASE Waits(Listed)
  BY <1>3 DEF IInv, TypeOK, Witnessed, Statuses, Listed, Answers, Waits
<1>4. CASE Waits(SessionChanges)
  BY <1>4 DEF IInv, TypeOK, Witnessed, SessionChanges, Waits
<1>5. CASE Headlessly
  BY <1>5 DEF IInv, TypeOK, Witnessed, Headlessly, Start, First,
     AskVersion, AskDoctor, CheckExists, ProbeLimit, Launch, Ended, ChildEnds
<1>6. CASE Reads
  BY <1>6 DEF IInv, TypeOK, Placed, Witnessed, Reads, Find, Count, Read, Newest, Least
<1>7. CASE Finishes
  BY <1>7 DEF IInv, TypeOK, Witnessed, Finishes, CallEnds, GiveUp, Drop, Prints, Stored
<1>8. CASE Calls
  BY <1>8, <1>1, <1>2, <1>3, <1>4 DEF IInv, TypeOK, Witnessed, Calls, Sole, Request, Ask,
     Finish, Tick, TimePasses
<1>9. CASE WaitsOn
  BY <1>9, <1>1, <1>2, <1>3, <1>4 DEF IInv, TypeOK, Witnessed, WaitsOn, PollFails, Waits,
     NextPoll, Close
<1>10. CASE Moves
  BY <1>10 DEF IInv, TypeOK, Witnessed, Moves, cmdvars, vars, StoreChanges, ZcodeChanges
<1> QED BY <1>1, <1>2, <1>3, <1>4, <1>5, <1>6, <1>7, <1>8, <1>9, <1>10 DEF CmdNext, CmdStep,
           Headlessly, Reads, Finishes, Calls, WaitsOn, Moves, Waits

\* An outcome is reached with its witnesses, and they stay.
LEMMA NextOutcome ==
  ASSUME IInv, [CmdNext]_cmdvars PROVE OutcomeIsTrue'
<1>1. CASE Waits(Listed)
  BY <1>1 DEF IInv, TypeOK, Witnessed, OutcomeIsTrue, Listed, Answers, IsIdle,
     DeadlinePassed, Waits
<1>2. CASE Headlessly
  BY <1>2 DEF IInv, TypeOK, OutcomeIsTrue, Headlessly, Start, AskVersion, AskDoctor,
     CheckExists, ProbeLimit, Launch, Ended, ExitFor, ChildEnds
<1>3. CASE Reads
  BY <1>3 DEF IInv, TypeOK, OutcomeIsTrue, Reads, Find, Count, Read, Newest, Least
<1>4. CASE Finishes
  BY <1>4 DEF IInv, TypeOK, OutcomeIsTrue, Finishes, CallEnds, GiveUp, Drop, Prints, Stored
<1>5. CASE Calls
  BY <1>5 DEF IInv, TypeOK, Ordered, OutcomeIsTrue, Calls, Poll, Request, ServerAnswers,
     Finish, Tick, TimePasses
<1>6. CASE WaitsOn
  BY <1>6, <1>1 DEF IInv, TypeOK, OutcomeIsTrue, WaitsOn, PollFails, Waits, NextPoll,
     SessionChanges
<1>7. CASE Moves
  BY <1>7 DEF IInv, TypeOK, OutcomeIsTrue, Moves, cmdvars, vars, StoreChanges, ZcodeChanges
<1> QED BY <1>1, <1>2, <1>3, <1>4, <1>5, <1>6, <1>7 DEF CmdNext, CmdStep, Headlessly, Reads,
           Finishes, Calls, WaitsOn, Moves, Waits

\* The end of the child is the end of the command.
LEMMA NextHeadless ==
  ASSUME IInv, [CmdNext]_cmdvars PROVE Headless'
<1>1. CASE Launch
  BY <1>1 DEF IInv, TypeOK, Placed, Runs, Headless, Fates, Launch, Ended
<1>2. CASE ChildEnds
  BY <1>2 DEF IInv, TypeOK, Runs, Headless, ChildEnds, Ended
<1>3. CASE Headlessly
  BY <1>3, <1>1, <1>2 DEF IInv, TypeOK, Headless, Headlessly, Start, First, AskVersion,
     AskDoctor, CheckExists, ProbeLimit, ProbeTurns
<1>4. CASE Reads
  BY <1>4 DEF IInv, TypeOK, Headless, Reads, Find, Count, Read, Newest, Least
<1>5. CASE Finishes
  BY <1>5 DEF IInv, TypeOK, Placed, Runs, Headless, Finishes, CallEnds, CallFails, Drop,
     Prints, Stored
<1>6. CASE Calls
  BY <1>6 DEF IInv, TypeOK, Headless, Calls, Poll, Request, ServerAnswers, Finish, Tick,
     TimePasses
<1>7. CASE WaitsOn
  BY <1>7 DEF IInv, TypeOK, Runs, Headless, WaitsOn, PollFails, Waits, Listed, NextPoll,
     SessionChanges
<1>8. CASE Moves
  BY <1>8 DEF IInv, TypeOK, Headless, Moves, cmdvars, vars, StoreChanges, ZcodeChanges
<1> QED BY <1>1, <1>2, <1>3, <1>4, <1>5, <1>6, <1>7, <1>8 DEF CmdNext, CmdStep, Headlessly,
           Reads, Finishes, Calls, WaitsOn, Moves, Waits

\* What the probe found holds until zcode is replaced.
LEMMA NextLimited ==
  ASSUME IInv, [CmdNext]_cmdvars PROVE Limited'
<1>1. CASE ProbeLimit
  BY <1>1 DEF IInv, TypeOK, Limited, ProbeLimit, ProbeTurns
<1>2. CASE Launch
  BY <1>2 DEF IInv, TypeOK, Limited, Launch, Ended, ExitFor
<1>3. CASE ZcodeChanges
  BY <1>3 DEF IInv, TypeOK, Limited, ZcodeChanges, Change
<1>4. CASE Headlessly
  BY <1>4, <1>1, <1>2, <1>3 DEF IInv, TypeOK, Placed, Runs, Limited, Headlessly, Start,
     First, AskVersion, AskDoctor, CheckExists, ChildEnds, Ended, ExitFor
<1>5. CASE Reads
  BY <1>5 DEF IInv, TypeOK, Limited, Reads, Find, Count, Read, Newest, Least
<1>6. CASE Finishes
  BY <1>6 DEF IInv, TypeOK, Limited, Finishes, CallEnds, GiveUp, Drop, Prints, Stored
<1>7. CASE Calls
  BY <1>7 DEF IInv, TypeOK, Limited, Calls, Poll, Request, ServerAnswers, Finish, Tick,
     TimePasses
<1>8. CASE WaitsOn
  BY <1>8 DEF IInv, TypeOK, Limited, WaitsOn, PollFails, Waits, Listed, NextPoll,
     SessionChanges
<1>9. CASE Moves
  BY <1>9, <1>1, <1>2, <1>3 DEF IInv, TypeOK, Limited, Moves, cmdvars, vars, StoreChanges,
     Change
<1> QED BY <1>1, <1>2, <1>3, <1>4, <1>5, <1>6, <1>7, <1>8, <1>9 DEF CmdNext, CmdStep,
           Headlessly, Reads, Finishes, Calls, WaitsOn, Moves, Waits

\* Only `wait' and `cancel' tell a timeout or a refusal by their exit codes.
LEMMA NextRefusals ==
  ASSUME IInv, [CmdNext]_cmdvars PROVE Refusals'
<1>1. CASE CallEnds
  BY <1>1 DEF IInv, TypeOK, Ordered, CallsOnce, Refusals, CallEnds, CallFails, GiveUp,
     Expires
<1>2. CASE Headlessly
  BY <1>2 DEF IInv, TypeOK, Refusals, Headlessly, Start, AskVersion, AskDoctor, CheckExists,
     ProbeLimit, Launch, Ended, ExitFor, ChildEnds
<1>3. CASE Reads
  BY <1>3 DEF IInv, TypeOK, Refusals, Reads, Find, Count, Read, Newest, Least
<1>4. CASE Finishes
  BY <1>4, <1>1 DEF IInv, TypeOK, Ordered, Refusals, Finishes, Drop, Prints, Stored
<1>5. CASE Calls
  BY <1>5 DEF IInv, TypeOK, Ordered, Refusals, Calls, Poll, Request, ServerAnswers, Finish,
     Close, Tick, TimePasses
<1>6. CASE WaitsOn
  BY <1>6 DEF IInv, TypeOK, Refusals, WaitsOn, PollFails, Waits, Listed, NextPoll,
     SessionChanges
<1>7. CASE Moves
  BY <1>7 DEF IInv, TypeOK, Refusals, Moves, cmdvars, vars, StoreChanges, ZcodeChanges
<1> QED BY <1>1, <1>2, <1>3, <1>4, <1>5, <1>6, <1>7 DEF CmdNext, CmdStep, Headlessly, Reads,
           Finishes, Calls, WaitsOn, Moves, Waits

\* What was read from the store stays in its history.
LEMMA NextFromStore ==
  ASSUME IInv, [CmdNext]_cmdvars PROVE FromStore'
<1>1. CASE CheckExists
  BY <1>1 DEF IInv, TypeOK, Store, Files, FromStore, CheckExists, Opens, Found
<1>2. CASE Count
  BY <1>2 DEF IInv, TypeOK, FromStore, Count, Read, Counted
<1>3. CASE StoreChanges
  BY <1>3 DEF IInv, TypeOK, FromStore, StoreChanges, Change
<1>4. CASE Headlessly
  BY <1>4, <1>1, <1>2, <1>3 DEF IInv, TypeOK, Placed, Runs, FromStore, Headlessly, Start,
     First, AskVersion, AskDoctor, ProbeLimit, Launch, ChildEnds
<1>5. CASE Reads
  BY <1>5, <1>1, <1>2, <1>3 DEF IInv, TypeOK, FromStore, Reads, Find, Newest, Read, Least
<1>6. CASE Finishes
  BY <1>6 DEF IInv, TypeOK, Placed, FromStore, Finishes, CallEnds, CallFails, Drop, Prints,
     Stored
<1>7. CASE Calls
  BY <1>7 DEF IInv, TypeOK, FromStore, Calls, Poll, Request, ServerAnswers, Finish, Tick,
     TimePasses
<1>8. CASE WaitsOn
  BY <1>8 DEF IInv, TypeOK, FromStore, WaitsOn, PollFails, Waits, Listed, NextPoll,
     SessionChanges
<1>9. CASE Moves
  BY <1>9, <1>1, <1>2, <1>3 DEF IInv, TypeOK, FromStore, Moves, cmdvars, vars, ZcodeChanges,
     Change
<1> QED BY <1>1, <1>2, <1>3, <1>4, <1>5, <1>6, <1>7, <1>8, <1>9 DEF CmdNext, CmdStep,
           Headlessly, Reads, Finishes, Calls, WaitsOn, Moves, Waits

\* Every part of the invariant holds of the start.
LEMMA InitHolds == CmdInit => IInv
<1> SUFFICES ASSUME CmdInit PROVE IInv
  OBVIOUS
<1>1. TypeOK
  <2>1. store \in Store
    BY Constants DEF CmdInit, Store
  <2>2. RTTypeOK
    <3>1. left \in 0 .. FrameTimeout
      BY Constants DEF CmdInit, InitAt, RTInit
    <3>2. served \in BOOLEAN
      BY Zenon DEF CmdInit, InitAt, RTInit
    <3> QED BY <3>1, <3>2 DEF CmdInit, InitAt, RTInit, RTTypeOK, Verdicts
  <2>3. seen \in BOOLEAN /\ swapped \in BOOLEAN
    BY Zenon DEF CmdInit, InitAt
  <2> QED BY <2>1, <2>2, <2>3 DEF CmdInit, InitAt, TypeOK, Labels, Outcomes, Statuses, Fates
<1>2. /\ Placed /\ Ordered /\ Witnessed /\ OutcomeIsTrue
      /\ Headless /\ Limited /\ Refusals /\ FromStore
  BY DEF CmdInit, InitAt, RTInit, Placed, Ordered, Witnessed, OutcomeIsTrue, Headless,
     Limited, Refusals, FromStore, Fates
<1>3. Timely /\ CallsOnce
  BY Constants DEF CmdInit, InitAt, RTInit, Timely, CallsOnce, EndsInTime
<1> QED BY <1>1, <1>2, <1>3 DEF IInv

\* The inductive invariant.
THEOREM InvariantHolds == CmdSpec => []IInv
<1>1. IInv /\ [CmdNext]_cmdvars => IInv'
  BY NextType, NextPlaced, NextOrdered, NextTimely, NextCallsOnce, NextWitnessed,
     NextOutcome, NextHeadless, NextLimited, NextRefusals, NextFromStore DEF IInv
<1> QED BY InitHolds, <1>1, PTL DEF CmdSpec

-----------------------------------------------------------------------------
\* What `wait' says was so while it made its last poll.
THEOREM OutcomesAreTrue == CmdSpec => []OutcomeIsTrue
<1>1. IInv => OutcomeIsTrue
  BY DEF IInv
<1> QED BY InvariantHolds, <1>1, PTL

\* A command outlives --timeout by the budget of one call at most.
THEOREM CommandsEndInTime == CmdSpec => []EndsInTime
<1>1. IInv => EndsInTime
  BY DEF IInv, Timely
<1> QED BY InvariantHolds, <1>1, PTL

\* Each exit code says what EXIT-CODES says of it.
THEOREM ExitCodesAreTrue == CmdSpec => []ExitCodeIsTrue
<1>1. IInv => ExitCodeIsTrue
  <2> SUFFICES ASSUME IInv, outcome # "none" PROVE ExitCodeIsTrue
    BY DEF ExitCodeIsTrue
  <2>1. pc = "done"
    BY DEF IInv, Ordered
  <2>2. cmd.name \in Runs =>
          (ExitCode = 0 <=> child = "contract") /\ (ExitCode = 3 <=> child = "auth")
    BY <2>1 DEF IInv, TypeOK, Headless, ExitCode, ExitFor, Fates
  <2>3. ExitCode = 4 => cmd.name = "wait" \/ (cmd.name = "cancel" /\ now = FrameTimeout)
    BY DEF IInv, Refusals, ExitCode
  <2>4. ExitCode = 5 => cmd.name = "cancel" /\ verdict = "refusal"
    BY DEF IInv, Refusals, ExitCode
  <2>5. cmd.name \in NeedsId /\ ~cmd.goodId =>
          ExitCode = 1 /\ child = "none" /\ verdict = "none" /\ phase = "closed"
    BY <2>1 DEF IInv, Ordered, IdIsValid, ExitCode
  <2> QED BY <2>2, <2>3, <2>4, <2>5 DEF ExitCodeIsTrue
<1> QED BY InvariantHolds, <1>1, PTL

\* Only a zcode that was replaced after the probe refuses --max-turns, and no
\* limit is left out without the warning.
THEOREM TurnLimitsNeverFail == CmdSpec => []TurnLimitNeverFails
<1>1. IInv => TurnLimitNeverFails
  BY DEF IInv, Limited, TurnLimitNeverFails
<1> QED BY InvariantHolds, <1>1, PTL

\* resume starts no zcode for a session that the store, open all along, has not
\* listed.
THEOREM ResumesNeedASession == CmdSpec => []ResumeNeedsASession
<1>1. IInv => ResumeNeedsASession
  BY DEF IInv, FromStore, ResumeNeedsASession
<1> QED BY InvariantHolds, <1>1, PTL

\* A session with more messages than are printed, all along, has its hint.
THEOREM LongSessionsHaveHints == CmdSpec => []LongSessionsAreHinted
<1>1. IInv => LongSessionsAreHinted
  BY DEF IInv, TypeOK, FromStore, LongSessionsAreHinted, Hint
<1> QED BY InvariantHolds, <1>1, PTL
=============================================================================
