----------------------------- MODULE RoundTrip -----------------------------
(***************************************************************************)
(* What a caller is promised by the app-server client: open a server, ask  *)
(* it one thing at a time, get the server's answer, a failure, or a        *)
(* timeout when the frame budget is spent; close the server.  AppServer is *)
(* shown to implement this; Wait is written on top of it.                  *)
(***************************************************************************)
EXTENDS Integers

CONSTANT FrameTimeout  \* the budget of one call, in ticks

ASSUME RoundTripAssumption == FrameTimeout \in Nat

VARIABLES
  phase,    \* "closed", "open" or "asked"
  left,     \* what is left of the budget of the pending call
  served,   \* has the server answered the pending request?
  verdict   \* how the last operation ended; "none" while one is pending

rtvars == <<phase, left, served, verdict>>

Verdicts == {"none", "answer", "refusal", "failure", "timeout"}

RTInit == phase = "closed" /\ left = 0 /\ served = FALSE /\ verdict = "none"

Open ==
  /\ phase = "closed"
  /\ phase' = "open" /\ verdict' = "none"
  /\ UNCHANGED <<left, served>>

OpenFails ==
  /\ phase = "closed"
  /\ verdict' = "failure"
  /\ UNCHANGED <<phase, left, served>>

\* A client whose call failed is not asked again: its caller drops it.
Ask ==
  /\ phase = "open" /\ verdict \in {"none", "answer"}
  /\ phase' = "asked" /\ verdict' = "none"
  /\ left' = FrameTimeout /\ served' = FALSE

AskFails ==
  /\ phase = "open" /\ verdict \in {"none", "answer"}
  /\ verdict' = "failure"
  /\ UNCHANGED <<phase, left, served>>

Serve ==
  /\ phase = "asked" /\ ~served
  /\ served' = TRUE
  /\ UNCHANGED <<phase, left, verdict>>

Ends(v) ==
  /\ phase = "asked"
  /\ phase' = "open" /\ left' = 0 /\ served' = FALSE
  /\ verdict' = v

\* The server's result, or its error: never one it has not given.
Answers == served /\ (Ends("answer") \/ Ends("refusal"))

Fails == Ends("failure")

\* Only a call that has waited for its whole budget times out.
Expires == left = 0 /\ Ends("timeout")

TimePasses ==
  /\ phase = "asked" /\ left > 0
  /\ left' = left - 1
  /\ UNCHANGED <<phase, served, verdict>>

Close ==
  /\ phase = "open"
  /\ phase' = "closed"
  /\ UNCHANGED <<left, served, verdict>>

RTNext ==
  Open \/ OpenFails \/ Ask \/ AskFails \/ Serve \/ Answers \/ Fails \/ Expires
    \/ TimePasses \/ Close

RTSpec == RTInit /\ [][RTNext]_rtvars

\* Type of the abstract client.
RTTypeOK ==
  /\ phase \in {"closed", "open", "asked"}
  /\ left \in 0 .. FrameTimeout
  /\ served \in BOOLEAN
  /\ verdict \in Verdicts
=============================================================================
