---------------------------- MODULE DispatchLane ----------------------------
(***************************************************************************)
(* What the GUI dispatch lane promises its users (README.md, "GUI dispatch *)
(* lane"): a request is handed off at most once, is never withdrawn, and   *)
(* the driver's take-the-work marker is never taken back.                  *)
(***************************************************************************)
CONSTANT Requests
VARIABLE state   \* request -> "absent", "queued" or "claimed"

Init == state = [r \in Requests |-> "absent"]

\* A request enters the lane.
Enqueue(r) == state[r] = "absent" /\ state' = [state EXCEPT ![r] = "queued"]

\* A driver takes the request; taking it again changes nothing.
Claim(r) == state[r] = "queued" /\ state' = [state EXCEPT ![r] = "claimed"]

Next == \E r \in Requests : Enqueue(r) \/ Claim(r)

Spec == Init /\ [][Next]_state
=============================================================================
