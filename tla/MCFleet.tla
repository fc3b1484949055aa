------------------------------ MODULE MCFleet ------------------------------
(* Small instances of Fleet. *)
EXTENDS Fleet

CONSTANTS s1   \* a run of fleet-spawn

\* Two workers one after the other, in a TUI, and the tools two by two.
Interactive(tools, m, n) ==
  [tools |-> tools, sandboxed |-> FALSE, stamped |-> TRUE, oneShot |-> FALSE,
   prompt |-> TRUE, earlyWatch |-> FALSE,
   maxSpawns |-> m, maxWorking |-> 0, maxSteers |-> n, maxVerdicts |-> 1,
   maxWatches |-> 0]

\* One sandboxed worker and the watches armed for it one after the other.
Watched ==
  [tools |-> {"watchdog", "close"}, sandboxed |-> TRUE, stamped |-> FALSE,
   oneShot |-> TRUE, prompt |-> FALSE, earlyWatch |-> FALSE,
   maxSpawns |-> 1, maxWorking |-> 1, maxSteers |-> 0, maxVerdicts |-> 2,
   maxWatches |-> 2]

Fleets ==
  {Interactive({"archive", "watchdog", "close"}, 2, 0),
   Interactive({"archive", "steer", "close"}, 2, 1),
   Interactive({"watchdog", "steer", "close"}, 2, 1),
   Watched}

\* fleet-watchdog beside a coordinator who closes the task and retries its id.
Retried == {Interactive({"watchdog", "close"}, 2, 0)}

\* A one-shot worker that may report before its dispatched: line is written.
Prompted ==
  {[Watched EXCEPT !.tools = {}, !.sandboxed = FALSE, !.prompt = TRUE,
                   !.earlyWatch = TRUE, !.maxWorking = 0, !.maxWatches = 1]}
=============================================================================
