----------------------------- MODULE MCGuiQueue -----------------------------
(* Small instances of GuiQueue. *)
EXTENDS GuiQueue

CONSTANTS alpha, beta, p1, p2, driver, b1, b2, b3

MCWords == {alpha, beta}

\* Byte order: the digits come before the letters.
MCTextRank == [t \in MCWords \cup 1 .. 9 |->
  IF t = alpha THEN 20 ELSE IF t = beta THEN 30 ELSE t]

\* Disjoint names: p1 enqueues "alpha", and "alpha-2", a name the suffix of
\* the first can take; p2 enqueues "beta".
MCSlugOf == [b \in {b1, b2, b3} |->
  IF b = b1 THEN <<alpha>> ELSE IF b = b2 THEN <<alpha, 2>> ELSE <<beta>>]
MCBriefsOf == [p \in Procs |->
  IF p = p1 THEN {b1, b2} ELSE IF p = p2 THEN {b3} ELSE {}]

\* One actor enqueues one brief again and again, the others claim and list.
OneBrief == [p \in Procs |-> IF p = p1 THEN {b1} ELSE {}]

\* Two actors dispatch the same brief.
SameBriefsOf == [p \in Procs |-> IF p = driver THEN {} ELSE {b1}]

\* A stray file takes the first name the brief b1 would get.
MCStray == {<<0, <<alpha>>>>}
=============================================================================
