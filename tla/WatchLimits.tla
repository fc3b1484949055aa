---------------------------- MODULE WatchLimits ----------------------------
(***************************************************************************)
(* The watch loop with a record of what its captures showed and what OCR   *)
(* answered, against which the two counters of cmd_watch are judged.  The  *)
(* record is kept beside the loop: no step of it depends on the record.    *)
(***************************************************************************)
EXTENDS Watch

VARIABLES
  captures,    \* the last StreakLimit captures of the loop, newest first
  reads        \* the last OcrLimit answers of OCR, newest first

record == <<captures, reads>>

Captures == [1 .. StreakLimit -> {"none", "black", "clear", "failed"}]
Reads == [1 .. OcrLimit -> {"none", "text", "failed"}]

\* A record h with x in front, as long as before.
Pushed(h, x) == [i \in DOMAIN h |-> IF i = 1 THEN x ELSE h[i - 1]]

Captured(x) == captures' = Pushed(captures, x) /\ UNCHANGED reads
Read(x) == reads' = Pushed(reads, x) /\ UNCHANGED captures

RecordedInit ==
  /\ Init
  /\ captures = [i \in 1 .. StreakLimit |-> "none"]
  /\ reads = [i \in 1 .. OcrLimit |-> "none"]

\* A step that neither captures nor reads.
Unrecorded ==
  \/ Gate \/ SendAlert \/ Emit \/ Bottom \/ TimeUp
  \/ ScreenChanges \/ IndexChanges \/ Tick \/ \E d \in WallSteps : SetWall(d)

RecordedNext ==
  \/ Capture /\ Captured(IF screen \in Uniform THEN "black" ELSE "clear")
  \/ CaptureFails /\ Captured("failed")
  \/ OcrError /\ Read("failed")
  \/ HandleText /\ Read("text")
  \/ Unrecorded /\ UNCHANGED record

RecordedSpec == RecordedInit /\ [][RecordedNext]_<<vars, record>>

\* The loop is one thread that never blocks for ever: hermes, sqlite3 and OCR
\* return, and a sleep ends.
RecordedFairSpec == RecordedSpec /\ WF_vars(Watcher)

-----------------------------------------------------------------------------
(* Properties *)

Blackout == \A i \in 1 .. StreakLimit : captures[i] = "black"
Unreadable == \A i \in 1 .. OcrLimit : reads[i] = "failed"

\* No capture of the loop was made, or the last one failed.
NoFrame == captures[1] \in {"none", "failed"}

\* "N consecutive solid-black frames" and "ocr failed N times in a row"
\* (cmd_watch): the loop gives up with its last StreakLimit captures black, or
\* with the last OcrLimit answers of OCR failures, neither later nor sooner;
\* else only when the gate did not open or a capture failed.
GivesUpAtTheLimit ==
  /\ Blackout \/ Unreadable => pc = "ended" /\ exit # "ok"
  /\ exit = "permission" => NoFrame \/ Blackout
  /\ exit = "runtime" => NoFrame \/ Unreadable

=============================================================================
