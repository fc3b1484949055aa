------------------------------ MODULE MCWatch ------------------------------
(* Small instances of Watch and its record, whose frames are small pictures. *)
EXTENDS WatchLimits, FrameDiff

CONSTANTS
  black, busy, blink, ask, finished, blank   \* frames

\* The dialog is open over a busy status line; the transcript of an earlier
\* task is visible under a busy one; the blank window shows no marker.
MCReadsAs == [f \in Frames |->
  CASE f = busy     -> {{"running"}}
    [] f = blink    -> {{"running", "done"}}
    [] f = ask      -> {{"approval", "running"}}
    [] f = finished -> {{"done"}}
    [] OTHER        -> {{}}]

White == <<255, 255, 255>>
Black == <<0, 0, 0>>

\* Eight by six pixels, so four to a block: a title bar, and the status line,
\* the transcript or the dialog under it.  The cursor is one pixel.
Title == (0 .. 7) \X {0}
Status == (0 .. 5) \X (4 .. 5)
MCPicture == [f \in Frames |->
  Painted(8, 6, Black, White,
    CASE f = busy     -> Title \cup Status
      [] f = blink    -> Title \cup Status \cup {<<7, 5>>}
      [] f = ask      -> Title \cup Status \cup ((1 .. 6) \X (2 .. 3))
      [] f = finished -> Title \cup ((0 .. 7) \X {2})
      [] f = blank    -> Title
      [] f = black    -> {})]

MCNear == [f \in Frames |->
  IF f \in {busy, blink} THEN {busy, blink} \cap Frames ELSE {f}]
MCUniform == {black} \cap Frames

\* The frames of Watch behave as their pictures do.
ASSUME PictureAssumption ==
  LET sig == [f \in Frames |-> Signature(MCPicture[f])]
  IN /\ Near = [f \in Frames |-> {g \in Frames : ~Diff(sig[f], sig[g])}]
     /\ Uniform = {f \in Frames : IsUniform(sig[f])}

\* The wall clock is set one alert window back or forward.
MCWallSteps == {-3, 3}
MCRows == {[task |-> 1, status |-> "completed"], [task |-> 2, status |-> "other"]}
=============================================================================
