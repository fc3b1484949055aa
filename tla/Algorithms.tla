----------------------------- MODULE Algorithms -----------------------------
(***************************************************************************)
(* The pure algorithms of zcode-axi on enumerated inputs: each state holds *)
(* one input, a rectangle repainted in a frame or a calendar day.  Days    *)
(* are walked one by one, beside the date that the calendar's own rule     *)
(* (months, leap years) gives them.                                        *)
(***************************************************************************)
EXTENDS FrameDiff, Calendar

CONSTANTS
  Widths, Heights,   \* sizes of frames
  Colours,           \* pixels
  Anchors,           \* <<day, date>> at which a walk over the days starts
  WalkLength,        \* bound: days walked from an anchor
  FirstOpening       \* the first second of the campaign, UTC

ASSUME AlgorithmsAssumption ==
  /\ Widths \subseteq Nat \ {0} /\ Heights \subseteq Nat \ {0}
  /\ Colours \subseteq (0 .. 255) \X (0 .. 255) \X (0 .. 255)
  /\ Anchors \subseteq Int \X (Nat \X Nat \X Nat)
  /\ WalkLength \in Nat /\ FirstOpening \in Nat

VARIABLE input

\* The repainted rectangle is made of whole blocks, from the corner to <<x, y>>.
Repaint == [kind : {"frame"}, w : Widths, h : Heights, ground : Colours,
            colour : Colours, x : 0 .. SigW - 1, y : 0 .. SigH - 1]

Init == input \in Repaint \cup
  {[kind |-> "day", walked |-> 0, day |-> a[1], date |-> a[2]] : a \in Anchors}

Leap(y) == (y % 4 = 0 /\ y % 100 # 0) \/ y % 400 = 0

MonthDays(y, m) ==
  CASE m = 2 -> IF Leap(y) THEN 29 ELSE 28
    [] m \in {4, 6, 9, 11} -> 30
    [] OTHER -> 31

DayAfter(date) ==
  IF date[3] < MonthDays(date[1], date[2]) THEN <<date[1], date[2], date[3] + 1>>
  ELSE IF date[2] < 12 THEN <<date[1], date[2] + 1, 1>>
  ELSE <<date[1] + 1, 1, 1>>

Tomorrow ==
  /\ input.kind = "day" /\ input.walked < WalkLength
  /\ input' = [input EXCEPT !.walked = @ + 1, !.day = @ + 1, !.date = DayAfter(@)]

Next == Tomorrow

Spec == Init /\ [][Next]_input

-----------------------------------------------------------------------------
(* framediff.rs *)

w == input.w
h == input.h
Grey(pixel) == Luma(pixel) \div 1000

\* Every pixel of a frame of any size is looked at, and no block is blind
\* (the bounds of `signature's loops, for frames smaller than the grid too).
BlocksCoverFrame ==
  input.kind = "frame" =>
    /\ UNION {Pixels(b, w, h) : b \in Blocks} = (0 .. w - 1) \X (0 .. h - 1)
    /\ \A b \in Blocks : Pixels(b, w, h) # {}

\* A change is an area: a repainted rectangle that touches too few blocks (a
\* blinking cursor) is never one, and one that fills enough blocks with enough
\* contrast (a dialog) always is, whichever frame came first (`diff').
ChangeIsAnArea ==
  input.kind = "frame" =>
    LET points == UNION {Pixels(b, w, h) : b \in (0 .. input.x) \X (0 .. input.y)}
        before == Signature(Painted(w, h, input.ground, input.ground, {}))
        after == Signature(Painted(w, h, input.ground, input.colour, points))
        touched == {b \in Blocks : Pixels(b, w, h) \cap points # {}}
        filled == {b \in Blocks : Pixels(b, w, h) \subseteq points}
    IN /\ Cardinality(touched) < Needed => ~Diff(before, after) /\ ~Diff(after, before)
       /\ /\ Cardinality(filled) >= Needed
          /\ Grey(input.ground) - Grey(input.colour) \notin -BlockDelta .. BlockDelta
          => Diff(before, after) /\ Diff(after, before)

\* Shrinking a frame for OCR reads inside it, keeps the order of its lines and
\* columns, reads none twice, and keeps its shape to half a line
\* (`downscale_rgba').
SamplesInOrder ==
  input.kind = "frame" => \A t \in 1 .. w - 1 :
    LET new_h == ShrunkHeight(w, h, t)
        inOrder(n, size) ==
          /\ \A i \in 0 .. n - 1 : Nearest(i, w, t, size) \in 0 .. size - 1
          /\ \A i \in 1 .. n - 1 : Nearest(i - 1, w, t, size) < Nearest(i, w, t, size)
    IN /\ inOrder(t, w) /\ inOrder(new_h, h)
       /\ new_h > 1 => 2 * new_h * w - 2 * h * t \in -w .. w

-----------------------------------------------------------------------------
(* window.rs, gui_queue.rs *)

\* The closed formulas agree with the calendar, day after day, both ways.
CivilIsCalendar ==
  input.kind = "day" =>
    CivilFromDays(input.day) = input.date /\ DaysFromCivil(input.date) = input.day

\* The openings of the campaign, one a day.
Openings == {FirstOpening + i * Day : i \in 0 .. WindowEndDay[3] - WindowStartDay[3]}

\* In_window inside an opening only; the next opening is the first one ahead,
\* while there is one; inside an opening and after the last day none is named.
\* Nothing is said of the last evening: see NextIsAnOpening.
RightAdvice(now) ==
  LET advice == Advise(now)
      ahead == {o \in Openings : o > now}
      inside == \E o \in Openings :
                  now \in o .. o + (WindowEndHour - WindowStartHour) * 3600 - 1
      over == now >= ToUnix(WindowEndDay, 24)
  IN /\ advice.in_window = inside
     /\ inside \/ over => advice.next = NoOpening
     /\ ~inside /\ ahead # {} => advice.next = Min(ahead)

\* The advice is right at the first and last second of every hour of 2026 that
\* is walked (`advise').
AdviceIsRight ==
  input.kind = "day" /\ input.date[1] = WindowStartDay[1] =>
    \A hour \in 0 .. 23, s \in {0, 3599} :
      RightAdvice(input.day * Day + hour * 3600 + s)

\* What the comment in `advise' says ("else the following day's 12:00 while the
\* campaign lasts"): whatever opening is named is one of the campaign's.  Fails
\* from 22:00 to midnight of the last day.
NextIsAnOpening ==
  input.kind = "day" /\ input.date[1] = WindowStartDay[1] =>
    \A hour \in 0 .. 23 :
      Advise(input.day * Day + hour * 3600).next \in Openings \cup {NoOpening}
=============================================================================
