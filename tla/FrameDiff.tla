----------------------------- MODULE FrameDiff -----------------------------
(***************************************************************************)
(* src/framediff.rs: what the watch loop compares.  A picture is a width,  *)
(* a height and the pixel at each point, a pixel its <<red, green, blue>>. *)
(* The f32 and f64 arithmetic of the code is exact here; the two differ    *)
(* only in how a quotient that is exactly a half or a whole rounds.        *)
(***************************************************************************)
EXTENDS Integers, FiniteSetsExt

CONSTANTS
  SigW, SigH,             \* SIG_W, SIG_H
  BlockDelta,             \* BLOCK_DELTA
  ChangeNum, ChangeDen    \* CHANGE_FRACTION

ASSUME FrameDiffAssumption ==
  /\ SigW \in Nat \ {0} /\ SigH \in Nat \ {0} /\ BlockDelta \in 0 .. 255
  /\ ChangeNum \in Nat \ {0} /\ ChangeDen \in Nat \ {0}

CeilDiv(a, b) == (a + b - 1) \div b

\* Mutant: a frame narrower than the grid has blocks with no pixel.
SpanMayBeEmpty(b, size, parts) ==
  (b * size) \div parts .. ((b + 1) * size) \div parts - 1

\* The pixels block b averages in one dimension: never none, never outside.
Span(b, size, parts) ==
  LET from == (b * size) \div parts
      to == Max({((b + 1) * size) \div parts, from + 1})
  IN from .. Min({to, size}) - 1

\* Rec. 601, in thousandths.
Luma(pixel) == 299 * pixel[1] + 587 * pixel[2] + 114 * pixel[3]

Blocks == (0 .. SigW - 1) \X (0 .. SigH - 1)

Pixels(b, w, h) == Span(b[1], w, SigW) \X Span(b[2], h, SigH)

Signature(pic) ==
  [b \in Blocks |->
     LET span == Pixels(b, pic.w, pic.h)
         luma(p) == Luma(pic.at[p])
     IN IF span = {} THEN 0
        ELSE Min({MapThenSumSet(luma, span) \div (Cardinality(span) * 1000), 255})]

IsUniform(sig) == \A b \in Blocks : sig[b] = sig[<<0, 0>>]

\* How many blocks make a change, and whether a block counts.
Needed == Max({1, CeilDiv(Cardinality(Blocks) * ChangeNum, ChangeDen)})
Counts(a, b) == a - b > BlockDelta \/ b - a > BlockDelta

\* Mutant: the threshold itself is no change.
DiffAboveNeeded(prev, cur) ==
  Cardinality({b \in Blocks : Counts(prev[b], cur[b])}) > Needed

Diff(prev, cur) == Cardinality({b \in Blocks : Counts(prev[b], cur[b])}) >= Needed

\* Mutant: the sample of a flat frame is not clamped.
NearestUnclamped(i, num, den, size) == ((2 * i + 1) * num) \div (2 * den)

\* The source line of line i of a picture shrunk by num/den:
\* round((i + 0.5) * step - 0.5), kept inside.
Nearest(i, num, den, size) == Min({((2 * i + 1) * num) \div (2 * den), size - 1})

ShrunkHeight(w, h, target) == Max({1, (2 * h * target + w) \div (2 * w)})

\* `downscale_rgba' to a width of target.
Shrink(pic, target) ==
  IF pic.w <= target THEN pic
  ELSE LET h == ShrunkHeight(pic.w, pic.h, target)
       IN [w |-> target, h |-> h,
           at |-> [p \in (0 .. target - 1) \X (0 .. h - 1) |->
                     pic.at[<<Nearest(p[1], pic.w, target, pic.w),
                              Nearest(p[2], pic.w, target, pic.h)>>]]]

\* A picture with one colour on the given points and another on the rest.
Painted(w, h, ground, colour, points) ==
  [w |-> w, h |-> h,
   at |-> [p \in (0 .. w - 1) \X (0 .. h - 1) |->
             IF p \in points THEN colour ELSE ground]]
=============================================================================
