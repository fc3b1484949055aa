-------------------------- MODULE Algorithms_proofs --------------------------
(***************************************************************************)
(* The pure algorithms, for frames and grids of every size, every palette  *)
(* and every day: the blocks of a frame, changes, shrinking, the calendar  *)
(* and the advice.                                                         *)
(***************************************************************************)
EXTENDS Algorithms, FiniteSetTheorems, WellFoundedInduction, TLAPS

-----------------------------------------------------------------------------
(* Arithmetic *)

\* The bounds of a quotient, rounded down.
LEMMA DivBounds ==
  ASSUME NEW a \in Int, NEW d \in Nat \ {0}
  PROVE  a \div d \in Int /\ d * (a \div d) <= a /\ a < d * (a \div d) + d
OBVIOUS

\* The quotient is the number within those bounds.
LEMMA DivIs ==
  ASSUME NEW a \in Int, NEW d \in Nat \ {0}, NEW q \in Int, d * q <= a, a < d * q + d
  PROVE  a \div d = q
OBVIOUS

\* A quotient of natural numbers is one.
LEMMA DivNat ==
  ASSUME NEW a \in Nat, NEW d \in Nat \ {0}
  PROVE  a \div d \in Nat
OBVIOUS

\* A common factor is cancelled.
LEMMA Cancel ==
  ASSUME NEW a \in Int, NEW b \in Int, NEW d \in Nat \ {0}
  PROVE  /\ d * a < d * b => a < b
         /\ d * a <= d * b => a <= b
OBVIOUS

\* Multiplying by a natural number keeps the order.
LEMMA MulOrder ==
  ASSUME NEW a \in Int, NEW b \in Int, NEW d \in Nat, a <= b
  PROVE  d * a <= d * b
OBVIOUS

\* The larger and the smaller of two numbers.
LEMMA MaxOfTwo ==
  ASSUME NEW a \in Int, NEW b \in Int
  PROVE  Max({a, b}) = IF a >= b THEN a ELSE b
<1> DEFINE m == IF a >= b THEN a ELSE b
<1>1. m \in {a, b} /\ \A y \in {a, b} : m >= y
  OBVIOUS
<1>2. \A x \in {a, b} : (\A y \in {a, b} : x >= y) => x = m
  OBVIOUS
<1> HIDE DEF m
<1>3. Max({a, b}) = m
  BY <1>1, <1>2 DEF Max
<1> QED BY <1>3 DEF m

\* The smaller of two numbers.
LEMMA MinOfTwo ==
  ASSUME NEW a \in Int, NEW b \in Int
  PROVE  Min({a, b}) = IF a <= b THEN a ELSE b
<1> DEFINE m == IF a <= b THEN a ELSE b
<1>1. m \in {a, b} /\ \A y \in {a, b} : m <= y
  OBVIOUS
<1>2. \A x \in {a, b} : (\A y \in {a, b} : x <= y) => x = m
  OBVIOUS
<1> HIDE DEF m
<1>3. Min({a, b}) = m
  BY <1>1, <1>2 DEF Min
<1> QED BY <1>3 DEF m

\* A set of natural numbers has a least one.
LEMMA LeastExists ==
  ASSUME NEW T, T \subseteq Nat, T # {}
  PROVE  \E n \in T : \A m \in T : n <= m
<1> DEFINE R == OpToRel(<, Nat)
<1>1. IsWellFoundedOn(R, Nat)
  BY NatLessThanWellFounded
<1>2. \A a, b \in Nat : <<a, b>> \in R <=> a < b
  BY DEF OpToRel
<1> HIDE DEF R
<1>3. PICK n \in T : \A m \in T : <<m, n>> \notin R
  BY <1>1, WFMin
<1>4. n \in Nat /\ \A m \in T : m \in Nat /\ ~(m < n)
  BY <1>2, <1>3
<1> QED BY <1>4

-----------------------------------------------------------------------------
(* Inputs *)

\* What a walk over the days holds.
DayInput ==
  [kind : {"day"}, walked : 0 .. WalkLength, day : Int, date : Nat \X Nat \X Nat]
TypeOK == input \in Repaint \cup DayInput

\* Every input is a repainted frame or a day of a walk.
THEOREM TypeCorrect == Spec => []TypeOK
<1>1. Init => TypeOK
  <2> SUFFICES ASSUME NEW a \in Anchors,
                      input = [kind |-> "day", walked |-> 0, day |-> a[1], date |-> a[2]]
               PROVE  TypeOK
    BY DEF Init, TypeOK
  <2>1. a[1] \in Int /\ a[2] \in Nat \X Nat \X Nat /\ 0 \in 0 .. WalkLength
    BY AlgorithmsAssumption
  <2> QED BY <2>1 DEF TypeOK, DayInput
<1>2. TypeOK /\ [Next]_input => TypeOK'
  <2> SUFFICES ASSUME TypeOK, Tomorrow PROVE TypeOK'
    BY DEF TypeOK, Next
  <2>1. input \in DayInput /\ input.walked < WalkLength /\ WalkLength \in Nat
    BY AlgorithmsAssumption DEF Tomorrow, TypeOK, Repaint
  <2>2. input.walked + 1 \in 0 .. WalkLength /\ input.day + 1 \in Int
    BY <2>1 DEF DayInput
  <2>3. DayAfter(input.date) \in Nat \X Nat \X Nat
    <3>1. input.date \in Nat \X Nat \X Nat
      BY <2>1 DEF DayInput
    <3> QED BY <3>1 DEF DayAfter
  <2>4. input' = [kind |-> "day", walked |-> input.walked + 1, day |-> input.day + 1,
                  date |-> DayAfter(input.date)]
    BY <2>1 DEF Tomorrow, DayInput
  <2> QED BY <2>2, <2>3, <2>4 DEF TypeOK, DayInput
<1> QED BY <1>1, <1>2, PTL DEF Spec

-----------------------------------------------------------------------------
(* The blocks of a frame *)

\* Where the share of a block begins.
From(b, size, parts) == (b * size) \div parts

\* The span of a block: from the first pixel of its share up to the next block's,
\* one pixel at least, none outside.
LEMMA SpanIs ==
  ASSUME NEW size \in Nat \ {0}, NEW parts \in Nat \ {0}, NEW b \in 0 .. parts - 1
  PROVE  /\ From(b, size, parts) \in Nat /\ From(b + 1, size, parts) \in Nat
         /\ From(b, size, parts) < size
         /\ parts * From(b, size, parts) <= b * size
         /\ (b + 1) * size < parts * From(b + 1, size, parts) + parts
         /\ \A p : p \in Span(b, size, parts) <=>
                     /\ p \in Nat /\ From(b, size, parts) <= p /\ p < size
                     /\ p < From(b + 1, size, parts) \/ p = From(b, size, parts)
<1> DEFINE from == From(b, size, parts)
           upto == From(b + 1, size, parts)
           to == Max({upto, from + 1})
<1>1. b * size \in Nat /\ (b + 1) * size \in Nat /\ b * size < parts * size
  OBVIOUS
<1>2. /\ from \in Nat /\ upto \in Nat
      /\ parts * from <= b * size /\ (b + 1) * size < parts * upto + parts
  BY <1>1, DivBounds, DivNat DEF From
<1>5. Span(b, size, parts) = from .. Min({to, size}) - 1
  BY DEF Span, From
<1> HIDE DEF from, upto
<1>3. from < size
  <2>1. parts * from < parts * size
    BY <1>1, <1>2
  <2> QED BY <1>2, <2>1, Cancel
<1>4. to \in Nat /\ to = IF upto >= from + 1 THEN upto ELSE from + 1
  BY <1>2, MaxOfTwo
<1> HIDE DEF to
<1>6. Min({to, size}) = IF to <= size THEN to ELSE size
  BY <1>4, MinOfTwo
<1>7. \A p : p \in Span(b, size, parts) <=> p \in Nat /\ from <= p /\ p < to /\ p < size
  BY <1>2, <1>4, <1>5, <1>6
<1>8. \A p \in Nat : from <= p => (p < to <=> p < upto \/ p = from)
  BY <1>2, <1>4
<1>9. \A p : p \in Span(b, size, parts) <=>
               /\ p \in Nat /\ from <= p /\ p < size
               /\ p < upto \/ p = from
  BY <1>7, <1>8
<1> QED BY <1>2, <1>3, <1>9 DEF from, upto

\* The pixels of one dimension are covered by the spans, and no span is empty.
LEMMA SpansCover ==
  ASSUME NEW size \in Nat \ {0}, NEW parts \in Nat \ {0}
  PROVE  /\ \A b \in 0 .. parts - 1 :
              Span(b, size, parts) \subseteq 0 .. size - 1 /\ Span(b, size, parts) # {}
         /\ \A p \in 0 .. size - 1 : \E b \in 0 .. parts - 1 : p \in Span(b, size, parts)
<1>1. ASSUME NEW b \in 0 .. parts - 1
      PROVE  Span(b, size, parts) \subseteq 0 .. size - 1 /\ Span(b, size, parts) # {}
  <2>1. From(b, size, parts) \in Span(b, size, parts)
    BY SpanIs
  <2>2. Span(b, size, parts) \subseteq 0 .. size - 1
    BY SpanIs
  <2> QED BY <2>1, <2>2
<1>2. ASSUME NEW p \in 0 .. size - 1
      PROVE  \E b \in 0 .. parts - 1 : p \in Span(b, size, parts)
  <2> DEFINE n == (p + 1) * parts - 1
             b == n \div size
             from == From(b, size, parts)
             upto == From(b + 1, size, parts)
  <2>1. n \in Nat /\ n + 1 = parts * (p + 1) /\ n + 1 <= size * parts
    OBVIOUS
  <2> HIDE DEF n
  <2>2. b \in Nat /\ size * b <= n /\ n < size * b + size
    BY <2>1, DivBounds, DivNat
  <2> HIDE DEF b
  <2>3. b < parts
    <3>1. size * b < size * parts
      BY <2>1, <2>2
    <3> QED BY <2>2, <3>1, Cancel
  <2>4. b \in 0 .. parts - 1
    BY <2>2, <2>3
  <2>5. /\ from \in Nat /\ upto \in Nat
        /\ parts * from <= b * size /\ (b + 1) * size < parts * upto + parts
        /\ \A q : q \in Span(b, size, parts) <=>
                    /\ q \in Nat /\ from <= q /\ q < size
                    /\ q < upto \/ q = from
    BY <2>4, SpanIs
  <2> HIDE DEF from, upto
  <2>6. b * size = size * b /\ (b + 1) * size = size * b + size
    BY <2>2
  <2>7. from <= p
    <3>1. parts * from < parts * (p + 1)
      BY <2>1, <2>2, <2>5, <2>6
    <3> QED BY <2>5, <3>1, Cancel
  <2>8. p < upto
    <3>1. parts * (p + 1) < parts * upto + parts /\ parts * upto + parts = parts * (upto + 1)
      BY <2>1, <2>2, <2>5, <2>6
    <3>2. p + 1 < upto + 1
      BY <2>5, <3>1, Cancel
    <3> QED BY <2>5, <3>2
  <2> QED BY <2>4, <2>5, <2>7, <2>8
<1> QED BY <1>1, <1>2

\* Every pixel of a frame of any size, on a grid of any size, belongs to a block,
\* and every block has a pixel (`signature': no block is blind).
THEOREM EveryPixelCounts == Spec => []BlocksCoverFrame
<1>1. TypeOK => BlocksCoverFrame
  <2> SUFFICES ASSUME TypeOK, input.kind = "frame" PROVE
        /\ UNION {Pixels(b, w, h) : b \in Blocks} = (0 .. w - 1) \X (0 .. h - 1)
        /\ \A b \in Blocks : Pixels(b, w, h) # {}
    BY DEF BlocksCoverFrame
  <2>1. w \in Nat \ {0} /\ h \in Nat \ {0} /\ SigW \in Nat \ {0} /\ SigH \in Nat \ {0}
    BY FrameDiffAssumption, AlgorithmsAssumption DEF TypeOK, Repaint, DayInput, w, h
  <2> HIDE DEF w, h
  <2>2. ASSUME NEW b \in Blocks
        PROVE  /\ Pixels(b, w, h) \subseteq (0 .. w - 1) \X (0 .. h - 1)
               /\ Pixels(b, w, h) # {}
    <3>1. b[1] \in 0 .. SigW - 1 /\ b[2] \in 0 .. SigH - 1
      BY DEF Blocks
    <3>2. /\ Span(b[1], w, SigW) \subseteq 0 .. w - 1 /\ Span(b[1], w, SigW) # {}
          /\ Span(b[2], h, SigH) \subseteq 0 .. h - 1 /\ Span(b[2], h, SigH) # {}
      BY <2>1, <3>1, SpansCover
    <3> HIDE DEF Blocks
    <3>3. PICK x \in Span(b[1], w, SigW), y \in Span(b[2], h, SigH) : TRUE
      BY <3>2
    <3>4. <<x, y>> \in Pixels(b, w, h)
      BY DEF Pixels
    <3> QED BY <3>2, <3>4 DEF Pixels
  <2>3. ASSUME NEW p \in (0 .. w - 1) \X (0 .. h - 1)
        PROVE  \E b \in Blocks : p \in Pixels(b, w, h)
    <3>1. PICK x \in 0 .. SigW - 1 : p[1] \in Span(x, w, SigW)
      BY <2>1, SpansCover
    <3>2. PICK y \in 0 .. SigH - 1 : p[2] \in Span(y, h, SigH)
      BY <2>1, SpansCover
    <3>3. <<x, y>> \in Blocks /\ p \in Pixels(<<x, y>>, w, h)
      BY <3>1, <3>2 DEF Blocks, Pixels
    <3> QED BY <3>3
  <2> QED BY <2>2, <2>3
<1> QED BY <1>1, TypeCorrect, PTL

-----------------------------------------------------------------------------
(* Changes *)

\* What `signature' sums over a block.
Lit(pic, S) == MapThenSumSet(LAMBDA p : Luma(pic.at[p]), S)

\* The sum over a set of points of one brightness.
LEMMA SumIs ==
  ASSUME NEW pic, NEW S, IsFiniteSet(S), NEW l \in Nat, \A p \in S : Luma(pic.at[p]) = l
  PROVE  Lit(pic, S) = l * Cardinality(S)
<1> DEFINE step(g) ==
             [s \in SUBSET S |->
                IF s = {} THEN 0
                ELSE Luma(pic.at[CHOOSE x \in s : TRUE]) + g[s \ {CHOOSE x \in s : TRUE}]]
           iter == CHOOSE g : g = step(g)
           sum == [s \in SUBSET S |-> l * Cardinality(s)]
<1>1. Lit(pic, S) = iter[S]
  BY DEF Lit, MapThenSumSet, MapThenFoldSet
<1>2. \A s \in SUBSET S : s # {} => (CHOOSE x \in s : TRUE) \in s
  OBVIOUS
<1>3. \A s \in SUBSET S : IsFiniteSet(s) /\ Cardinality(s) \in Nat
  BY FS_Subset, FS_CardinalityType
<1>4. \A s \in SUBSET S : s # {} =>
        Cardinality(s \ {CHOOSE x \in s : TRUE}) = Cardinality(s) - 1
  BY <1>2, <1>3, FS_RemoveElement
<1>5. sum = step(sum)
  <2>1. ASSUME NEW s \in SUBSET S PROVE sum[s] = step(sum)[s]
    <3>1. CASE s = {}
      BY <3>1, FS_EmptySet
    <3>2. CASE s # {}
      <4> DEFINE x == CHOOSE x \in s : TRUE
      <4>1. x \in s /\ Cardinality(s \ {x}) = Cardinality(s) - 1
        BY <1>2, <1>4, <3>2
      <4>2. step(sum)[s] = Luma(pic.at[x]) + sum[s \ {x}]
        BY <3>2
      <4> HIDE DEF x, step
      <4>3. s \ {x} \in SUBSET S /\ Luma(pic.at[x]) = l
        BY <4>1
      <4>4. sum[s \ {x}] = l * (Cardinality(s) - 1)
        BY <4>1, <4>3
      <4> QED BY <1>3, <4>2, <4>3, <4>4
    <3> QED BY <3>1, <3>2
  <2> QED BY <2>1
<1>6. iter = step(iter)
  BY <1>5
<1> HIDE DEF iter
<1>7. \A s \in SUBSET S : iter[s] = l * Cardinality(s)
  <2> DEFINE wrong == {s \in SUBSET S : iter[s] # l * Cardinality(s)}
             sizes == {Cardinality(s) : s \in wrong}
  <2> SUFFICES ASSUME wrong # {} PROVE FALSE
    OBVIOUS
  <2>2. sizes \subseteq Nat /\ sizes # {}
    BY <1>3
  <2>3. PICK n \in sizes : \A m \in sizes : n <= m
    <3> HIDE DEF wrong, sizes
    <3> QED BY <2>2, LeastExists
  <2>4. PICK s \in wrong : n = Cardinality(s)
    OBVIOUS
  <2>5. s # {}
    <3>1. iter[{}] = 0 /\ Cardinality({}) = 0
      BY <1>6, FS_EmptySet
    <3>2. l * 0 = 0
      OBVIOUS
    <3> QED BY <3>1, <3>2
  <2> DEFINE x == CHOOSE x \in s : TRUE
  <2>6. x \in s /\ Cardinality(s \ {x}) = Cardinality(s) - 1
    BY <1>2, <1>4, <2>5
  <2>7. iter[s] = Luma(pic.at[x]) + iter[s \ {x}]
    BY <1>6, <2>5
  <2> HIDE DEF x, step
  <2>8. s \ {x} \in SUBSET S /\ Luma(pic.at[x]) = l
    BY <2>6
  <2>9. s \ {x} \notin wrong
    <3> SUFFICES ASSUME s \ {x} \in wrong PROVE FALSE
      OBVIOUS
    <3>1. Cardinality(s \ {x}) \in sizes
      OBVIOUS
    <3>2. Cardinality(s) \in Nat /\ Cardinality(s \ {x}) \in Nat
      BY <1>3
    <3> HIDE DEF sizes, wrong
    <3>3. Cardinality(s) <= Cardinality(s \ {x})
      BY <2>3, <2>4, <3>1
    <3> QED BY <2>6, <3>2, <3>3
  <2> QED BY <1>3, <2>6, <2>7, <2>8, <2>9
<1> QED BY <1>1, <1>7

\* Every 24-bit colour.
Palette == (0 .. 255) \X (0 .. 255) \X (0 .. 255)

\* A grey fits a byte: `signature' clamps nothing that is flat.
LEMMA Greys ==
  ASSUME NEW colour \in Palette
  PROVE  Luma(colour) \in Nat /\ Grey(colour) \in 0 .. 255
<1>1. colour[1] \in 0 .. 255 /\ colour[2] \in 0 .. 255 /\ colour[3] \in 0 .. 255
  BY SMT DEF Palette
<1>2. PICK r \in Int : r = colour[1] /\ 0 <= r /\ r <= 255
  BY <1>1, SMT
<1>3. PICK g \in Int : g = colour[2] /\ 0 <= g /\ g <= 255
  BY <1>1, SMT
<1>4. PICK b \in Int : b = colour[3] /\ 0 <= b /\ b <= 255
  BY <1>1, SMT
<1>5. PICK l \in Int : l = 299 * r + 587 * g + 114 * b
  OBVIOUS
<1>6. 0 <= l /\ l <= 255000
  BY <1>2, <1>3, <1>4, <1>5, SMT
<1>7. Luma(colour) = l
  BY <1>2, <1>3, <1>4, <1>5, SMT DEF Luma
<1> QED BY <1>6, <1>7, SMT DEF Grey

\* The average of equal numbers, rounded down.
LEMMA AverageIs ==
  ASSUME NEW l \in Nat, NEW n \in Nat \ {0}
  PROVE  (l * n) \div (n * 1000) = l \div 1000
<1>1. PICK q \in Int, d \in Nat \ {0} : d = 1000 /\ q = l \div d
  BY SMT
<1>2. d * q <= l /\ l < d * q + d
  BY <1>1, DivBounds
<1>3. n * (d * q) <= n * l
  BY <1>2, MulOrder
<1>4. n * (l + 1) <= n * (d * q + d)
  <2>1. l + 1 <= d * q + d
    BY <1>2
  <2> QED BY <2>1, MulOrder
<1>5. n * d \in Nat \ {0} /\ l * n \in Int
  OBVIOUS
<1>6. (n * d) * q <= l * n /\ l * n < (n * d) * q + n * d
  <2>1. /\ n * (d * q) = (n * d) * q /\ n * l = l * n /\ n * (l + 1) = l * n + n
        /\ n * (d * q + d) = (n * d) * q + n * d
    OBVIOUS
  <2>2. n > 0 /\ (n * d) * q \in Int /\ n * d \in Int /\ l * n \in Int
    OBVIOUS
  <2> QED BY <1>3, <1>4, <2>1, <2>2
<1>7. (l * n) \div (n * d) = q
  BY <1>5, <1>6, DivIs
<1> QED BY <1>1, <1>7, SMT

\* A block of one colour has that colour's grey.
LEMMA FlatBlock ==
  ASSUME NEW pic, pic.w \in Nat \ {0}, pic.h \in Nat \ {0},
         NEW b \in Blocks, NEW colour \in Palette,
         \A p \in Pixels(b, pic.w, pic.h) : pic.at[p] = colour
  PROVE  Signature(pic)[b] = Grey(colour)
<1> DEFINE span == Pixels(b, pic.w, pic.h)
<1>1. Span(b[1], pic.w, SigW) # {} /\ Span(b[1], pic.w, SigW) \subseteq 0 .. pic.w - 1
      /\ Span(b[2], pic.h, SigH) # {} /\ Span(b[2], pic.h, SigH) \subseteq 0 .. pic.h - 1
  <2>1. b[1] \in 0 .. SigW - 1 /\ b[2] \in 0 .. SigH - 1
    BY DEF Blocks
  <2> QED BY <2>1, SpansCover, FrameDiffAssumption
<1>2. IsFiniteSet(span) /\ span # {}
  <2>1. /\ IsFiniteSet(Span(b[1], pic.w, SigW)) /\ IsFiniteSet(Span(b[2], pic.h, SigH))
    <3>1. IsFiniteSet(0 .. pic.w - 1) /\ IsFiniteSet(0 .. pic.h - 1)
      <4>1. \A m \in Int : IsFiniteSet(0 .. m)
        BY FS_Interval
      <4>2. pic.w - 1 \in Int /\ pic.h - 1 \in Int
        OBVIOUS
      <4> QED BY <4>1, <4>2
    <3> QED BY <1>1, <3>1, FS_Subset
  <2>2. IsFiniteSet(span)
    BY <2>1, FS_Product DEF Pixels
  <2>3. span # {}
    <3>1. PICK x \in Span(b[1], pic.w, SigW), y \in Span(b[2], pic.h, SigH) : TRUE
      BY <1>1
    <3>2. <<x, y>> \in span
      BY DEF Pixels
    <3> QED BY <3>2
  <2> QED BY <2>2, <2>3
<1>3. PICK n \in Nat \ {0} : n = Cardinality(span)
  BY <1>2, FS_CardinalityType, FS_EmptySet
<1>4. PICK l \in Nat : l = Luma(colour)
  BY Greys
<1>5. Lit(pic, span) = l * n
  BY <1>2, <1>3, <1>4, SumIs
<1>6. Signature(pic)[b] = Min({Lit(pic, span) \div (n * 1000), 255})
  BY <1>2, <1>3 DEF Signature, Lit
<1>7. (l * n) \div (n * 1000) = Grey(colour)
  <2>1. (l * n) \div (n * 1000) = l \div 1000
    BY AverageIs
  <2> QED BY <1>4, <2>1 DEF Grey
<1>8. Signature(pic)[b] = Min({Grey(colour), 255})
  <2> HIDE DEF span
  <2> QED BY <1>5, <1>6, <1>7
<1>9. PICK g \in Int : g = Grey(colour) /\ g <= 255
  BY Greys
<1>10. Min({g, 255}) = g
  BY <1>9, MinOfTwo
<1> QED BY <1>8, <1>9, <1>10

\* The grid is finite, and how many blocks make a change is a number.
LEMMA SomeNeeded == IsFiniteSet(Blocks) /\ Needed \in Int
<1>1. SigW - 1 \in Int /\ SigH - 1 \in Int
  BY FrameDiffAssumption
<1>2. IsFiniteSet(Blocks) /\ Cardinality(Blocks) \in Nat
  <2>1. IsFiniteSet(0 .. SigW - 1) /\ IsFiniteSet(0 .. SigH - 1)
    <3>1. \A m \in Int : IsFiniteSet(0 .. m)
      BY FS_Interval
    <3> QED BY <1>1, <3>1
  <2>2. IsFiniteSet(Blocks)
    BY <2>1, FS_Product DEF Blocks
  <2> QED BY <2>2, FS_CardinalityType
<1>3. PICK n \in Nat : n = Cardinality(Blocks) * ChangeNum
  BY <1>2, FrameDiffAssumption
<1>4. PICK m \in Int : m = CeilDiv(n, ChangeDen)
  BY FrameDiffAssumption, DivBounds DEF CeilDiv
<1>5. Needed = Max({1, m})
  BY <1>3, <1>4 DEF Needed
<1>6. Max({1, m}) = IF 1 >= m THEN 1 ELSE m
  BY MaxOfTwo
<1> QED BY <1>2, <1>5, <1>6

\* On frames and grids of every size and in all colours, a repainted rectangle
\* that touches too few blocks is no change, and one that fills enough of them
\* with enough contrast is one (`diff').
THEOREM ChangesAreAreas == Spec => []ChangeIsAnArea
<1>1. TypeOK => ChangeIsAnArea
  <2> SUFFICES ASSUME TypeOK, input.kind = "frame" PROVE ChangeIsAnArea
    BY DEF ChangeIsAnArea
  <2> DEFINE ground == input.ground
             colour == input.colour
             points == UNION {Pixels(b, w, h) : b \in (0 .. input.x) \X (0 .. input.y)}
             old == Painted(w, h, ground, ground, {})
             new == Painted(w, h, ground, colour, points)
             before == Signature(old)
             after == Signature(new)
             touched == {b \in Blocks : Pixels(b, w, h) \cap points # {}}
             filled == {b \in Blocks : Pixels(b, w, h) \subseteq points}
             onward == {b \in Blocks : Counts(before[b], after[b])}
             back == {b \in Blocks : Counts(after[b], before[b])}
  <2>1. w \in Nat \ {0} /\ h \in Nat \ {0} /\ ground \in Palette /\ colour \in Palette
    <3>1. input \in Repaint
      BY DEF TypeOK, Repaint, DayInput
    <3>2. w \in Widths /\ h \in Heights /\ ground \in Colours /\ colour \in Colours
      BY <3>1 DEF Repaint, w, h
    <3> HIDE DEF w, h, ground, colour
    <3> QED BY <3>2, AlgorithmsAssumption DEF Palette
  <2> HIDE DEF w, h, ground, colour, points
  <2>2. ASSUME NEW b \in Blocks
        PROVE  Pixels(b, w, h) \subseteq (0 .. w - 1) \X (0 .. h - 1)
    <3>1. b[1] \in 0 .. SigW - 1 /\ b[2] \in 0 .. SigH - 1
      BY DEF Blocks
    <3>2. Span(b[1], w, SigW) \subseteq 0 .. w - 1 /\ Span(b[2], h, SigH) \subseteq 0 .. h - 1
      BY <2>1, <3>1, SpansCover, FrameDiffAssumption
    <3> QED BY <3>2 DEF Pixels
  <2>3. /\ old.w = w /\ old.h = h /\ new.w = w /\ new.h = h
        /\ \A p \in (0 .. w - 1) \X (0 .. h - 1) :
             old.at[p] = ground /\ new.at[p] = IF p \in points THEN colour ELSE ground
    BY DEF Painted
  <2> HIDE DEF old, new
  <2>4. ASSUME NEW b \in Blocks
        PROVE  /\ before[b] = Grey(ground)
               /\ b \notin touched => after[b] = Grey(ground)
               /\ b \in filled => after[b] = Grey(colour)
    <3>1. \A p \in Pixels(b, w, h) : old.at[p] = ground
      BY <2>2, <2>3
    <3>2. ASSUME b \notin touched
          PROVE  \A p \in Pixels(b, w, h) : new.at[p] = ground
      BY <2>2, <2>3, <3>2
    <3>3. ASSUME b \in filled
          PROVE  \A p \in Pixels(b, w, h) : new.at[p] = colour
      BY <2>2, <2>3, <3>3
    <3> HIDE DEF touched, filled
    <3> QED BY <2>1, <2>3, <3>1, <3>2, <3>3, FlatBlock
  <2>5. Grey(ground) \in Int /\ Grey(colour) \in Int /\ BlockDelta \in Int /\ 0 <= BlockDelta
    BY <2>1, Greys, FrameDiffAssumption
  <2> HIDE DEF before, after
  <2>6. onward \subseteq touched /\ back \subseteq touched
    <3>1. ASSUME NEW b \in Blocks, b \notin touched
          PROVE  ~Counts(before[b], after[b]) /\ ~Counts(after[b], before[b])
      <4>1. before[b] = Grey(ground) /\ after[b] = Grey(ground)
        BY <2>4, <3>1
      <4> QED BY <2>5, <4>1 DEF Counts
    <3> HIDE DEF touched
    <3> QED BY <3>1
  <2>7. ASSUME Grey(ground) - Grey(colour) \notin -BlockDelta .. BlockDelta
        PROVE  filled \subseteq onward /\ filled \subseteq back
    <3>1. ASSUME NEW b \in Blocks, b \in filled
          PROVE  Counts(before[b], after[b]) /\ Counts(after[b], before[b])
      <4>1. before[b] = Grey(ground) /\ after[b] = Grey(colour)
        BY <2>4, <3>1
      <4> QED BY <2>5, <2>7, <4>1 DEF Counts
    <3>2. filled \subseteq Blocks
      OBVIOUS
    <3> HIDE DEF filled
    <3> QED BY <3>1, <3>2
  <2>8. \A S \in SUBSET Blocks : \A T \in SUBSET S :
          Cardinality(S) \in Int /\ Cardinality(T) \in Int /\ Cardinality(T) <= Cardinality(S)
    <3>1. \A S \in SUBSET Blocks : IsFiniteSet(S)
      BY SomeNeeded, FS_Subset
    <3>2. \A S \in SUBSET Blocks : Cardinality(S) \in Nat
      BY <3>1, FS_CardinalityType
    <3>3. \A S \in SUBSET Blocks : \A T \in SUBSET S : Cardinality(T) <= Cardinality(S)
      BY <3>1, FS_Subset
    <3> QED BY <3>2, <3>3
  <2>9. /\ touched \in SUBSET Blocks /\ filled \in SUBSET Blocks
        /\ onward \in SUBSET Blocks /\ back \in SUBSET Blocks
    OBVIOUS
  <2>10. /\ Diff(before, after) <=> Cardinality(onward) >= Needed
         /\ Diff(after, before) <=> Cardinality(back) >= Needed
    BY DEF Diff
  <2> HIDE DEF touched, filled, onward, back
  <2>11. ASSUME Cardinality(touched) < Needed
         PROVE  ~Diff(before, after) /\ ~Diff(after, before)
    <3>1. /\ Cardinality(onward) <= Cardinality(touched) /\ Cardinality(onward) \in Int
          /\ Cardinality(back) <= Cardinality(touched) /\ Cardinality(back) \in Int
          /\ Cardinality(touched) \in Int
      BY <2>6, <2>8, <2>9
    <3> QED BY <2>10, <2>11, <3>1, SomeNeeded
  <2>12. ASSUME Cardinality(filled) >= Needed,
                Grey(ground) - Grey(colour) \notin -BlockDelta .. BlockDelta
         PROVE  Diff(before, after) /\ Diff(after, before)
    <3>1. /\ Cardinality(filled) <= Cardinality(onward) /\ Cardinality(onward) \in Int
          /\ Cardinality(filled) <= Cardinality(back) /\ Cardinality(back) \in Int
          /\ Cardinality(filled) \in Int
      BY <2>7, <2>8, <2>9, <2>12
    <3> QED BY <2>10, <2>12, <3>1, SomeNeeded
  <2> QED BY <2>11, <2>12
          DEF ChangeIsAnArea, points, ground, colour, old, new, before, after, touched, filled
<1> QED BY <1>1, TypeCorrect, PTL

-----------------------------------------------------------------------------
(* Shrinking *)

\* n lines sampled at a step of num/den lines, more than one, that do not reach
\* beyond the last line by more than half a step.
LEMMA InOrder ==
  ASSUME NEW num \in Nat, NEW den \in Nat \ {0}, den < num, NEW size \in Nat \ {0},
         NEW n \in Nat, n = 1 \/ 2 * n * num <= 2 * size * den + num
  PROVE  /\ \A i \in 0 .. n - 1 : Nearest(i, num, den, size) \in 0 .. size - 1
         /\ \A i \in 1 .. n - 1 : Nearest(i - 1, num, den, size) < Nearest(i, num, den, size)
<1> DEFINE Raw(i) == ((2 * i + 1) * num) \div (2 * den)
<1>1. ASSUME NEW i \in Nat
      PROVE  /\ Raw(i) \in Nat
             /\ 2 * den * Raw(i) <= (2 * i + 1) * num
             /\ (2 * i + 1) * num < 2 * den * Raw(i) + 2 * den
             /\ Nearest(i, num, den, size) = IF Raw(i) <= size - 1 THEN Raw(i) ELSE size - 1
  <2> DEFINE a == (2 * i + 1) * num
             d == 2 * den
  <2>1. a \in Nat /\ d \in Nat \ {0}
    OBVIOUS
  <2>2. Raw(i) \in Nat /\ d * Raw(i) <= a /\ a < d * Raw(i) + d
    <3>1. Raw(i) = a \div d
      OBVIOUS
    <3> HIDE DEF a, d, Raw
    <3> QED BY <2>1, <3>1, DivBounds, DivNat
  <2>3. Nearest(i, num, den, size) = Min({Raw(i), size - 1})
    BY DEF Nearest
  <2> HIDE DEF Raw
  <2> QED BY <2>2, <2>3, MinOfTwo
<1> HIDE DEF Raw
<1>2. ASSUME NEW i \in 1 .. n - 1
      PROVE  Raw(i - 1) < Raw(i) /\ Raw(i - 1) < size - 1
  <2> DEFINE a == Raw(i - 1)
             b == Raw(i)
  <2>1. /\ a \in Nat /\ b \in Nat
        /\ 2 * den * a <= (2 * i - 1) * num
        /\ (2 * i + 1) * num < 2 * den * b + 2 * den
    <3>1. i - 1 \in Nat /\ i \in Nat /\ 2 * (i - 1) + 1 = 2 * i - 1
      OBVIOUS
    <3> QED BY <1>1, <3>1
  <2> HIDE DEF a, b
  <2>2. (2 * i + 1) * num = (2 * i - 1) * num + 2 * num
    OBVIOUS
  <2>3. 2 * den * a < 2 * den * b
    BY <2>1, <2>2
  <2>4. 2 * den * a < 2 * den * (size - 1)
    <3>1. (2 * i - 1) * num <= (2 * n - 3) * num
      OBVIOUS
    <3>2. (2 * n - 3) * num = 2 * n * num - 3 * num
      OBVIOUS
    <3>3. 2 * den * (size - 1) = 2 * size * den - 2 * den
      OBVIOUS
    <3> QED BY <2>1, <3>1, <3>2, <3>3
  <2>5. 2 * den \in Nat \ {0}
    OBVIOUS
  <2>6. a < b /\ a < size - 1
    BY <2>1, <2>3, <2>4, <2>5, Cancel
  <2> QED BY <2>6 DEF a, b
<1>3. \A i \in 0 .. n - 1 : Nearest(i, num, den, size) \in 0 .. size - 1
  BY <1>1
<1>4. ASSUME NEW i \in 1 .. n - 1
      PROVE  Nearest(i - 1, num, den, size) < Nearest(i, num, den, size)
  <2>1. i - 1 \in Nat /\ i \in Nat /\ Raw(i - 1) < Raw(i) /\ Raw(i - 1) < size - 1
    BY <1>2
  <2>2. /\ Raw(i - 1) \in Nat /\ Raw(i) \in Nat
        /\ Nearest(i - 1, num, den, size) =
             IF Raw(i - 1) <= size - 1 THEN Raw(i - 1) ELSE size - 1
        /\ Nearest(i, num, den, size) = IF Raw(i) <= size - 1 THEN Raw(i) ELSE size - 1
    BY <1>1, <2>1
  <2> QED BY <2>1, <2>2
<1> QED BY <1>3, <1>4

\* Shrinking a frame of any size to any smaller width reads inside it, keeps the
\* order of its lines and columns, reads none twice, and keeps its shape to half a
\* line (`downscale_rgba').
THEOREM ShrinksInOrder == Spec => []SamplesInOrder
<1>1. TypeOK => SamplesInOrder
  <2> SUFFICES ASSUME TypeOK, input.kind = "frame", NEW t \in 1 .. w - 1,
                      NEW new_h, new_h = ShrunkHeight(w, h, t)
               PROVE  /\ \A i \in 0 .. t - 1 : Nearest(i, w, t, w) \in 0 .. w - 1
                      /\ \A i \in 1 .. t - 1 : Nearest(i - 1, w, t, w) < Nearest(i, w, t, w)
                      /\ \A i \in 0 .. new_h - 1 : Nearest(i, w, t, h) \in 0 .. h - 1
                      /\ \A i \in 1 .. new_h - 1 :
                           Nearest(i - 1, w, t, h) < Nearest(i, w, t, h)
                      /\ new_h > 1 => 2 * new_h * w - 2 * h * t \in -w .. w
    BY DEF SamplesInOrder
  <2>1. w \in Nat \ {0} /\ h \in Nat \ {0}
    BY AlgorithmsAssumption DEF TypeOK, Repaint, DayInput, w, h
  <2> HIDE DEF w, h
  <2>2. t \in Nat \ {0} /\ t < w
    BY <2>1
  <2> DEFINE rounded == (2 * h * t + w) \div (2 * w)
  <2>3. /\ rounded \in Nat /\ 2 * w * rounded <= 2 * h * t + w
        /\ 2 * h * t + w < 2 * w * rounded + 2 * w
        /\ new_h = Max({1, rounded})
    <3> DEFINE a == 2 * h * t + w
               d == 2 * w
    <3>1. a \in Nat /\ d \in Nat \ {0}
      BY <2>1, <2>2
    <3>2. rounded = a \div d /\ new_h = Max({1, a \div d})
      BY DEF ShrunkHeight
    <3>3. a \div d \in Nat /\ d * (a \div d) <= a /\ a < d * (a \div d) + d
      <4> HIDE DEF a, d
      <4> QED BY <3>1, DivBounds, DivNat
    <3> HIDE DEF rounded
    <3> QED BY <3>2, <3>3
  <2> HIDE DEF rounded
  <2>4. new_h = IF 1 >= rounded THEN 1 ELSE rounded
    BY <2>3, MaxOfTwo
  <2>5. /\ \A i \in 0 .. t - 1 : Nearest(i, w, t, w) \in 0 .. w - 1
        /\ \A i \in 1 .. t - 1 : Nearest(i - 1, w, t, w) < Nearest(i, w, t, w)
    <3>1. 2 * t * w <= 2 * w * t + w
      BY <2>1, <2>2
    <3> QED BY <2>1, <2>2, <3>1, InOrder
  <2>6. /\ \A i \in 0 .. new_h - 1 : Nearest(i, w, t, h) \in 0 .. h - 1
        /\ \A i \in 1 .. new_h - 1 : Nearest(i - 1, w, t, h) < Nearest(i, w, t, h)
    <3>1. new_h \in Nat /\ (new_h = 1 \/ 2 * new_h * w <= 2 * h * t + w)
      BY <2>1, <2>3, <2>4
    <3> QED BY <2>1, <2>2, <3>1, InOrder
  <2>7. new_h > 1 => 2 * new_h * w - 2 * h * t \in -w .. w
    BY <2>1, <2>2, <2>3, <2>4
  <2> QED BY <2>5, <2>6, <2>7
<1> QED BY <1>1, TypeCorrect, PTL

-----------------------------------------------------------------------------
(* The calendar *)

\* A date that the calendar has, in any year.
ValidDate(date) ==
  /\ date = <<date[1], date[2], date[3]>>
  /\ date[1] \in Int /\ date[2] \in 1 .. 12 /\ date[3] \in 1 .. MonthDays(date[1], date[2])

\* Years and months counted from March, the days before each.
MarchYear(date) == IF date[2] <= 2 THEN date[1] - 1 ELSE date[1]
MarchMonth(date) == IF date[2] > 2 THEN date[2] - 3 ELSE date[2] + 9
YearStart(y) == 365 * y + y \div 4 - y \div 100 + y \div 400
MonthStart(mp) == (153 * mp + 2) \div 5
YearLength(y) == IF Leap(y + 1) THEN 366 ELSE 365
MonthLength(mp) == IF mp = 11 THEN 29 ELSE IF mp \in {1, 3, 6, 8} THEN 30 ELSE 31

\* Whole division of any integer, from Rust's division towards zero.
LEMMA WholeDivision ==
  ASSUME NEW a \in Int
  PROVE  /\ TruncDiv(IF a >= 0 THEN a ELSE a - 399, 400) = a \div 400
         /\ TruncDiv(IF a >= 0 THEN a ELSE a - 146096, 146097) = a \div 146097
BY DEF TruncDiv

\* A year begins where the one before it ends, leap day and all.
LEMMA LeapYears ==
  ASSUME NEW y \in Int
  PROVE  YearStart(y) \in Int /\ YearStart(y + 1) = YearStart(y) + YearLength(y)
BY DEF YearStart, YearLength, Leap

\* The days before a month are a whole number.
LEMMA MonthStartType ==
  ASSUME NEW mp \in Int
  PROVE  MonthStart(mp) \in Int
BY DEF MonthStart

\* A month begins where the one before it ends.
LEMMA MonthStarts ==
  ASSUME NEW mp \in 0 .. 11
  PROVE  /\ MonthStart(mp) \in 0 .. 337
         /\ mp < 11 => MonthStart(mp + 1) = MonthStart(mp) + MonthLength(mp)
         /\ mp = 11 => MonthStart(mp) = 337
         /\ mp = 0 => MonthStart(mp) = 0
BY DEF MonthStart, MonthLength

\* A day of a month is in that month.
LEMMA MonthOfDay ==
  ASSUME NEW mp \in 0 .. 11, NEW d \in 1 .. MonthLength(mp)
  PROVE  (5 * (MonthStart(mp) + d - 1) + 2) \div 153 = mp
BY DEF MonthStart, MonthLength

\* The month of a day of the year, and its day of the month.
LEMMA DayInMonth ==
  ASSUME NEW doy \in 0 .. 365, NEW mp, mp = (5 * doy + 2) \div 153
  PROVE  mp \in 0 .. 11 /\ doy - MonthStart(mp) + 1 \in 1 .. MonthLength(mp)
BY DEF MonthStart, MonthLength

\* days_from_civil adds up the years, the months and the days.
LEMMA DaysAre ==
  ASSUME NEW date, ValidDate(date)
  PROVE  DaysFromCivil(date) =
           YearStart(MarchYear(date)) + MonthStart(MarchMonth(date)) + date[3] - 719469
<1>1. /\ MarchYear(date) \in Int /\ MarchMonth(date) \in 0 .. 11 /\ date[3] \in Int
      /\ MarchYear(date) = date[1] - (IF date[2] <= 2 THEN 1 ELSE 0)
      /\ MonthStart(MarchMonth(date)) \in Int
  <2>1. date[1] \in Int /\ date[2] \in 1 .. 12 /\ date[3] \in Int
    BY DEF ValidDate, MonthDays
  <2> QED BY <2>1, MonthStarts DEF MarchYear, MarchMonth
<1> DEFINE y == MarchYear(date)
           era == y \div 400
           yoe == y - era * 400
           mp == MarchMonth(date)
<1>2. DaysFromCivil(date) = era * 146097 + yoe * 365 + yoe \div 4 - yoe \div 100
                             + (MonthStart(mp) + date[3] - 1) - 719468
  BY <1>1, WholeDivision DEF DaysFromCivil, MarchMonth, MonthStart
<1>3. era * 146097 + yoe * 365 + yoe \div 4 - yoe \div 100 = YearStart(y)
  <2> HIDE DEF y
  <2>1. y \in Int
    BY <1>1 DEF y
  <2> QED BY <2>1 DEF YearStart
<1>4. YearStart(y) \in Int
  BY <1>1, LeapYears
<1> HIDE DEF y, era, yoe, mp
<1> QED BY <1>1, <1>2, <1>3, <1>4 DEF y, mp

\* Year r of the four-year cycle q of the century c of the 400 years e, the days
\* before it, a day of it within the 400 years, and whether it ends in a leap day.
YearAt(e, c, q, r) == 400 * e + 100 * c + 4 * q + r
StartAt(e, c, q, r) == 146097 * e + 36524 * c + 1461 * q + 365 * r
DayAt(c, q, r, doy) == 36524 * c + 1461 * q + 365 * r + doy
YoeAt(c, q, r) == 100 * c + 4 * q + r
DayOf(c, q, r, doy) == doy \in 0 .. 365 /\ (doy = 365 => r = 3 /\ (q # 24 \/ c = 3))
LengthAt(c, q, r) == IF r = 3 /\ (q # 24 \/ c = 3) THEN 366 ELSE 365

\* A year within its 400 years: centuries, four-year cycles and years; the days
\* before it; and whether it ends with a leap day.
LEMMA YearParts ==
  ASSUME NEW e \in Int, NEW c \in 0 .. 3, NEW q \in 0 .. 24, NEW r \in 0 .. 3
  PROVE  /\ YearAt(e, c, q, r) \in Int
         /\ YearStart(YearAt(e, c, q, r)) = StartAt(e, c, q, r)
         /\ YearLength(YearAt(e, c, q, r)) = LengthAt(c, q, r)
<1> DEFINE y == YearAt(e, c, q, r)
<1>1. y = 400 * e + 100 * c + 4 * q + r /\ y \in Int
  BY DEF YearAt
<1> HIDE DEF y
<1>5. y \div 4 = 100 * e + 25 * c + q /\ y \div 100 = 4 * e + c /\ y \div 400 = e
  BY <1>1, SMT
<1>6. YearStart(y) = 146097 * e + 36524 * c + 1461 * q + 365 * r
  BY <1>1, <1>5, SMT DEF YearStart
<1>7. YearLength(y) = IF r = 3 /\ (q # 24 \/ c = 3) THEN 366 ELSE 365
  <2>1. (y + 1) % 4 = 0 <=> r = 3
    BY <1>1, SMT
  <2>2. r = 3 => ((y + 1) % 100 = 0 <=> q = 24)
    BY <1>1, SMT
  <2>3. r = 3 => ((y + 1) % 400 = 0 <=> q = 24 /\ c = 3)
    BY <1>1, SMT
  <2>4. r # 3 => (y + 1) % 400 # 0
    BY <1>1, SMT
  <2> QED BY <2>1, <2>2, <2>3, <2>4, SMT DEF YearLength, Leap
<1> QED BY <1>1, <1>6, <1>7 DEF y, StartAt, LengthAt

\* Every day is a day of a year.
LEMMA DayParts ==
  ASSUME NEW n \in Int
  PROVE  \E y \in Int : YearStart(y) <= n /\ n < YearStart(y) + YearLength(y)
<1>1. PICK e \in Int, s \in Int : e = n \div 146097 /\ s = n - 146097 * e
  OBVIOUS
<1>2. PICK c \in Int, t \in Int :
        c = (IF s = 146096 THEN 3 ELSE s \div 36524) /\ t = s - 36524 * c
  OBVIOUS
<1>3. PICK q \in Int, u \in Int : q = t \div 1461 /\ u = t - 1461 * q
  OBVIOUS
<1>4. PICK r \in Int : r = IF u = 1460 THEN 3 ELSE u \div 365
  OBVIOUS
<1>5. 0 <= s /\ s <= 146096
  BY <1>1, SMT
<1>6. 0 <= c /\ c <= 3 /\ 0 <= t /\ t <= 36524 /\ (c < 3 => t < 36524)
  BY <1>2, <1>5, SMT
<1>7. 0 <= q /\ q <= 24 /\ 0 <= u /\ u <= 1460 /\ (q = 24 /\ c < 3 => u < 1460)
  <2>1. 0 <= q /\ q <= 24 /\ 0 <= u /\ u <= 1460
    BY <1>3, <1>6, SMT
  <2>2. q = 24 /\ c < 3 => u < 1460
    BY <1>3, <1>6, SMT
  <2> QED BY <2>1, <2>2
<1>8. 0 <= r /\ r <= 3 /\ 365 * r <= u /\ u <= 365 * r + 365
      /\ (u = 365 * r + 365 => u = 1460 /\ r = 3)
  BY <1>4, <1>7, SMT
<1> DEFINE y == YearAt(e, c, q, r)
<1>10. n = 146097 * e + 36524 * c + 1461 * q + u
  BY <1>1, <1>2, <1>3, SMT
<1>11. /\ y \in Int /\ YearStart(y) = StartAt(e, c, q, r)
       /\ YearLength(y) = LengthAt(c, q, r)
  <2>1. c \in 0 .. 3 /\ q \in 0 .. 24 /\ r \in 0 .. 3
    BY <1>6, <1>7, <1>8, SMT
  <2> QED BY <2>1, YearParts, ZenonT(40)
<1> HIDE DEF y
<1>12. YearStart(y) <= n /\ n < YearStart(y) + YearLength(y)
  BY <1>6, <1>7, <1>8, <1>10, <1>11, SMT DEF StartAt, LengthAt
<1> QED BY <1>11, <1>12

\* The closed formula for the year of a day of the 400 years.
LEMMA YearOfDay ==
  ASSUME NEW c \in 0 .. 3, NEW q \in 0 .. 24, NEW r \in 0 .. 3, NEW doy \in Int,
         DayOf(c, q, r, doy)
  PROVE  YearOfEra(DayAt(c, q, r, doy)) = YoeAt(c, q, r)
<1> USE DEF DayOf
<1> DEFINE years == 100 * c + 4 * q + r
<1>1. PICK s \in Int : s = 1461 * q + 365 * r + doy
  OBVIOUS
<1>a. PICK doe \in Int : doe = 36524 * c + s
  OBVIOUS
<1>b. PICK k \in Int : k = 24 * c + q + 365 * r + doy
  OBVIOUS
<1>2. PICK e \in {0, 1} : e = 1 <=> k >= 1460
  <2>1. CASE k >= 1460
    BY <2>1
  <2>2. CASE ~(k >= 1460)
    BY <2>2
  <2> QED BY <2>1, <2>2
<1>c. PICK f \in {0, 1} : f = 1 <=> doe >= 146096
  <2>1. CASE doe >= 146096
    BY <2>1
  <2>2. CASE ~(doe >= 146096)
    BY <2>2
  <2> QED BY <2>1, <2>2
<1>3. doe \div 1460 = 25 * c + q + e
  <2>1. k \in 0 .. 1556 /\ doe = 1460 * (25 * c + q) + k
    BY <1>1, <1>a, <1>b
  <2> QED BY <1>2, <2>1
<1>4. doe \div 36524 = c + f /\ doe \div 146096 = f
  <2>1. 0 <= s /\ s <= 36524
    BY <1>1, SMT
  <2>2. s = 36524 => c = 3
    BY <1>1, SMT
  <2>3. CASE s = 36524
    BY <1>a, <1>c, <2>2, <2>3, SMT
  <2>4. CASE s < 36524
    BY <1>a, <1>c, <2>1, <2>4, SMT
  <2> QED BY <1>1, <2>1, <2>3, <2>4, SMT
<1>5. doy - e \in 0 .. 364
  BY <1>b, <1>2
<1>6. doe - doe \div 1460 + doe \div 36524 - doe \div 146096 = 365 * years + (doy - e)
  BY <1>1, <1>a, <1>3, <1>4
<1>7. YearOfEra(doe) = (365 * years + (doy - e)) \div 365
  BY <1>6 DEF YearOfEra
<1>8. years \in Int
  OBVIOUS
<1> HIDE DEF years
<1>9. YearOfEra(doe) = years
  BY <1>5, <1>7, <1>8
<1>10. doe = DayAt(c, q, r, doy) /\ years = YoeAt(c, q, r)
  BY <1>1, <1>a, SMT DEF years, DayAt, YoeAt
<1> QED BY <1>9, <1>10

\* Every year has a place in its 400 years.
LEMMA EveryYear ==
  ASSUME NEW y \in Int
  PROVE  \E e \in Int, c \in 0 .. 3, q \in 0 .. 24, r \in 0 .. 3 : y = YearAt(e, c, q, r)
<1>1. PICK e \in Int, a \in Int : e = y \div 400 /\ a = y - 400 * e
  OBVIOUS
<1>2. PICK c \in Int, b \in Int : c = a \div 100 /\ b = a - 100 * c
  OBVIOUS
<1>3. PICK q \in Int, r \in Int : q = b \div 4 /\ r = b - 4 * q
  OBVIOUS
<1>4. 0 <= a /\ a < 400 /\ 0 <= b /\ b < 100 /\ 0 <= r /\ r < 4
  BY <1>1, <1>2, <1>3, SMT
<1>5. 0 <= c /\ c <= 3 /\ 0 <= q /\ q <= 24
  BY <1>2, <1>3, <1>4, SMT
<1>6. c \in 0 .. 3 /\ q \in 0 .. 24 /\ r \in 0 .. 3 /\ y = YearAt(e, c, q, r)
  BY <1>1, <1>2, <1>3, <1>4, <1>5, SMT DEF YearAt
<1> QED BY <1>6, Zenon

\* Day doy of the year y that begins in March.
DateOf(y, doy) ==
  LET mp == (5 * doy + 2) \div 153
      m == IF mp < 10 THEN mp + 3 ELSE mp - 9
  IN <<CivilYear(y, m), m, doy - MonthStart(mp) + 1>>

\* civil_from_days finds the year that a day is in and the day of that year.
LEMMA CivilIs ==
  ASSUME NEW y \in Int, NEW doy \in Int, 0 <= doy, doy < YearLength(y)
  PROVE  CivilFromDays(YearStart(y) + doy - 719468) = DateOf(y, doy)
<1>1. PICK e \in Int, c \in 0 .. 3, q \in 0 .. 24, r \in 0 .. 3 : y = YearAt(e, c, q, r)
  BY EveryYear
<1>2. YearStart(y) = StartAt(e, c, q, r) /\ YearLength(y) = LengthAt(c, q, r)
  BY <1>1, YearParts, Zenon
<1>3. doy \in 0 .. 365 /\ (doy = 365 => r = 3 /\ (q # 24 \/ c = 3))
  BY <1>2, SMT DEF LengthAt
<1>4. PICK n \in Int : n = YearStart(y) + doy - 719468
  BY <1>2 DEF StartAt
<1>5. PICK doe \in Int, yoe \in Int : doe = DayAt(c, q, r, doy) /\ yoe = YoeAt(c, q, r)
  BY DEF DayAt, YoeAt
<1>6. n + 719468 = 146097 * e + doe /\ 0 <= doe /\ doe < 146097
  BY <1>2, <1>3, <1>4, <1>5, SMT DEF StartAt, DayAt
<1>7. TruncDiv(IF n + 719468 >= 0 THEN n + 719468 ELSE n + 719468 - 146096, 146097) = e
  BY <1>6, SMT DEF TruncDiv
<1>8. YearOfEra(doe) = yoe
  <2>1. YearOfEra(DayAt(c, q, r, doy)) = YoeAt(c, q, r)
    <3>1. DayOf(c, q, r, doy)
      BY <1>3 DEF DayOf
    <3> QED BY <3>1, YearOfDay, Zenon
  <2> QED BY <1>5, <2>1
<1>9. doe - (365 * yoe + yoe \div 4 - yoe \div 100) = doy
  <2>1. yoe \div 4 = 25 * c + q /\ yoe \div 100 = c
    BY <1>5, SMT DEF YoeAt
  <2> QED BY <1>5, <2>1, SMT DEF DayAt, YoeAt
<1>10. yoe + e * 400 = y /\ n + 719468 - e * 146097 = doe
  BY <1>1, <1>5, <1>6, SMT DEF YearAt, YoeAt
<1>11. CivilFromDays(n) = DateOf(y, doy)
  <2> DEFINE z == n + 719468
             era == TruncDiv(IF z >= 0 THEN z ELSE z - 146096, 146097)
             de == z - era * 146097
             ye == YearOfEra(de)
             dy == de - (365 * ye + ye \div 4 - ye \div 100)
             mp == (5 * dy + 2) \div 153
             m == IF mp < 10 THEN mp + 3 ELSE mp - 9
  <2>1. CivilFromDays(n) = <<CivilYear(ye + era * 400, m), m, dy - MonthStart(mp) + 1>>
    BY DEF CivilFromDays, MonthStart
  <2>2. era = e
    BY <1>7
  <2> HIDE DEF era
  <2>3. de = doe
    BY <1>10, <2>2
  <2> HIDE DEF de
  <2>4. ye = yoe
    BY <1>8, <2>3
  <2> HIDE DEF ye
  <2>5. dy = doy
    BY <1>9, <2>3, <2>4
  <2> HIDE DEF dy
  <2>6. ye + era * 400 = y
    BY <1>10, <2>2, <2>4
  <2> QED BY <2>1, <2>5, <2>6 DEF DateOf
<1> QED BY <1>4, <1>11, SMT

\* A day of a year has a date, and days_from_civil counts back to it.
LEMMA DateIsValid ==
  ASSUME NEW y \in Int, NEW doy \in Int, 0 <= doy, doy < YearLength(y)
  PROVE  ValidDate(DateOf(y, doy)) /\ DaysFromCivil(DateOf(y, doy)) = YearStart(y) + doy - 719468
<1>1. PICK mp \in Int : mp = (5 * doy + 2) \div 153
  OBVIOUS
<1>2. PICK m \in Int, d \in Int :
        m = (IF mp < 10 THEN mp + 3 ELSE mp - 9) /\ d = doy - MonthStart(mp) + 1
  BY DEF MonthStart
<1>3. doy \in 0 .. 365
  BY DEF YearLength
<1>4. mp \in 0 .. 11 /\ d \in 1 .. MonthLength(mp)
  BY <1>1, <1>2, <1>3, DayInMonth
<1>5. m \in 1 .. 12
  BY <1>2, <1>4
<1>6. PICK date : date = DateOf(y, doy)
  OBVIOUS
<1>7. date = <<CivilYear(y, m), m, d>>
  BY <1>1, <1>2, <1>6 DEF DateOf
<1>8. date[1] = (IF m <= 2 THEN y + 1 ELSE y) /\ date[2] = m /\ date[3] = d
  BY <1>7 DEF CivilYear
<1>9. d \in 1 .. MonthDays(date[1], m)
  <2>1. mp = 11 /\ ~Leap(y + 1) => d <= 28
    BY <1>2, <1>4, MonthStarts DEF YearLength
  <2> QED BY <1>2, <1>4, <1>5, <1>8, <2>1 DEF MonthDays, MonthLength
<1>10. ValidDate(date)
  BY <1>5, <1>7, <1>8, <1>9 DEF ValidDate
<1>11. MarchYear(date) = y /\ MarchMonth(date) = mp
  BY <1>2, <1>4, <1>5, <1>8 DEF MarchYear, MarchMonth
<1>12. MonthStart(mp) \in Int /\ YearStart(y) \in Int
  <2>1. MonthStart(mp) \in Int
    BY <1>4, MonthStartType
  <2>2. YearStart(y) \in Int
    BY LeapYears
  <2> QED BY <2>1, <2>2
<1> QED BY <1>2, <1>6, <1>8, <1>10, <1>11, <1>12, DaysAre

\* Every date is a day of a year.
LEMMA DateIsOf ==
  ASSUME NEW date, ValidDate(date)
  PROVE  \E y \in Int, doy \in Int :
           0 <= doy /\ doy < YearLength(y) /\ date = DateOf(y, doy)
<1> DEFINE y == MarchYear(date)
           mp == MarchMonth(date)
           d == date[3]
<1>1. y \in Int /\ mp \in 0 .. 11 /\ d \in Int /\ MonthStart(mp) \in Int
  BY DEF ValidDate, MarchYear, MarchMonth, MonthDays, MonthStart
<1>2. PICK doy \in Int : doy = MonthStart(mp) + d - 1
  BY <1>1
<1>3. /\ date = <<date[1], date[2], date[3]>> /\ date[1] \in Int /\ date[2] \in 1 .. 12
      /\ d \in 1 .. MonthDays(date[1], date[2])
  BY <1>1 DEF ValidDate
<1>4. d \in 1 .. MonthLength(mp)
  BY <1>1, <1>3 DEF MonthDays, MonthLength, MarchMonth
<1>5. (5 * doy + 2) \div 153 = mp
  <2> HIDE DEF mp, d
  <2> QED BY <1>1, <1>2, <1>4, MonthOfDay
<1>6. 0 <= doy /\ doy < YearLength(y)
  <2>1. mp = 11 => date[1] = y + 1 /\ date[2] = 2
    BY <1>1, <1>3 DEF MarchYear, MarchMonth
  <2>2. CASE mp = 11
    BY <1>2, <1>3, <2>1, <2>2, MonthStarts DEF YearLength, MonthDays
  <2>3. CASE mp # 11
    <3>1. MonthStart(mp) \in 0 .. 306 /\ d \in 1 .. 31
      <4> HIDE DEF mp, d
      <4> QED BY <1>1, <1>4, <2>3 DEF MonthStart, MonthLength
    <3>2. 365 <= YearLength(y) /\ YearLength(y) \in Int
      BY DEF YearLength
    <3> HIDE DEF mp, d, y
    <3>3. 0 <= doy /\ doy < 365
      BY <1>2, <3>1
    <3> QED BY <3>2, <3>3
  <2> QED BY <2>2, <2>3
<1>7. date = DateOf(y, doy)
  <2>1. date[2] = IF mp < 10 THEN mp + 3 ELSE mp - 9
    BY <1>1, <1>3 DEF MarchMonth
  <2>2. date[1] = CivilYear(y, date[2])
    BY <1>1, <1>3 DEF MarchYear, CivilYear
  <2>3. date[3] = doy - MonthStart(mp) + 1
    BY <1>1, <1>2, MonthStarts
  <2> QED BY <1>3, <1>5, <2>1, <2>2, <2>3 DEF DateOf
<1> HIDE DEF y
<1> QED BY <1>1, <1>6, <1>7

\* The closed formulas are each other's inverse, on every day and every date.
LEMMA Inverses ==
  /\ \A n \in Int : ValidDate(CivilFromDays(n)) /\ DaysFromCivil(CivilFromDays(n)) = n
  /\ \A date : ValidDate(date) =>
       DaysFromCivil(date) \in Int /\ CivilFromDays(DaysFromCivil(date)) = date
<1>1. ASSUME NEW n \in Int
      PROVE  ValidDate(CivilFromDays(n)) /\ DaysFromCivil(CivilFromDays(n)) = n
  <2>1. PICK z \in Int : z = n + 719468
    OBVIOUS
  <2>2. PICK y \in Int : YearStart(y) <= z /\ z < YearStart(y) + YearLength(y)
    BY DayParts
  <2>3. YearStart(y) \in Int /\ YearLength(y) \in Int
    BY LeapYears DEF YearLength
  <2>4. PICK doy \in Int : doy = z - YearStart(y)
    BY <2>3
  <2>5. 0 <= doy /\ doy < YearLength(y) /\ n = YearStart(y) + doy - 719468
    BY <2>1, <2>2, <2>3, <2>4
  <2> QED BY <2>5, CivilIs, DateIsValid
<1>2. ASSUME NEW date, ValidDate(date)
      PROVE  DaysFromCivil(date) \in Int /\ CivilFromDays(DaysFromCivil(date)) = date
  <2>1. PICK y \in Int, doy \in Int :
          0 <= doy /\ doy < YearLength(y) /\ date = DateOf(y, doy)
    BY <1>2, DateIsOf
  <2>2. DaysFromCivil(date) = YearStart(y) + doy - 719468 /\ YearStart(y) \in Int
    BY <2>1, DateIsValid, LeapYears
  <2> QED BY <2>1, <2>2, CivilIs
<1> QED BY <1>1, <1>2

\* The day after a date has the next number.
LEMMA NextDay ==
  ASSUME NEW date, ValidDate(date)
  PROVE  ValidDate(DayAfter(date)) /\ DaysFromCivil(DayAfter(date)) = DaysFromCivil(date) + 1
<1> DEFINE mp == MarchMonth(date)
<1>1. PICK y \in Int, m \in 1 .. 12, d \in Int : y = date[1] /\ m = date[2] /\ d = date[3]
  <2>1. date[1] \in Int /\ date[2] \in 1 .. 12 /\ date[3] \in Int
    BY DEF ValidDate, MonthDays
  <2> QED BY <2>1, Zenon
<1>2. d \in 1 .. MonthDays(y, m) /\ date = <<y, m, d>>
  BY <1>1 DEF ValidDate
<1>3. PICK next : next = DayAfter(date)
  OBVIOUS
<1>4. YearStart(y) \in Int /\ YearStart(y - 1) \in Int
      /\ YearStart(y) = YearStart(y - 1) + YearLength(y - 1)
  <2>1. y - 1 \in Int /\ y - 1 + 1 = y
    OBVIOUS
  <2> QED BY <2>1, LeapYears
<1>5. /\ mp \in 0 .. 11 /\ mp = (IF m > 2 THEN m - 3 ELSE m + 9)
      /\ MarchYear(date) = IF m <= 2 THEN y - 1 ELSE y
  BY <1>1 DEF MarchMonth, MarchYear
<1> HIDE DEF mp
<1>6. MonthStart(mp) \in Int
      /\ DaysFromCivil(date) = YearStart(MarchYear(date)) + MonthStart(mp) + d - 719469
  BY <1>1, <1>5, DaysAre, MonthStarts DEF mp
<1>7. CASE d < MonthDays(y, m)
  <2>1. next = <<y, m, d + 1>>
    BY <1>1, <1>2, <1>3, <1>7 DEF DayAfter
  <2>2. ValidDate(next)
    BY <1>1, <1>2, <1>7, <2>1 DEF ValidDate, MonthDays
  <2>3. MarchYear(next) = MarchYear(date) /\ MarchMonth(next) = mp
    BY <1>1, <1>5, <2>1 DEF MarchYear, MarchMonth
  <2>4. DaysFromCivil(next) = YearStart(MarchYear(date)) + MonthStart(mp) + (d + 1) - 719469
    BY <2>1, <2>2, <2>3, DaysAre
  <2> QED BY <1>3, <1>4, <1>5, <1>6, <2>2, <2>4
<1>8. CASE d = MonthDays(y, m) /\ m = 2
  <2>1. next = <<y, 3, 1>>
    BY <1>1, <1>2, <1>3, <1>8 DEF DayAfter
  <2>2. ValidDate(next)
    BY <1>1, <2>1 DEF ValidDate, MonthDays
  <2>3. MarchYear(next) = y /\ MarchMonth(next) = 0 /\ MonthStart(0) = 0 /\ next[3] = 1
    BY <2>1, MonthStarts DEF MarchYear, MarchMonth
  <2>4. DaysFromCivil(next) = YearStart(y) + 1 - 719469
    BY <1>4, <2>2, <2>3, DaysAre
  <2>5. mp = 11 /\ MonthStart(mp) = 337
    BY <1>5, <1>8, MonthStarts
  <2>6. YearLength(y - 1) = 337 + d
    BY <1>8 DEF MonthDays, YearLength
  <2> QED BY <1>3, <1>4, <1>5, <1>6, <1>8, <2>2, <2>4, <2>5, <2>6
<1>9. CASE d = MonthDays(y, m) /\ m # 2
  <2>1. next = IF m < 12 THEN <<y, m + 1, 1>> ELSE <<y + 1, 1, 1>>
    BY <1>1, <1>2, <1>3, <1>9 DEF DayAfter
  <2>2. next[1] = (IF m < 12 THEN y ELSE y + 1) /\ next[3] = 1
        /\ next[2] = (IF m < 12 THEN m + 1 ELSE 1)
    BY <2>1
  <2>3. ValidDate(next)
    BY <1>1, <2>1 DEF ValidDate, MonthDays
  <2>4. MarchYear(next) = MarchYear(date) /\ MarchMonth(next) = mp + 1
    BY <1>1, <1>5, <1>9, <2>2 DEF MarchYear, MarchMonth
  <2>5. mp < 11 /\ MonthStart(mp + 1) = MonthStart(mp) + MonthLength(mp)
    BY <1>5, <1>9, MonthStarts
  <2>6. MonthLength(mp) = d
    BY <1>5, <1>9 DEF MonthDays, MonthLength
  <2>7. DaysFromCivil(next) = YearStart(MarchYear(date)) + (MonthStart(mp) + d) + 1 - 719469
    BY <2>2, <2>3, <2>4, <2>5, <2>6, DaysAre
  <2>8. d \in Int /\ YearStart(MarchYear(date)) \in Int
    BY <1>4, <1>5
  <2> QED BY <1>3, <1>6, <2>3, <2>7, <2>8
<1>10. d <= MonthDays(y, m) /\ MonthDays(y, m) \in Int
  BY <1>2 DEF MonthDays
<1> QED BY <1>7, <1>8, <1>9, <1>10

\* A year ends before the later ones begin.
LEMMA YearsInOrder ==
  ASSUME NEW x \in Int, NEW y \in Int, x < y
  PROVE  YearStart(x) + YearLength(x) <= YearStart(y)
<1>1. YearStart(x) + YearLength(x) = YearStart(x + 1)
  BY LeapYears
<1>2. x + 1 = y \/ x + 1 < y
  OBVIOUS
<1>3. ASSUME x + 1 < y PROVE YearStart(x + 1) <= YearStart(y)
  BY <1>3, SMT DEF YearStart
<1> QED BY <1>1, <1>2, <1>3, LeapYears

\* A month ends before the later ones begin.
LEMMA MonthsInOrder ==
  ASSUME NEW k \in 0 .. 11, NEW l \in 0 .. 11, k < l
  PROVE  MonthStart(k) + MonthLength(k) <= MonthStart(l)
BY DEF MonthStart, MonthLength

\* Dates are in the order of their numbers.
LEMMA EarlierDates ==
  ASSUME NEW a, NEW b, ValidDate(a), ValidDate(b), DateLess(a, b)
  PROVE  DaysFromCivil(a) < DaysFromCivil(b)
<1> DEFINE x == MarchYear(a)
           y == MarchYear(b)
           k == MarchMonth(a)
           l == MarchMonth(b)
           in(date) == MonthStart(MarchMonth(date)) + date[3]
<1>1. ASSUME NEW date, ValidDate(date)
      PROVE  /\ MarchYear(date) \in Int /\ MarchMonth(date) \in 0 .. 11 /\ date[3] \in Int
             /\ 1 <= date[3] /\ date[3] <= MonthLength(MarchMonth(date))
             /\ in(date) \in Int /\ 0 < in(date) /\ in(date) <= YearLength(MarchYear(date))
  <2>1. /\ MarchYear(date) \in Int /\ MarchMonth(date) \in 0 .. 11 /\ date[3] \in Int
        /\ 1 <= date[3] /\ date[3] <= MonthLength(MarchMonth(date))
    BY <1>1 DEF ValidDate, MarchYear, MarchMonth, MonthDays, MonthLength
  <2>2. MonthStart(MarchMonth(date)) \in 0 .. 337
    BY <2>1, MonthStarts
  <2>3. CASE MarchMonth(date) = 11
    <3>1. /\ date[3] <= (IF Leap(MarchYear(date) + 1) THEN 29 ELSE 28)
          /\ MonthStart(11) = 337
      BY <1>1, <2>3, MonthStarts DEF ValidDate, MarchYear, MarchMonth, MonthDays
    <3> QED BY <2>1, <2>2, <2>3, <3>1 DEF YearLength
  <2>4. CASE MarchMonth(date) # 11
    <3>1. MonthStart(MarchMonth(date)) + MonthLength(MarchMonth(date)) <= MonthStart(11)
          /\ MonthStart(11) = 337 /\ MonthLength(MarchMonth(date)) \in Int
      BY <2>1, <2>4, MonthsInOrder, MonthStarts DEF MonthLength
    <3> QED BY <2>1, <2>2, <3>1 DEF YearLength
  <2> QED BY <2>1, <2>3, <2>4
<1>2. DaysFromCivil(a) = YearStart(x) + in(a) - 719469
      /\ DaysFromCivil(b) = YearStart(y) + in(b) - 719469
  <2>1. /\ DaysFromCivil(a) = YearStart(x) + MonthStart(k) + a[3] - 719469
        /\ DaysFromCivil(b) = YearStart(y) + MonthStart(l) + b[3] - 719469
    BY DaysAre
  <2>2. /\ YearStart(x) \in Int /\ YearStart(y) \in Int
        /\ MonthStart(k) \in Int /\ MonthStart(l) \in Int
    <3>1. x \in Int /\ y \in Int /\ k \in 0 .. 11 /\ l \in 0 .. 11
      BY <1>1
    <3> HIDE DEF x, y, k, l
    <3>2. YearStart(x) \in Int /\ YearStart(y) \in Int
      BY <3>1, LeapYears
    <3>3. MonthStart(k) \in Int /\ MonthStart(l) \in Int
      <4>1. k \in Int /\ l \in Int
        BY <3>1
      <4> QED BY <4>1, MonthStartType
    <3> QED BY <3>2, <3>3
  <2> HIDE DEF x, y, k, l
  <2> QED BY <1>1, <2>1, <2>2 DEF k, l
<1>3. x < y \/ (x = y /\ (k < l \/ (k = l /\ a[3] < b[3])))
  BY DEF DateLess, ValidDate, MarchYear, MarchMonth
<1>4. YearStart(x) \in Int /\ YearStart(y) \in Int
  BY <1>1, LeapYears
<1>5. CASE x < y
  <2>1. YearStart(x) + YearLength(x) <= YearStart(y)
    BY <1>1, <1>5, YearsInOrder
  <2>2. YearLength(x) \in Int
    BY DEF YearLength
  <2>3. in(a) \in Int /\ in(b) \in Int /\ 0 < in(b) /\ in(a) <= YearLength(x)
    BY <1>1
  <2> HIDE DEF x, y, in
  <2> QED BY <1>2, <1>4, <2>1, <2>2, <2>3
<1>6. CASE x = y /\ k < l
  <2>1. MonthStart(k) + MonthLength(k) <= MonthStart(l)
    BY <1>1, <1>6, MonthsInOrder
  <2>2. in(a) < in(b)
    BY <1>1, <2>1, MonthStarts DEF MonthLength
  <2>3. in(a) \in Int /\ in(b) \in Int
    BY <1>1
  <2> HIDE DEF x, y, in
  <2> QED BY <1>2, <1>4, <1>6, <2>2, <2>3
<1>7. CASE x = y /\ k = l /\ a[3] < b[3]
  <2>1. in(a) < in(b) /\ in(a) \in Int /\ in(b) \in Int
    <3>1. /\ in(a) = MonthStart(k) + a[3] /\ in(b) = MonthStart(k) + b[3]
          /\ k \in 0 .. 11 /\ a[3] \in Int /\ b[3] \in Int
      BY <1>1, <1>7
    <3>2. MonthStart(k) \in Int
      <4> HIDE DEF k
      <4> QED BY <3>1, MonthStarts
    <3> HIDE DEF k, in
    <3> QED BY <1>7, <3>1, <3>2
  <2> HIDE DEF x, y, in
  <2> QED BY <1>2, <1>4, <1>7, <2>1
<1> QED BY <1>3, <1>5, <1>6, <1>7

\* Comparing dates is comparing their numbers.
LEMMA DatesInOrder ==
  ASSUME NEW a, NEW b, ValidDate(a), ValidDate(b)
  PROVE  DateLess(a, b) <=> DaysFromCivil(a) < DaysFromCivil(b)
<1>1. DateLess(a, b) \/ DateLess(b, a) \/ a = b
  BY DEF DateLess, ValidDate
<1>2. DaysFromCivil(a) \in Int /\ DaysFromCivil(b) \in Int
  BY Inverses
<1>3. DateLess(b, a) => DaysFromCivil(b) < DaysFromCivil(a)
  BY EarlierDates
<1>4. DateLess(a, b) => DaysFromCivil(a) < DaysFromCivil(b)
  BY EarlierDates
<1> QED BY <1>1, <1>2, <1>3, <1>4

\* The closed formulas count days by the calendar's own rule, both ways, for
\* every day before and after the epoch (`civil_from_days', `days_from_civil').
THEOREM FormulaIsCalendar ==
  /\ CivilFromDays(0) = <<1970, 1, 1>>
  /\ \A n \in Int : /\ CivilFromDays(n + 1) = DayAfter(CivilFromDays(n))
                    /\ DaysFromCivil(CivilFromDays(n)) = n
<1>1. CivilFromDays(0) = <<1970, 1, 1>>
  <2> DEFINE epoch == <<1970, 1, 1>>
  <2>1. ValidDate(epoch)
    BY SMT DEF ValidDate, MonthDays, Leap
  <2>2. MarchYear(epoch) = 1969 /\ MarchMonth(epoch) = 10 /\ epoch[3] = 1
    BY SMT DEF MarchYear, MarchMonth
  <2>3. YearStart(1969) = 719162 /\ MonthStart(10) = 306
    BY SMT DEF YearStart, MonthStart
  <2>4. DaysFromCivil(epoch) = 0
    <3> HIDE DEF epoch
    <3> QED BY <2>1, <2>2, <2>3, DaysAre, SMT
  <2> HIDE DEF epoch
  <2>5. CivilFromDays(0) = epoch
    BY <2>1, <2>4, Inverses
  <2> QED BY <2>5 DEF epoch
<1>2. ASSUME NEW n \in Int
      PROVE  CivilFromDays(n + 1) = DayAfter(CivilFromDays(n))
  <2>1. ValidDate(CivilFromDays(n)) /\ DaysFromCivil(CivilFromDays(n)) = n
    BY Inverses
  <2>2. /\ ValidDate(DayAfter(CivilFromDays(n)))
        /\ DaysFromCivil(DayAfter(CivilFromDays(n))) = n + 1
    BY <2>1, NextDay
  <2> QED BY <2>2, Inverses
<1> QED BY <1>1, <1>2, Inverses

\* A calendar: a date for every day, each the day after the one before, that has
\* the epoch where it is.
IsCalendar(cal) ==
  /\ cal[0] = <<1970, 1, 1>>
  /\ \A n \in Int : ValidDate(cal[n]) /\ cal[n + 1] = DayAfter(cal[n])

\* The closed formulas are the calendar, and there is no other.
THEOREM OnlyCalendar ==
  ASSUME NEW cal, IsCalendar(cal)
  PROVE  \A n \in Int : CivilFromDays(n) = cal[n] /\ DaysFromCivil(cal[n]) = n
<1>1. ASSUME NEW n \in Int
      PROVE  /\ cal[n] = CivilFromDays(n) => cal[n + 1] = CivilFromDays(n + 1)
             /\ cal[n + 1] = CivilFromDays(n + 1) => cal[n] = CivilFromDays(n)
  <2>1. /\ ValidDate(cal[n]) /\ cal[n + 1] = DayAfter(cal[n])
        /\ CivilFromDays(n + 1) = DayAfter(CivilFromDays(n))
    BY FormulaIsCalendar DEF IsCalendar
  <2>2. ASSUME cal[n + 1] = CivilFromDays(n + 1) PROVE cal[n] = CivilFromDays(n)
    <3>1. DaysFromCivil(cal[n + 1]) = DaysFromCivil(cal[n]) + 1
          /\ DaysFromCivil(cal[n]) \in Int /\ CivilFromDays(DaysFromCivil(cal[n])) = cal[n]
      BY <2>1, NextDay, Inverses
    <3>2. DaysFromCivil(cal[n + 1]) = n + 1
      <4>1. n + 1 \in Int
        OBVIOUS
      <4> QED BY <2>2, <4>1, Inverses
    <3>3. DaysFromCivil(cal[n]) = n
      BY <3>1, <3>2
    <3> QED BY <3>1, <3>3
  <2> QED BY <2>1, <2>2
<1>2. cal[0] = CivilFromDays(0)
  BY FormulaIsCalendar DEF IsCalendar
<1> DEFINE after == {n \in Nat : cal[n] # CivilFromDays(n)}
           earlier == {n \in Nat : cal[-n] # CivilFromDays(-n)}
<1>3. after = {}
  <2> SUFFICES ASSUME after # {} PROVE FALSE
    OBVIOUS
  <2>1. PICK n \in after : \A m \in after : n <= m
    BY LeastExists
  <2>2. n - 1 \in Nat /\ n - 1 \in Int /\ n - 1 + 1 = n
    BY <1>2
  <2>3. n - 1 \notin after
    BY <2>1, <2>2
  <2>4. cal[n - 1] = CivilFromDays(n - 1)
    BY <2>2, <2>3
  <2> QED BY <1>1, <2>2, <2>4
<1>4. earlier = {}
  <2> SUFFICES ASSUME earlier # {} PROVE FALSE
    OBVIOUS
  <2>1. PICK n \in earlier : \A m \in earlier : n <= m
    BY LeastExists
  <2>2. n - 1 \in Nat /\ -n \in Int /\ -n + 1 = -(n - 1)
    BY <1>2
  <2>3. n - 1 \notin earlier
    BY <2>1, <2>2
  <2>4. cal[-n + 1] = CivilFromDays(-n + 1)
    BY <2>2, <2>3
  <2> QED BY <1>1, <2>2, <2>4
<1>5. ASSUME NEW n \in Int PROVE cal[n] = CivilFromDays(n)
  <2>1. n \in Nat \/ (-n \in Nat /\ -(-n) = n)
    OBVIOUS
  <2>2. CASE n \in Nat
    BY <1>3, <2>2
  <2>3. CASE -n \in Nat /\ -(-n) = n
    <3>1. -n \notin earlier
      BY <1>4
    <3>2. cal[-(-n)] = CivilFromDays(-(-n))
      BY <2>3, <3>1
    <3> QED BY <2>3, <3>2
  <2> QED BY <2>1, <2>2, <2>3
<1> QED BY <1>5, Inverses

\* The date of a walked day is that day's.
RightDate == input.kind = "day" => ValidDate(input.date) /\ DaysFromCivil(input.date) = input.day

\* Whatever days of the calendar the walks start at and however long they are,
\* the closed formulas agree with it (`civil_from_days', `days_from_civil').
THEOREM WalksAgree ==
  ASSUME NEW cal, IsCalendar(cal), \A a \in Anchors : a[2] = cal[a[1]]
  PROVE  Spec => []CivilIsCalendar
<1>1. Init => RightDate
  <2>1. ASSUME NEW a \in Anchors PROVE ValidDate(a[2]) /\ DaysFromCivil(a[2]) = a[1]
    <3>1. a[1] \in Int /\ a[2] = cal[a[1]]
      BY AlgorithmsAssumption
    <3> QED BY <3>1, OnlyCalendar DEF IsCalendar
  <2> QED BY <2>1 DEF Init, Repaint, RightDate
<1>2. TypeOK /\ RightDate /\ [Next]_input => RightDate'
  <2> SUFFICES ASSUME TypeOK, RightDate, Tomorrow PROVE RightDate'
    BY DEF Next, RightDate
  <2>1. /\ input' = [input EXCEPT !.walked = @ + 1, !.day = @ + 1, !.date = DayAfter(@)]
        /\ input \in DayInput /\ input.kind = "day"
    BY DEF Tomorrow, TypeOK, Repaint
  <2>2. input'.date = DayAfter(input.date) /\ input'.day = input.day + 1
    BY <2>1 DEF DayInput
  <2> QED BY <2>1, <2>2, NextDay DEF RightDate
<1>3. RightDate => CivilIsCalendar
  BY Inverses DEF RightDate, CivilIsCalendar
<1> QED BY <1>1, <1>2, <1>3, TypeCorrect, PTL DEF Spec

-----------------------------------------------------------------------------
(* The advice *)

\* The campaign's first second, by the clock of its time zone.
OpeningIsRight == FirstOpening = 1788447600

\* The least of a set of integers.
LEMMA MinIs ==
  ASSUME NEW S, S \subseteq Int, NEW x \in S, \A y \in S : x <= y
  PROVE  Min(S) = x
<1>1. \A y \in S : (\A u \in S : y <= u) => y = x
  OBVIOUS
<1>2. Min(S) \in S /\ \A y \in S : Min(S) <= y
  BY DEF Min
<1> QED BY <1>1, <1>2

\* The second now is in the local hour lh of the local day ld.
LocalTime(now, ld, lh) ==
  /\ now \in Int /\ ld \in Int /\ lh \in 0 .. 23
  /\ 86400 * ld + 3600 * lh + 10800 <= now /\ now < 86400 * ld + 3600 * lh + 14400

\* `from_unix' finds the local day and hour of every second, before the epoch too.
LEMMA LocalTimes ==
  ASSUME NEW now \in Int
  PROVE  \E ld \in Int, lh \in 0 .. 23 :
           LocalTime(now, ld, lh) /\ FromUnix(now) = [date |-> CivilFromDays(ld), hour |-> lh]
<1>1. PICK local \in Int : local = now + OffsetSeconds
  BY DEF OffsetSeconds
<1>2. PICK ld \in Int : ld = local \div 86400
  OBVIOUS
<1>3. PICK lh \in Int : lh = (local % 86400) \div 3600
  OBVIOUS
<1>4. 86400 * ld <= local /\ local < 86400 * ld + 86400 /\ local % 86400 = local - 86400 * ld
  BY <1>2, SMT
<1>5. 0 <= lh /\ lh <= 23 /\ 86400 * ld + 3600 * lh <= local
      /\ local < 86400 * ld + 3600 * lh + 3600
  BY <1>3, <1>4, SMT
<1>6. lh \in 0 .. 23 /\ LocalTime(now, ld, lh)
  BY <1>1, <1>5, SMT DEF LocalTime, OffsetSeconds
<1>7. FromUnix(now) = [date |-> CivilFromDays(ld), hour |-> lh]
  BY <1>1, <1>2, <1>3 DEF FromUnix, Day
<1> QED BY <1>6, <1>7, Zenon

\* The first and the last day of the campaign, by number.
FirstDay == 20699
LastDay == 20716

LEMMA CampaignDays ==
  /\ ValidDate(WindowStartDay) /\ DaysFromCivil(WindowStartDay) = FirstDay
  /\ ValidDate(WindowEndDay) /\ DaysFromCivil(WindowEndDay) = LastDay
<1>1. ValidDate(WindowStartDay) /\ ValidDate(WindowEndDay)
  BY DEF ValidDate, WindowStartDay, WindowEndDay, MonthDays
<1>2. /\ MarchYear(WindowStartDay) = 2026 /\ MarchMonth(WindowStartDay) = 6
      /\ MarchYear(WindowEndDay) = 2026 /\ MarchMonth(WindowEndDay) = 6
      /\ WindowStartDay[3] = 3 /\ WindowEndDay[3] = 20
  BY DEF WindowStartDay, WindowEndDay, MarchYear, MarchMonth
<1>3. YearStart(2026) = 739981 /\ MonthStart(6) = 184
  BY SMT DEF YearStart, MonthStart
<1> QED BY <1>1, <1>2, <1>3, DaysAre, SMT DEF FirstDay, LastDay

\* When the campaign opens on a day, if it does.
Opening(ld) == 86400 * ld + 54000

\* There is an opening on each day of the campaign.
LEMMA OpeningsAre ==
  ASSUME OpeningIsRight
  PROVE  \A o : o \in Openings <=> \E ld \in FirstDay .. LastDay : o = Opening(ld)
<1> DEFINE at(i) == FirstOpening + i * Day
<1>1. Openings = {at(i) : i \in 0 .. 17}
  BY DEF Openings, WindowStartDay, WindowEndDay
<1>2. ASSUME NEW i \in 0 .. 17
      PROVE  \E ld \in FirstDay .. LastDay : at(i) = Opening(ld)
  <2>1. FirstDay + i \in FirstDay .. LastDay /\ at(i) = Opening(FirstDay + i)
    BY OpeningIsRight, SMT DEF OpeningIsRight, Opening, FirstDay, LastDay, Day
  <2> QED BY <2>1, Zenon
<1>3. ASSUME NEW ld \in FirstDay .. LastDay
      PROVE  \E i \in 0 .. 17 : Opening(ld) = at(i)
  <2>1. ld - FirstDay \in 0 .. 17 /\ Opening(ld) = at(ld - FirstDay)
    BY OpeningIsRight, SMT DEF OpeningIsRight, Opening, FirstDay, LastDay, Day
  <2> QED BY <2>1, Zenon
<1> HIDE DEF at
<1> QED BY <1>1, <1>2, <1>3, Zenon

\* The dates of the campaign, and its opening hours.
InDates(ld) == FirstDay <= ld /\ ld <= LastDay
InOpening(ld, lh) == InDates(ld) /\ 12 <= lh /\ lh <= 21

\* What the code advises, by the number of the local day and the local hour.
LEMMA AdviceIs ==
  ASSUME NEW now, NEW ld, NEW lh,
         LocalTime(now, ld, lh), FromUnix(now) = [date |-> CivilFromDays(ld), hour |-> lh]
  PROVE  Advise(now) =
           [in_window |-> InOpening(ld, lh),
            next |-> IF InOpening(ld, lh) THEN NoOpening
                     ELSE IF ld < FirstDay THEN Opening(FirstDay)
                     ELSE IF ~InDates(ld) THEN NoOpening
                     ELSE IF lh < 12 THEN Opening(ld)
                     ELSE Opening(ld + 1)]
<1>1. ld \in Int /\ lh \in Int
  BY DEF LocalTime
<1>2. PICK date : date = CivilFromDays(ld)
  OBVIOUS
<1>3. PICK tomorrow : tomorrow = CivilFromDays(ld + 1)
  OBVIOUS
<1>4. ValidDate(date) /\ DaysFromCivil(date) = ld
  BY <1>1, <1>2, Inverses
<1>5. DaysFromCivil(tomorrow) = ld + 1
  <2>1. ld + 1 \in Int
    BY <1>1
  <2> QED BY <1>3, <2>1, Inverses
<1>6. /\ DateLess(date, WindowStartDay) <=> ld < FirstDay
      /\ DateLess(WindowEndDay, date) <=> LastDay < ld
  <2>1. /\ DateLess(date, WindowStartDay) <=> DaysFromCivil(date) < DaysFromCivil(WindowStartDay)
        /\ DateLess(WindowEndDay, date) <=> DaysFromCivil(WindowEndDay) < DaysFromCivil(date)
    BY <1>4, CampaignDays, DatesInOrder
  <2> QED BY <1>4, <2>1, CampaignDays, SMT DEF FirstDay, LastDay
<1>7. /\ ToUnix(WindowStartDay, WindowStartHour) = Opening(FirstDay)
      /\ ToUnix(date, WindowStartHour) = Opening(ld)
      /\ ToUnix(tomorrow, WindowStartHour) = Opening(ld + 1)
  BY <1>1, <1>4, <1>5, CampaignDays, SMT
  DEF ToUnix, Opening, WindowStartHour, OffsetSeconds, Day, FirstDay
<1>8. ~DateLess(date, WindowStartDay) /\ ~DateLess(WindowEndDay, date) <=> InDates(ld)
  BY <1>1, <1>6, SMT DEF InDates, FirstDay, LastDay
<1>9. InHours(lh) <=> 12 <= lh /\ lh <= 21
  BY <1>1, SMT DEF InHours, WindowStartHour, WindowEndHour
<1>10. lh < WindowStartHour <=> lh < 12
  BY DEF WindowStartHour
<1>11. FromUnix(now).date = date /\ FromUnix(now).hour = lh
  BY <1>2
<1>12. CivilFromDays(DaysFromCivil(date) + 1) = tomorrow
  BY <1>3, <1>4
<1> QED BY <1>6, <1>7, <1>8, <1>9, <1>10, <1>11, <1>12 DEF Advise, InOpening

\* At every second, before and after the epoch: the advice is in_window exactly
\* in the campaign's openings, and names the first opening ahead while there is
\* one (`advise').
THEOREM AdviceAt ==
  ASSUME OpeningIsRight, NEW now \in Int
  PROVE  RightAdvice(now)
<1>1. PICK ld \in Int, lh \in 0 .. 23 :
        LocalTime(now, ld, lh) /\ FromUnix(now) = [date |-> CivilFromDays(ld), hour |-> lh]
  BY LocalTimes
<1> DEFINE ahead == {o \in Openings : o > now}
           inside == \E o \in Openings :
                       now \in o .. o + (WindowEndHour - WindowStartHour) * 3600 - 1
           over == now >= ToUnix(WindowEndDay, 24)
<1>2. inside <=> InOpening(ld, lh)
  <2>1. PICK length \in Int :
          length = 36000 /\ (WindowEndHour - WindowStartHour) * 3600 = length
    BY SMT DEF WindowEndHour, WindowStartHour
  <2>2. ASSUME NEW d \in FirstDay .. LastDay
        PROVE  now \in Opening(d) .. Opening(d) + length - 1
               <=> d = ld /\ 12 <= lh /\ lh <= 21
    <3>1. d \in Int
      BY SMT DEF FirstDay, LastDay
    <3>2. now \in Opening(d) .. Opening(d) + length - 1
          <=> 86400 * d + 54000 <= now /\ now < 86400 * d + 90000
      BY <2>1, <3>1, SMT DEF Opening
    <3>3. CASE d < ld
      BY <1>1, <3>1, <3>2, <3>3, SMT DEF LocalTime
    <3>4. CASE d = ld
      BY <1>1, <3>1, <3>2, <3>4, SMT DEF LocalTime
    <3>5. CASE ld < d
      BY <1>1, <3>1, <3>2, <3>5, SMT DEF LocalTime
    <3> QED BY <1>1, <3>1, <3>3, <3>4, <3>5, SMT
  <2>3. inside <=> \E o \in Openings : now \in o .. o + length - 1
    BY <2>1, SMT
  <2> HIDE DEF inside
  <2>4. inside <=> \E d \in FirstDay .. LastDay :
                     now \in Opening(d) .. Opening(d) + length - 1
    BY <2>3, OpeningsAre, Zenon
  <2>5. inside <=> \E d \in FirstDay .. LastDay : d = ld /\ 12 <= lh /\ lh <= 21
    BY <2>2, <2>4, Zenon
  <2> QED BY <2>5, SMT DEF InOpening, InDates, FirstDay, LastDay
<1>3. over <=> LastDay < ld
  <2>1. ToUnix(WindowEndDay, 24) = 86400 * LastDay + 97200
    BY CampaignDays, SMT DEF ToUnix, OffsetSeconds, Day, FirstDay, LastDay
  <2> QED BY <1>1, <2>1, SMT DEF LocalTime, LastDay
<1>4. ASSUME NEW d \in Int
      PROVE  Opening(d) > now <=> ld < d \/ (ld = d /\ lh < 12)
  <2>1. CASE d < ld
    BY <1>1, <2>1, SMT DEF LocalTime, Opening
  <2>2. CASE d = ld
    BY <1>1, <2>2, SMT DEF LocalTime, Opening
  <2>3. CASE ld < d
    BY <1>1, <2>3, SMT DEF LocalTime, Opening
  <2> QED BY <2>1, <2>2, <2>3, SMT
<1>5. ASSUME NEW d \in FirstDay .. LastDay, Opening(d) > now,
             \A c \in FirstDay .. LastDay : Opening(c) > now => d <= c
      PROVE  Min(ahead) = Opening(d)
  <2>1. Opening(d) \in ahead
    BY <1>5, OpeningsAre, Zenon
  <2>2. ahead \subseteq Int
    <3>1. \A c \in FirstDay .. LastDay : Opening(c) \in Int
      BY SMT DEF Opening
    <3> QED BY <3>1, OpeningsAre, Zenon
  <2>3. ASSUME NEW o \in ahead PROVE Opening(d) <= o
    <3>1. PICK c \in FirstDay .. LastDay : o = Opening(c)
      BY <2>3, OpeningsAre, Zenon
    <3>2. d <= c
      BY <1>5, <2>3, <3>1, Zenon
    <3> QED BY <3>1, <3>2, SMT DEF Opening
  <2> HIDE DEF ahead
  <2> QED BY <2>1, <2>2, <2>3, MinIs, Zenon
<1>6. Advise(now) =
           [in_window |-> InOpening(ld, lh),
            next |-> IF InOpening(ld, lh) THEN NoOpening
                     ELSE IF ld < FirstDay THEN Opening(FirstDay)
                     ELSE IF ~InDates(ld) THEN NoOpening
                     ELSE IF lh < 12 THEN Opening(ld)
                     ELSE Opening(ld + 1)]
  BY <1>1, AdviceIs, Zenon
<1> DEFINE next == Advise(now).next
<1> HIDE DEF inside, over
<1>7. /\ Advise(now).in_window = InOpening(ld, lh)
      /\ next = IF InOpening(ld, lh) THEN NoOpening
                ELSE IF ld < FirstDay THEN Opening(FirstDay)
                ELSE IF ~InDates(ld) THEN NoOpening
                ELSE IF lh < 12 THEN Opening(ld)
                ELSE Opening(ld + 1)
  BY <1>6, SMT
<1>8. Advise(now).in_window = inside
  <2>1. InOpening(ld, lh) \in BOOLEAN /\ inside \in BOOLEAN
    BY DEF InOpening, InDates, inside
  <2> QED BY <1>2, <1>7, <2>1, Zenon
<1>9. inside \/ over => next = NoOpening
  <2>1. LastDay < ld => ~(ld < FirstDay) /\ ~InDates(ld)
    BY SMT DEF InDates, FirstDay, LastDay
  <2> QED BY <1>2, <1>3, <1>7, <2>1, Zenon
<1>10. ~inside /\ ahead # {} => next = Min(ahead)
  <2> SUFFICES ASSUME ~InOpening(ld, lh), ahead # {} PROVE next = Min(ahead)
    BY <1>2, Zenon
  <2>1. PICK c \in FirstDay .. LastDay : Opening(c) > now
    BY OpeningsAre, Zenon
  <2>2. c \in Int /\ FirstDay <= c /\ c <= LastDay /\ (ld < c \/ (ld = c /\ lh < 12))
    BY <1>4, <2>1, SMT DEF FirstDay, LastDay
  <2>3. CASE ld < FirstDay
    <3>1. FirstDay \in FirstDay .. LastDay /\ Opening(FirstDay) > now
      BY <1>4, <2>3, SMT DEF FirstDay, LastDay
    <3>2. \A b \in FirstDay .. LastDay : FirstDay <= b
      BY SMT DEF FirstDay, LastDay
    <3>3. next = Opening(FirstDay)
      BY <1>7, <2>3, Zenon
    <3> QED BY <1>5, <3>1, <3>2, <3>3, Zenon
  <2>4. CASE InDates(ld) /\ lh < 12
    <3>1. ld \in FirstDay .. LastDay /\ Opening(ld) > now
      BY <1>4, <2>4, SMT DEF InDates, FirstDay, LastDay
    <3>2. \A b \in FirstDay .. LastDay : Opening(b) > now => ld <= b
      BY <1>4, SMT DEF FirstDay, LastDay
    <3>3. next = Opening(ld) 
      <4>1. ~(ld < FirstDay)
        BY <2>4, SMT DEF InDates, FirstDay, LastDay
      <4> QED BY <1>7, <2>4, <4>1, Zenon
    <3> QED BY <1>5, <3>1, <3>2, <3>3, Zenon
  <2>5. CASE InDates(ld) /\ ~(lh < 12)
    <3>1. ld + 1 \in FirstDay .. LastDay /\ Opening(ld + 1) > now
      BY <1>4, <2>2, <2>5, SMT DEF InDates, FirstDay, LastDay
    <3>2. \A b \in FirstDay .. LastDay : Opening(b) > now => ld + 1 <= b
      BY <1>4, <2>5, SMT DEF FirstDay, LastDay
    <3>3. next = Opening(ld + 1)
      <4>1. ~(ld < FirstDay)
        BY <2>5, SMT DEF InDates, FirstDay, LastDay
      <4> QED BY <1>7, <2>5, <4>1, Zenon
    <3> QED BY <1>5, <3>1, <3>2, <3>3, Zenon
  <2>6. ld < FirstDay \/ InDates(ld)
    BY <2>2, SMT DEF InDates, FirstDay, LastDay
  <2> QED BY <2>3, <2>4, <2>5, <2>6
<1> QED BY <1>8, <1>9, <1>10 DEF RightAdvice, inside, over

\* Whatever days are walked, the advice is right in each hour of 2026.
THEOREM AdviceFollows ==
  ASSUME OpeningIsRight
  PROVE  Spec => []AdviceIsRight
<1>1. TypeOK => AdviceIsRight
  <2> SUFFICES ASSUME TypeOK, input.kind = "day" PROVE AdviceIsRight
    BY SMT DEF AdviceIsRight
  <2>1. input.day \in Int
    BY DEF TypeOK, Repaint, DayInput
  <2>2. ASSUME NEW hour \in 0 .. 23, NEW s \in {0, 3599}
        PROVE  RightAdvice(input.day * Day + hour * 3600 + s)
    <3>1. PICK now \in Int : now = input.day * Day + hour * 3600 + s
      BY <2>1, SMT DEF Day
    <3>2. RightAdvice(now)
      BY AdviceAt
    <3> QED BY <3>1, <3>2, SMT
  <2> QED BY <2>2, SMT DEF AdviceIsRight
<1> QED BY <1>1, TypeCorrect, PTL
=============================================================================
