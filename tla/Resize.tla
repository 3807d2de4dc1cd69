------------------------------- MODULE Resize -------------------------------
(***************************************************************************)
(* simage_resize() of src/resize.c, simage_resize3d() of src/simage13.c    *)
(* and simage_next_power_of_two() of src/simage.c, one after another.      *)
(*                                                                         *)
(* simage_resize() zooms the rows, then the columns, each position of the  *)
(* new image being a weighted sum of contributions of the old one.  The    *)
(* positions are computed in floats, as in the code; weights are compared  *)
(* as the exact fractions they approximate.  simage_resize3d() takes the   *)
(* pixel at a sum of floats that it steps along.  Pixels themselves, and   *)
(* their bytes, are left out.                                              *)
(***************************************************************************)
EXTENDS Floats, FiniteSets, SequencesExt

CONSTANTS
  Axes,         \* sizes <<old, new>> of an axis that is zoomed
  Boxes,        \* and of the layers, rows and columns that are sampled
  IntBits       \* the bits of an int

ASSUME ResizeAssumption ==
  /\ Axes \subseteq (Nat \ {0}) \X (Nat \ {0})
  /\ \A box \in Boxes : \A a \in 1..3 : box[a] \in (Nat \ {0}) \X (Nat \ {0})
  /\ IntBits \in Nat \ {0, 1}

VARIABLES
  job,          \* the call in progress, or Idle
  contrib,      \* the contributions to the last position that was zoomed
  sampled,      \* the last pixel that was sampled
  power         \* the last power of two that was asked for

vars == <<job, contrib, sampled, power>>

Idle == [op |-> "none"]
NoContrib == [pixels |-> <<>>]
NoSample == [at |-> <<>>]
NoPower == [of |-> 0, is |-> 0]

(***************************************************************************)
(* zoom(): a position of the new image in the old one, and the pixels      *)
(* within the width of the filter around it.                               *)
(***************************************************************************)
\* bell_support
Support == [m |-> 3, e |-> -1]

Scale(old, new) == Over(Float(new), Float(old))
Center(old, new, i) == Over(Float(i), Scale(old, new))

Shrinks(old, new) == Below(Scale(old, new), Float(1))
Width(old, new) == IF Shrinks(old, new) THEN Over(Support, Scale(old, new)) ELSE Support

\* (int) (width * 2 + 1)
Room(old, new) ==
  LET w == Width(old, new) IN Floor(Plus([w EXCEPT !.e = @ + 1], Float(1)))

\* A faulty variant: pixels behind the last are mirrored one too far.
MirrorsPastEnd(old, j) == IF j < 0 THEN -j ELSE IF j >= old THEN old - j + old ELSE j

Mirrored(old, j) == IF j < 0 THEN -j ELSE IF j >= old THEN old - j + old - 1 ELSE j

\* A faulty variant: the steep part of the bell goes on to the middle.
PointedBell(t, one) == (2 * Abs(t) - 3 * one) ^ 2

\* bell_filter(t / one), in units of 1 / (8 one^2).
bell_filter(t, one) ==
  CASE 2 * Abs(t) < one -> 6 * one ^ 2 - 8 * t ^ 2
    [] 2 * Abs(t) >= one /\ 2 * Abs(t) < 3 * one -> (2 * Abs(t) - 3 * one) ^ 2
    [] OTHER -> 0

\* weight is that of each contribution, in units of 1 / (8 new^2), or of
\* new / (8 old^3) when the axis shrinks.
Contributions(old, new, i) ==
  LET left == Ceil(Minus(Center(old, new, i), Width(old, new)))
      right == Floor(Plus(Center(old, new, i), Width(old, new)))
      J == [k \in 1..(right - left + 1) |-> left + k - 1]
      one == IF Shrinks(old, new) THEN old ELSE new
  IN [old |-> old, new |-> new, i |-> i, room |-> Room(old, new),
      pixels |-> [k \in DOMAIN J |-> Mirrored(old, J[k])],
      weights |-> [k \in DOMAIN J |-> bell_filter(i * old - J[k] * new, one)]]

(***************************************************************************)
(* Calls.                                                                  *)
(***************************************************************************)
simage_resize ==
  /\ job = Idle
  /\ \E x, y \in Axes : job' = [op |-> "resize", axes |-> <<x, y>>, i |-> 0]
  /\ contrib' = NoContrib /\ sampled' = NoSample /\ power' = NoPower

zoom ==
  /\ job.op = "resize" /\ job.axes # <<>>
  /\ LET old == Head(job.axes)[1]
         new == Head(job.axes)[2]
     IN /\ contrib' = Contributions(old, new, job.i)
        /\ job' = IF job.i + 1 < new
                    THEN [job EXCEPT !.i = @ + 1]
                    ELSE [job EXCEPT !.i = 0, !.axes = Tail(@)]
  /\ UNCHANGED <<sampled, power>>

ResizeReturns ==
  /\ job.op = "resize" /\ job.axes = <<>>
  /\ job' = Idle /\ contrib' = NoContrib /\ sampled' = NoSample
  /\ UNCHANGED power

\* Axes in the order of the loops, layers first.
simage_resize3d ==
  /\ job = Idle
  /\ \E box \in Boxes :
       job' = [op |-> "resize3d", axes |-> box, at |-> <<0, 0, 0>>,
               s |-> [a \in 1..3 |-> Float(0)]]
  /\ contrib' = NoContrib /\ sampled' = NoSample /\ power' = NoPower

\* A faulty variant: the sums go on from the end of the row before.
NoRestart(a, sums, new) == sums[a]

\* The inner sums begin at zero in each turn of an outer loop.
Restarts(a, sums, new) == Float(0)

Samples ==
  /\ job.op = "resize3d" /\ job.at[1] < job.axes[1][2]
  /\ sampled' = [at |-> job.at, pixel |-> [a \in 1..3 |-> Floor(job.s[a])], axes |-> job.axes]
  /\ LET Ends(a) == job.at[a] + 1 = job.axes[a][2]
         turns == CHOOSE a \in 1..3 :
                    (a = 1 \/ ~Ends(a)) /\ \A b \in (a + 1)..3 : Ends(b)
         d(a) == Over(Float(job.axes[a][1]), Float(job.axes[a][2]))
     IN job' = [job EXCEPT
          !.at = [a \in 1..3 |-> IF a = turns THEN @[a] + 1 ELSE IF a > turns THEN 0 ELSE @[a]],
          !.s = [a \in 1..3 |-> IF a = turns THEN Plus(@[a], d(a))
                                ELSE IF a > turns THEN Restarts(a, @, job.axes[a][2])
                                ELSE @[a]]]
  /\ UNCHANGED <<contrib, power>>

Resize3dReturns ==
  /\ job.op = "resize3d" /\ job.at[1] = job.axes[1][2]
  /\ job' = Idle /\ contrib' = NoContrib /\ sampled' = NoSample
  /\ UNCHANGED power

Ints == (-(2 ^ (IntBits - 1))) .. (2 ^ (IntBits - 1) - 1)

simage_next_power_of_two ==
  /\ job = Idle
  /\ \E v \in Ints : job' = [op |-> "power", of |-> v, val |-> v, cnt |-> 0, highbit |-> 0]
  /\ contrib' = NoContrib /\ sampled' = NoSample /\ power' = NoPower

\* A faulty variant: the bits that are set are not counted.
CountsNothing(j) == [j EXCEPT !.val = @ \div 2, !.highbit = @ + 1]

\* One turn of cnt_bits().  The shift keeps the sign, so a negative number
\* ends as -1 and stays so; its count and highbit stop at the bits of an int.
Shifted(j) ==
  [j EXCEPT !.val = @ \div 2,
            !.cnt = IF @ < IntBits THEN @ + (j.val % 2) ELSE @,
            !.highbit = IF @ < IntBits THEN @ + 1 ELSE @]

cnt_bits ==
  /\ job.op = "power" /\ job.val # 0
  /\ job' = Shifted(job)
  /\ UNCHANGED <<contrib, sampled, power>>

\* 1 << highbit, in an int.
PowerReturns ==
  /\ job.op = "power" /\ job.val = 0
  /\ power' = [of |-> job.of,
               is |-> CASE job.cnt <= 1 -> job.of
                        [] job.cnt > 1 /\ job.highbit = IntBits - 1 -> -(2 ^ (IntBits - 1))
                        [] OTHER -> 2 ^ job.highbit]
  /\ job' = Idle
  /\ UNCHANGED <<contrib, sampled>>

Init == job = Idle /\ contrib = NoContrib /\ sampled = NoSample /\ power = NoPower

Next ==
  \/ simage_resize \/ zoom \/ ResizeReturns
  \/ simage_resize3d \/ Samples \/ Resize3dReturns
  \/ simage_next_power_of_two \/ cnt_bits \/ PowerReturns

Spec == Init /\ [][Next]_vars

-----------------------------------------------------------------------------
(* Properties.                                                             *)

(***************************************************************************)
(* Whatever the sizes, every contribution comes from a pixel of the row or *)
(* column and fits the room made for it, and positions are mirrored on the *)
(* pixel nearest to them.  A row of one pixel, or one that is to become    *)
(* one, is too short to be mirrored.  Where the width of the filter should *)
(* be a whole number of halves and is a little less in floats, as the      *)
(* scale was rounded up, a position may have one contribution more than    *)
(* there is room for: the last one from 300 to 10, the tenth from 600 to   *)
(* 20.                                                                     *)
(***************************************************************************)
TooShort(old, new) == old = 1 \/ (new = 1 /\ old > 1)

RoundedDown(old, new) ==
  LET w == Width(old, new) IN
  /\ Shrinks(old, new) /\ (3 * old) % new = 0
  /\ Below([w EXCEPT !.e = @ + 1], Float((3 * old) \div new))

ContributionsInside ==
  contrib # NoContrib =>
    LET c == contrib IN
    /\ TooShort(c.old, c.new) \/ \A k \in DOMAIN c.pixels : c.pixels[k] \in 0..(c.old - 1)
    /\ Len(c.pixels) <= c.room + (IF RoundedDown(c.old, c.new) THEN 1 ELSE 0)

(***************************************************************************)
(* An area of one colour keeps it: the weights of a position sum up to one *)
(* when an axis grows, and to one within two hundredths when it shrinks.   *)
(* The weights are exact here and looked at up to 50 pixels; put_pixel(),  *)
(* which cuts the fraction of the sum of floats off, is left out.          *)
(***************************************************************************)
FlatStaysFlat ==
  contrib # NoContrib =>
    LET c == contrib
        sum == FoldLeft(LAMBDA a, b : a + b, 0, c.weights)
        one == 8 * c.old ^ 3
    IN c.old <= 50 =>
         IF c.old > c.new THEN 50 * Abs(sum * c.new - one) <= one ELSE sum = 8 * c.new ^ 2

(***************************************************************************)
(* simage_resize3d() takes the pixel in which a position begins, though it *)
(* adds up rounded steps: it misses it only where the position is nearer   *)
(* to the edge of the pixel than what the roundings of that many steps can *)
(* add up to.  In new sizes of some hundreds that is a position just at    *)
(* the beginning of a pixel.  It never takes one outside, unless the new   *)
(* size is so large, of about eight thousand, that the roundings are as    *)
(* much as a step: from 1028 to 8226 the last pixel is behind the image.   *)
(***************************************************************************)
\* At least i * old * new / 2^23: each sum is rounded by at most old / 2^24,
\* as is the step's share in it.  In parts of a pixel, new to one.
Drift(old, new, i) == (((i * old) \div 2 ^ 13 + 1) * new) \div 2 ^ 10

StepsOut(new) == new * new > 2 ^ 23

SamplesNearest ==
  sampled # NoSample =>
    \A a \in 1..3 :
      LET old == sampled.axes[a][1]
          new == sampled.axes[a][2]
          exact == sampled.at[a] * old
          drift == Drift(old, new, sampled.at[a])
      IN /\ sampled.pixel[a] \in 0..(old - 1) \/ StepsOut(new)
         /\ sampled.pixel[a] \in ((exact - drift - 1) \div new)..((exact + drift) \div new)

(***************************************************************************)
(* The next power of two is the least that is not below the number; zero   *)
(* is answered with zero, a number above the largest power with the lowest *)
(* negative one, and a negative number never.                              *)
(***************************************************************************)
PowersOfTwo == {2 ^ k : k \in 0..(IntBits - 2)}

PowerIsNext ==
  power # NoPower =>
    /\ power.of > 0
    /\ IF \E p \in PowersOfTwo : p >= power.of
         THEN /\ power.is \in PowersOfTwo /\ power.is >= power.of
              /\ \A p \in PowersOfTwo : p >= power.of => p >= power.is
         ELSE power.is = -(2 ^ (IntBits - 1))
=============================================================================
