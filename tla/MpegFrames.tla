----------------------------- MODULE MpegFrames -----------------------------
(***************************************************************************)
(* How readpic.c makes the planes of a frame from the pixels of a client's *)
(* image, whose lowest row comes first: what each sample is made from.     *)
(* How red, green and blue make up luminance and chrominance is left out.  *)
(*                                                                         *)
(* A filter gives, for each of its taps, the weight in units of 1/512 and  *)
(* the row or column it takes.  Taps are numbered from left to right, or   *)
(* from top to bottom but in a bottom field, and 0 is the one before the   *)
(* sample's site or at it.                                                 *)
(***************************************************************************)
EXTENDS MpegMotion

CHROMA422 == 2

\* The pixel <<column, row>> of the client's image that column i and row j of
\* a full plane are made from: borders repeat the last column and row.
SimpegWrite_read_buffer(p, i, j) ==
  LET column == IF i < p.horizontal_size THEN i ELSE p.horizontal_size - 1
      line   == IF j < p.vertical_size THEN j ELSE p.vertical_size - 1
  IN <<column, p.vertical_size - 1 - line>>

-----------------------------------------------------------------------------
Halfway == <<5, 11, -21, -37, 70, 228, 228, 70, -37, -21, 11, 5>>
Cosited == <<22, 0, -52, 0, 159, 256, 159, 0, -52, 0, 22>>
Quarter == <<8, 5, -30, -18, 113, 242, 192, 35, -38, -10, 11, 2>>

Filter(weights, Place(_)) ==
  [t \in {t \in -5 .. Len(weights) - 6 : weights[t + 6] # 0} |->
     [weight |-> weights[t + 6], place |-> Place(t)]]

\* Tap t at place i of n.  The last of twelve taps is bounded like the one
\* before it, so at place n-6 it is the one past the end.
Neighbour(t, i, n) ==
  IF t <= 0 THEN (IF i < -t THEN 0 ELSE i + t)
  ELSE IF i < n - (IF t = 6 THEN 5 ELSE t) THEN i + t ELSE n - 1

\* The same at row j, a multiple of four, among the n rows of a frame, in the
\* field of that row and in the other one.
NeighbourInTop(t, j, n) ==
  IF t <= 0 THEN (IF j < -2 * t THEN 0 ELSE j + 2 * t)
  ELSE IF j < n - 2 * t THEN j + 2 * t ELSE n - 2

NeighbourInBottom(t, j, n) ==
  LET down == 3 - 2 * t IN
  IF down < 0 THEN (IF j < -down THEN 1 ELSE j + down)
  ELSE IF j < n - down THEN j + down ELSE n - 1

\* What column c of a plane of half the width is made from.
conv444to422(p, c) ==
  Filter(IF p.mpeg1 THEN Halfway ELSE Cosited, LAMBDA t : Neighbour(t, 2 * c, width(p)))

\* A frame's rows are filtered together whatever it is.
JoinsFields(p, r) == Filter(Halfway, LAMBDA t : Neighbour(t, 2 * r, height(p)))

\* What row r of a plane of half the height is made from.
conv422to420(p, r) ==
  IF p.prog_frame THEN Filter(Halfway, LAMBDA t : Neighbour(t, 2 * r, height(p)))
  ELSE IF r % 2 = 0 THEN Filter(Quarter, LAMBDA t : NeighbourInTop(t, 2 * r, height(p)))
  ELSE Filter(Quarter, LAMBDA t : NeighbourInBottom(t, 2 * (r - 1), height(p)))

\* A filter's result where all the samples it takes have the value v.
OfFlat(v, filter) ==
  LET sum == MapThenSumSet(LAMBDA t : filter[t].weight * v, DOMAIN filter)
      idx == (sum + 256) \div 512
  IN IF idx < 0 THEN 0 ELSE IF idx > 255 THEN 255 ELSE idx
=============================================================================
