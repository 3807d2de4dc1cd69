----------------------------- MODULE MpegMotion -----------------------------
(***************************************************************************)
(* The search for motion vectors of src/mpeg2enc/motion.c and the          *)
(* prediction from them of predict.c, for one macroblock.                  *)
(*                                                                         *)
(* p are the parameters, c is the picture being coded: its type, its       *)
(* struct, whether it is the second field of a frame, and the one after an *)
(* I field (ipflag), with the search windows.  A macroblock is at pixel    *)
(* i, j of it.  Pictures have no contents here: every vector a search can  *)
(* end with is one it may end with, and every choice between predictions   *)
(* may be made.  Bounds leave some of the vectors out.  Vectors are in     *)
(* half pixels.                                                            *)
(***************************************************************************)
EXTENDS MpegParameters, FiniteSetsExt

CONSTANTS
  Ends(_),        \* bound: where a search may end, of what it looks at
  EndPairs(_, _)  \* bound: where two searches for one macroblock may end

FRAME_PICTURE == "frame"
TOP_FIELD == "top"
BOTTOM_FIELD == "bottom"

MC_FRAME == "MC_FRAME"
MC_FIELD == "MC_FIELD"
MC_16X8 == "MC_16X8"
MC_DMV == "MC_DMV"

MB_INTRA == "MB_INTRA"
MB_FORWARD == "MB_FORWARD"
MB_BACKWARD == "MB_BACKWARD"

width(p) == 16 * mb_width(p)
height(p) == 16 * mb_height(p)

\* The parity of a field picture: 1 is the bottom field.
Own(c) == IF c.struct = BOTTOM_FIELD THEN 1 ELSE 0

(***************************************************************************)
(* A block of 16 x h pixels at x, y of a frame or a field, moved by the    *)
(* vector d.  It is taken from the previous reference (old), the next one, *)
(* or the field of the same frame that was coded before.  field is 0 for   *)
(* the top field and 1 for the bottom field; part tells which part of the  *)
(* macroblock it predicts.                                                 *)
(***************************************************************************)
Both == 2
All == 0
Block(ref, field, part, x, y, d, h) ==
  [ref |-> ref, field |-> field, part |-> part, x |-> x, y |-> y, d |-> d, h |-> h]

\* What a search measures from variables that it never set.
Anywhere == [ref |-> "unset"]

Refs == [forw |-> "old", back |-> "next"]

\* The frame that has the field of a parity, in forward prediction.
PredFrame(c, parity) ==
  IF c.type = P_TYPE /\ c.second /\ parity # Own(c) THEN "same" ELSE "old"

\* A vector that is not set for a macroblock, and a way to predict it.
Unset == <<"unset">>
Way(v0, v1, sels, found) == [MV |-> <<v0, v1>>, sel |-> sels, blocks |-> found]

(***************************************************************************)
(* fullsearch(): half pixel positions within the window and the picture.   *)
(***************************************************************************)
fullsearch(i0, j0, s, h, xmax, ymax) ==
  LET Reach(c0, half, max) ==
        LET lo == Max({0, c0 - half})
            hi == Min({max, c0 + half})
        IN (2 * lo - Bit(lo > 0)) .. (2 * hi + Bit(hi < max))
  IN [x |-> Reach(i0, s[1], xmax - 16), y |-> Reach(j0, s[2], ymax - h), at |-> <<2 * i0, 2 * j0>>]

Points(search) == search.x \X search.y
Found(search) == Ends(search) \cap Points(search)
FoundPairs(s1, s2) == EndPairs(s1, s2) \cap (Points(s1) \X Points(s2))

HalfWindow(s) == <<s[1], s[2] \div 2>>

\* In a frame picture; field vectors are kept in frame coordinates.
FrameWays(p, c, i, j, d) ==
  {Way(<<q[1] - 2 * i, q[2] - 2 * j>>, Unset, <<0, 0>>,
       {Block(Refs[d], Both, All, i, j, <<q[1] - 2 * i, q[2] - 2 * j>>, 16)}) :
     q \in Found(fullsearch(i, j, c.window[d], 16, width(p), height(p)))}

FieldSearch(p, c, i, j, d) ==
  fullsearch(i, j \div 2, HalfWindow(c.window[d]), 8, width(p), height(p) \div 2)

\* A faulty variant: field vectors kept in field coordinates.
InFieldCoordinates(q, i, j) == <<q[1] - 2 * i, q[2] - j>>

FrameVector(q, i, j) == <<q[1] - 2 * i, 2 * q[2] - 2 * j>>

frame_estimate(p, c, i, j, d) ==
  {Way(FrameVector(q[1], i, j), FrameVector(q[2], i, j), sels,
       {Block(Refs[d], sels[r], r, i, j \div 2, <<q[r][1] - 2 * i, q[r][2] - j>>, 8) : r \in {1, 2}}) :
     q \in FoundPairs(FieldSearch(p, c, i, j, d), FieldSearch(p, c, i, j, d)), sels \in {0, 1} \X {0, 1}}

\* In a field picture.
Parities(c) == IF c.ipflag THEN {1 - Own(c)} ELSE {0, 1}

FieldPictureSearch(p, c, i, j, d, h) ==
  fullsearch(i, j, HalfWindow(c.window[d]), h, width(p), height(p) \div 2)

FieldRef(c, d, parity) == IF d = Forw THEN PredFrame(c, parity) ELSE "next"

FieldWays(p, c, i, j, d) ==
  {Way(<<q[1] - 2 * i, q[2] - 2 * j>>, Unset, <<sel, 0>>,
       {Block(FieldRef(c, d, sel), sel, All, i, j, <<q[1] - 2 * i, q[2] - 2 * j>>, 16)}) :
     q \in Found(FieldPictureSearch(p, c, i, j, d, 16)), sel \in Parities(c)}

HalvesWays(p, c, i, j, d) ==
  LET Vector(q, r) == <<q[1] - 2 * i, q[2] - 2 * (j + 8 * (r - 1))>> IN
  {Way(Vector(q[1], 1), Vector(q[2], 2), sels,
       {Block(FieldRef(c, d, sels[r]), sels[r], r, i, j + 8 * (r - 1), Vector(q[r], r), 8) : r \in {1, 2}}) :
     q \in FoundPairs(FieldPictureSearch(p, c, i, j, d, 8), FieldPictureSearch(p, c, i, j + 8, d, 8)),
     sels \in Parities(c) \X Parities(c)}

(***************************************************************************)
(* Dual prime prediction: from both fields, with one vector and a small    *)
(* difference for the opposite parity.                                     *)
(***************************************************************************)
Halved(v) == (v + Bit(v > 0)) \div 2
OneAndHalf(v) == (3 * v + Bit(v > 0)) \div 2
ThirdOf(v) == IF v >= 0 THEN (v + 1) \div 3 ELSE -((1 - v) \div 3)

Deltas == (-1..1) \X (-1..1)

\* Vectors, relative to the macroblock, the nine candidates are tried for;
\* the first of a pair is the field predicted from, 1 for the top field.
PrimeVectors(p, c, i, j) ==
  LET Relative(q) == <<q[1] - 2 * i, q[2] - j>>
      Scaled(v, ppred) ==
        <<ThirdOf(2 * v[1]), ThirdOf(2 * (IF ppred = 1 THEN v[2] + 1 ELSE v[2] - 1))>>
      search == Found(FieldSearch(p, c, i, j, Forw))
      ppred == IF p.topfirst THEN 2 ELSE 1
  IN [same |-> {Relative(q) : q \in search}, cross |-> {Scaled(Relative(q), ppred) : q \in search}]

\* Vectors to the top and to the bottom field from that of the other parity.
Derived(topfirst, v) ==
  LET Near(e) == <<Halved(v[1]), Halved(v[2]) + e>>
      Far(e) == <<OneAndHalf(v[1]), OneAndHalf(v[2]) + e>>
  IN IF topfirst THEN <<Near(-1), Far(1)>> ELSE <<Far(-1), Near(1)>>

PlusVector(v, w) == <<v[1] + w[1], v[2] + w[2]>>

\* v, from x, y, points to a block of h lines of a picture of rows lines.
IsIn(p, x, y, v, h, rows) ==
  /\ 2 * x + v[1] \in 0..(2 * (width(p) - 16))
  /\ 2 * y + v[2] \in 0..(2 * (rows - h))

PrimeCandidates(p, c, i, j, v) ==
  LET y == j \div 2
      rows == height(p) \div 2
      o(delta) == [f \in {1, 2} |-> PlusVector(Derived(p.topfirst, v)[f], delta)]
  IN IF ~IsIn(p, i, y, v, 8, rows) THEN {}
     ELSE {[MV |-> <<v[1], 2 * v[2]>>, dmvector |-> delta,
            blocks |-> {Block("old", f - 1, f, i, y, v, 8) : f \in {1, 2}} \cup
                       {Block("old", 2 - f, f, i, y, o(delta)[f], 8) : f \in {1, 2}}] :
             delta \in {e \in Deltas : \A f \in {1, 2} : IsIn(p, i, y, o(e)[f], 8, rows)}}

dpframe_estimate(p, c, i, j) ==
  LET vectors == PrimeVectors(p, c, i, j)
  IN UNION {PrimeCandidates(p, c, i, j, v) : v \in vectors.same \cup vectors.cross}

\* No candidate may fit, whichever vectors the searches ended with.
MayMeasureUnset(p, c, i, j) ==
  LET vectors == PrimeVectors(p, c, i, j)
      None(S) == \E v \in S : PrimeCandidates(p, c, i, j, v) = {}
  IN None(vectors.same) /\ None(vectors.cross)

FieldDerived(c, v) == <<Halved(v[1]), Halved(v[2]) + (IF c.struct = TOP_FIELD THEN -1 ELSE 1)>>

dpfield_estimate(p, c, i, j) ==
  LET rows == height(p) \div 2
      opposite == IF c.second THEN "same" ELSE "old"
  IN UNION {
       LET v == <<q[1] - 2 * i, q[2] - 2 * j>>
           o(delta) == PlusVector(FieldDerived(c, v), delta)
       IN {[MV |-> v, dmvector |-> delta,
            blocks |-> {Block("old", Own(c), All, i, j, v, 16),
                        Block(opposite, 1 - Own(c), All, i, j, o(delta), 16)}] :
             delta \in {e \in Deltas : IsIn(p, i, j, o(e), 16, rows)}} :
       q \in Found(FieldPictureSearch(p, c, i, j, Forw, 16))}

(***************************************************************************)
(* What frame_ME() and field_ME() may leave in mbinfo: for each direction  *)
(* two vectors and the parities of the fields they point to.  measured are *)
(* the blocks the choice was made by.                                      *)
(***************************************************************************)
NoWay == Way(Unset, Unset, <<0, 0>>, {})

Mb(type, motion, f, b, dmv) ==
  [mb_type |-> type, motion_type |-> motion, forw |-> f, back |-> b, dmvector |-> dmv,
   measured |-> f.blocks \cup b.blocks]

Intra == Mb({MB_INTRA}, MC_FRAME, NoWay, NoWay, Unset)
Forward(motion, f) == Mb({MB_FORWARD}, motion, f, NoWay, Unset)
Backward(motion, b) == Mb({MB_BACKWARD}, motion, NoWay, b, Unset)

Interpolated(motion, F, B) ==
  {Mb({MB_FORWARD, MB_BACKWARD}, motion, f, b, Unset) : f \in F, b \in B}

Either(motion, F, B) ==
  {Forward(motion, f) : f \in F} \cup {Backward(motion, b) : b \in B} \cup Interpolated(motion, F, B)

DualPrime(ways) ==
  {Mb({MB_FORWARD}, MC_DMV, Way(w.MV, Unset, <<0, 0>>, w.blocks), NoWay, w.dmvector) : w \in ways}

Zero == <<0, 0>>

FrameP(p, c, i, j) ==
  LET here == Block("old", Both, All, i, j, Zero, 16)
      bypassed == Mb({}, MC_FRAME, Way(Zero, Unset, <<0, 0>>, {here}), NoWay, Unset)
  IN {Intra, bypassed}
     \cup {Forward(MC_FRAME, f) : f \in FrameWays(p, c, i, j, Forw)}
     \cup (IF c.frame_pred_dct THEN {}
           ELSE {Forward(MC_FIELD, f) : f \in frame_estimate(p, c, i, j, Forw)})
     \cup (IF c.frame_pred_dct \/ p.M # 1 THEN {}
           ELSE DualPrime(dpframe_estimate(p, c, i, j))
                \cup (IF MayMeasureUnset(p, c, i, j)
                        THEN {[Intra EXCEPT !.measured = {Anywhere}]} ELSE {}))

FrameB(p, c, i, j) ==
  {Intra}
  \cup Either(MC_FRAME, FrameWays(p, c, i, j, Forw), FrameWays(p, c, i, j, Back))
  \cup (IF c.frame_pred_dct THEN {}
        ELSE Either(MC_FIELD, frame_estimate(p, c, i, j, Forw), frame_estimate(p, c, i, j, Back)))

frame_ME(p, c, i, j) ==
  CASE c.type = I_TYPE -> {Intra}
    [] c.type = P_TYPE -> FrameP(p, c, i, j)
    [] c.type = B_TYPE -> FrameB(p, c, i, j)

FieldP(p, c, i, j) ==
  LET here == Block("old", Own(c), All, i, j, Zero, 16)
      bypassed == Mb({}, MC_FIELD, Way(Zero, Unset, <<Own(c), 0>>, {here}), NoWay, Unset)
  IN {Intra} \cup (IF c.ipflag THEN {} ELSE {bypassed})
     \cup {Forward(MC_FIELD, f) : f \in FieldWays(p, c, i, j, Forw)}
     \cup {Forward(MC_16X8, f) : f \in HalvesWays(p, c, i, j, Forw)}
     \cup (IF p.M = 1 /\ ~c.ipflag THEN DualPrime(dpfield_estimate(p, c, i, j)) ELSE {})

FieldB(p, c, i, j) ==
  {Intra}
  \cup Either(MC_FIELD, FieldWays(p, c, i, j, Forw), FieldWays(p, c, i, j, Back))
  \cup Either(MC_16X8, HalvesWays(p, c, i, j, Forw), HalvesWays(p, c, i, j, Back))

field_ME(p, c, i, j) ==
  CASE c.type = I_TYPE -> {Intra}
    [] c.type = P_TYPE -> FieldP(p, c, i, j)
    [] c.type = B_TYPE -> FieldB(p, c, i, j)

(***************************************************************************)
(* predict.c                                                               *)
(***************************************************************************)
calc_DMV(p, c, m) ==
  LET v == m.forw.MV[1]
      both == IF c.struct = FRAME_PICTURE
                THEN Derived(p.topfirst, <<v[1], v[2] \div 2>>)
                ELSE <<FieldDerived(c, v)>>
  IN [f \in DOMAIN both |-> PlusVector(both[f], m.dmvector)]

InField(v) == <<v[1], v[2] \div 2>>

FrameForward(p, c, i, j, m) ==
  LET v == m.forw.MV
      sel == m.forw.sel
  IN CASE m.motion_type = MC_FRAME \/ MB_FORWARD \notin m.mb_type ->
            {Block("old", Both, All, i, j, v[1], 16)}
       [] m.motion_type = MC_FIELD /\ MB_FORWARD \in m.mb_type ->
            {Block("old", sel[r], r, i, j \div 2, InField(v[r]), 8) : r \in {1, 2}}
       [] m.motion_type = MC_DMV /\ MB_FORWARD \in m.mb_type ->
            {Block("old", f - 1, f, i, j \div 2, InField(v[1]), 8) : f \in {1, 2}} \cup
            {Block("old", 2 - f, f, i, j \div 2, calc_DMV(p, c, m)[f], 8) : f \in {1, 2}}

FieldForward(p, c, i, j, m) ==
  LET v == m.forw.MV
      sel == m.forw.sel
  IN CASE m.motion_type = MC_FIELD \/ MB_FORWARD \notin m.mb_type ->
            {Block(PredFrame(c, sel[1]), sel[1], All, i, j, v[1], 16)}
       [] m.motion_type = MC_16X8 /\ MB_FORWARD \in m.mb_type ->
            {Block(PredFrame(c, sel[r]), sel[r], r, i, j + 8 * (r - 1), v[r], 8) : r \in {1, 2}}
       [] m.motion_type = MC_DMV /\ MB_FORWARD \in m.mb_type ->
            {Block("old", Own(c), All, i, j, v[1], 16),
             Block(IF c.second THEN "same" ELSE "old", 1 - Own(c), All, i, j, calc_DMV(p, c, m)[1], 16)}

BackwardBlocks(p, c, i, j, m) ==
  LET v == m.back.MV
      sel == m.back.sel
  IN CASE m.motion_type = MC_FRAME -> {Block("next", Both, All, i, j, v[1], 16)}
       [] m.motion_type = MC_FIELD /\ c.struct = FRAME_PICTURE ->
            {Block("next", sel[r], r, i, j \div 2, InField(v[r]), 8) : r \in {1, 2}}
       [] m.motion_type = MC_FIELD /\ c.struct # FRAME_PICTURE ->
            {Block("next", sel[1], All, i, j, v[1], 16)}
       [] m.motion_type = MC_16X8 ->
            {Block("next", sel[r], r, i, j + 8 * (r - 1), v[r], 8) : r \in {1, 2}}

predict_mb(p, c, i, j, m) ==
  IF MB_INTRA \in m.mb_type THEN {}
  ELSE (IF MB_FORWARD \in m.mb_type \/ c.type = P_TYPE
          THEN IF c.struct = FRAME_PICTURE THEN FrameForward(p, c, i, j, m) ELSE FieldForward(p, c, i, j, m)
          ELSE {})
       \cup (IF MB_BACKWARD \in m.mb_type THEN BackwardBlocks(p, c, i, j, m) ELSE {})

\* The pixels pred() and pred_comp() read for a block, in each component: one
\* column or row more for half pixels.
pred_comp(x, y, d, w, h, columns, rows) ==
  LET Fits(at, n, max) == at >= 0 /\ (at \div 2) + n + (at % 2) <= max
  IN Fits(2 * x + d[1], w, columns) /\ Fits(2 * y + d[2], h, rows)

HalfVector(v) == IF v < 0 THEN -((-v) \div 2) ELSE v \div 2

pred(p, b) ==
  LET rows == IF b.field = Both THEN height(p) ELSE height(p) \div 2
      hor == IF p.chroma_format # CHROMA444 THEN 2 ELSE 1
      ver == IF p.chroma_format = CHROMA420 THEN 2 ELSE 1
      d == <<IF hor = 2 THEN HalfVector(b.d[1]) ELSE b.d[1],
             IF ver = 2 THEN HalfVector(b.d[2]) ELSE b.d[2]>>
  IN /\ pred_comp(b.x, b.y, b.d, 16, b.h, width(p), rows)
     /\ pred_comp(b.x \div hor, b.y \div ver, d, 16 \div hor, b.h \div ver,
                  width(p) \div hor, rows \div ver)
=============================================================================
