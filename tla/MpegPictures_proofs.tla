------------------------- MODULE MpegPictures_proofs -------------------------
(***************************************************************************)
(* Proofs about the MPEG encoder's pictures (MpegPictures), for all        *)
(* parameters a file may give: pictures of any size, search windows of any *)
(* width, groups of any length.                                            *)
(*                                                                         *)
(* The invariant says where parameters, sequence and picture come from.    *)
(* Then come facts about one macroblock: SearchIsInside says where a       *)
(* search may end, a lemma for each way to predict says what it measures,  *)
(* and one for each kind of picture that predict_mb() takes the same       *)
(* blocks.  The part on encoder and decoder has VectorIsRead for a         *)
(* component of a vector, DemandIsRead for quantisers, PredictedIsShown    *)
(* for a macroblock that is written and SkippedIsShown for one that is     *)
(* not, and, by the invariant Together, slices.  The last part is about    *)
(* headers: AdjustedAre says what becomes of every parameter, and each     *)
(* kind of header has a lemma that it is read as it was written.           *)
(***************************************************************************)
EXTENDS MpegPictures, TLAPS

ParmsOK ==
  IF stage \in {"given", "refused"} THEN parms \in Parameters
  ELSE /\ stage \in {"accepted", "between", "coding", "second"}
       /\ \E p \in Parameters : IsAccepted(p) /\ parms = Adjusted(p)

SequenceOK ==
  stage \in {"between", "coding", "second"} =>
    sequence = <<simpeg_encode_putseqhdr(parms)>> \o
               (IF parms.mpeg1 THEN <<>> ELSE <<simpeg_encode_putseqext(parms)>>)

(* The picture is a frame, a first field or the second field of one.       *)
IsPictureOf(p, c) ==
  \E kind \in Kinds(p) :
    LET first == PictureOf(p, kind[1], kind[2], FirstStruct(p))
    IN c = first \/ (p.fieldpic /\ c = SecondOf(p, first))

PictOK ==
  /\ stage = "coding" => IsPictureOf(parms, pict)
  /\ stage = "second" =>
       /\ parms.fieldpic
       /\ \E kind \in Kinds(parms) : pict = PictureOf(parms, kind[1], kind[2], FirstStruct(parms))

Inv == ParmsOK /\ SequenceOK /\ PictOK

LEMMA InvInit == Init => Inv
  BY DEF Init, Inv, ParmsOK, SequenceOK, PictOK

LEMMA InvStep == Inv /\ [Next]_vars => Inv'
<1> SUFFICES ASSUME Inv, [Next]_vars PROVE Inv'
  OBVIOUS
<1> USE DEF Inv
<1>1. CASE readparmfile
  BY <1>1 DEF readparmfile, ParmsOK, SequenceOK, PictOK
<1>2. CASE SimpegWrite_putseq_begin
  BY <1>2 DEF SimpegWrite_putseq_begin, ParmsOK, SequenceOK, PictOK
<1>3. CASE putseq_encode_bitmap
  <2>1. PICK kind \in Kinds(parms) :
          Begins(PictureOf(parms, kind[1], kind[2], FirstStruct(parms)))
    BY <1>3 DEF putseq_encode_bitmap
  <2>2. stage = "between" /\ stage' = "coding" /\ UNCHANGED <<parms, sequence>>
        /\ pict' = PictureOf(parms, kind[1], kind[2], FirstStruct(parms))
    BY <1>3, <2>1 DEF putseq_encode_bitmap, Begins
  <2> QED BY <2>2 DEF ParmsOK, SequenceOK, PictOK, IsPictureOf
<1>4. CASE second_field
  <2>1. stage = "second" /\ stage' = "coding" /\ UNCHANGED <<parms, sequence>>
        /\ pict' = SecondOf(parms, pict)
    BY <1>4 DEF second_field, Begins
  <2> QED BY <2>1 DEF ParmsOK, SequenceOK, PictOK, IsPictureOf
<1>5. CASE putpict
  BY <1>5 DEF putpict, ParmsOK, SequenceOK, PictOK
<1>6. CASE end_of_picture
  <2>1. CASE parms.fieldpic /\ ~pict.second
    <3>1. stage = "coding" /\ stage' = "second" /\ UNCHANGED <<parms, sequence, pict>>
      BY <1>6, <2>1 DEF end_of_picture
    <3>2. \A first : SecondOf(parms, first).second
      BY DEF SecondOf
    <3> QED BY <2>1, <3>1, <3>2 DEF ParmsOK, SequenceOK, PictOK, IsPictureOf
  <2>2. CASE ~(parms.fieldpic /\ ~pict.second)
    BY <1>6, <2>2 DEF end_of_picture, ParmsOK, SequenceOK, PictOK
  <2> QED BY <2>1, <2>2
<1>7. CASE UNCHANGED vars
  BY <1>7 DEF vars, picture, ParmsOK, SequenceOK, PictOK
<1> QED BY <1>1, <1>2, <1>3, <1>4, <1>5, <1>6, <1>7 DEF Next

(* At every moment the parameters are those of a file, as read and then as *)
(* adjusted by the checks that accepted it; the headers written are theirs *)
(* and the picture being coded is one of their sequence.                   *)
THEOREM Invariant == Spec => []Inv
  BY InvInit, InvStep, PTL DEF Spec

(***************************************************************************)
(* Searches and blocks.                                                    *)
(***************************************************************************)
HasWindow(s) == s[1] \in Nat /\ s[2] \in Nat

(* A vector of a search in a window of s.                                  *)
IsReached(v, s) ==
  /\ v[1] \in -(2 * s[1] + 1) .. (2 * s[1] + 1)
  /\ v[2] \in -(2 * s[2] + 1) .. (2 * s[2] + 1)

LEMMA MaxOfTwo ==
  ASSUME NEW a \in Int, NEW b \in Int
  PROVE  Max({a, b}) = IF a >= b THEN a ELSE b
<1> DEFINE m == IF a >= b THEN a ELSE b
<1>1. m \in {a, b} /\ \A y \in {a, b} : m >= y
  OBVIOUS
<1>2. \A x \in {a, b} : (\A y \in {a, b} : x >= y) => x = m
  OBVIOUS
<1> HIDE DEF m
<1>3. Max({a, b}) = m
  BY <1>1, <1>2 DEF Max
<1> QED BY <1>3 DEF m

LEMMA MinOfTwo ==
  ASSUME NEW a \in Int, NEW b \in Int
  PROVE  Min({a, b}) = IF a <= b THEN a ELSE b
<1> DEFINE m == IF a <= b THEN a ELSE b
<1>1. m \in {a, b} /\ \A y \in {a, b} : m <= y
  OBVIOUS
<1>2. \A x \in {a, b} : (\A y \in {a, b} : x <= y) => x = m
  OBVIOUS
<1> HIDE DEF m
<1>3. Min({a, b}) = m
  BY <1>1, <1>2 DEF Min
<1> QED BY <1>3 DEF m

(* Along one axis: a search that starts at c0 within half, in 0 .. max.    *)
SearchRange(c0, half, max) ==
  LET lo == Max({0, c0 - half})
      hi == Min({max, c0 + half})
  IN (2 * lo - Bit(lo > 0)) .. (2 * hi + Bit(hi < max))

LEMMA RangeIsInside ==
  ASSUME NEW c0 \in Nat, NEW half \in Nat, NEW max \in Nat, c0 <= max,
         NEW x \in SearchRange(c0, half, max)
  PROVE  x \in 0 .. 2 * max /\ x - 2 * c0 \in -(2 * half + 1) .. (2 * half + 1)
<1> DEFINE lo == Max({0, c0 - half})
           hi == Min({max, c0 + half})
           a == 2 * lo - Bit(lo > 0)
           b == 2 * hi + Bit(hi < max)
<1>1. lo = IF 0 >= c0 - half THEN 0 ELSE c0 - half
  BY MaxOfTwo
<1>2. hi = IF max <= c0 + half THEN max ELSE c0 + half
  BY MinOfTwo
<1>3. x \in a .. b
  BY DEF SearchRange
<1> HIDE DEF lo, hi
<1>4. a \in Int /\ b \in Int /\ a >= 0 /\ b <= 2 * max
      /\ a >= 2 * (c0 - half) - 1 /\ b <= 2 * (c0 + half) + 1
  BY <1>1, <1>2 DEF Bit
<1> HIDE DEF a, b
<1> QED BY <1>3, <1>4

(* A search ends in the picture and in its window.                         *)
EndsInside(q, i0, j0, s, h, xmax, ymax) ==
  /\ q = <<q[1], q[2]>>
  /\ q[1] \in 0 .. 2 * (xmax - 16) /\ q[2] \in 0 .. 2 * (ymax - h)
  /\ IsReached(<<q[1] - 2 * i0, q[2] - 2 * j0>>, s)

LEMMA SearchIsInside ==
  ASSUME NEW i0 \in Nat, NEW j0 \in Nat, NEW s, HasWindow(s), NEW h \in Nat,
         NEW xmax \in Nat, NEW ymax \in Nat, i0 <= xmax - 16, j0 <= ymax - h,
         NEW q \in Points(fullsearch(i0, j0, s, h, xmax, ymax))
  PROVE  EndsInside(q, i0, j0, s, h, xmax, ymax)
<1> DEFINE search == fullsearch(i0, j0, s, h, xmax, ymax)
           X == SearchRange(i0, s[1], xmax - 16)
           Y == SearchRange(j0, s[2], ymax - h)
<1>1. search.x = X /\ search.y = Y
  BY DEF fullsearch, SearchRange
<1>2. s[1] \in Nat /\ s[2] \in Nat /\ xmax - 16 \in Nat /\ ymax - h \in Nat
  BY DEF HasWindow
<1> HIDE DEF X, Y
<1>3. q = <<q[1], q[2]>> /\ q[1] \in X /\ q[2] \in Y
  BY <1>1 DEF Points
<1>4. q[1] \in 0 .. 2 * (xmax - 16) /\ q[1] - 2 * i0 \in -(2 * s[1] + 1) .. (2 * s[1] + 1)
  BY <1>2, <1>3, RangeIsInside DEF X
<1>5. q[2] \in 0 .. 2 * (ymax - h) /\ q[2] - 2 * j0 \in -(2 * s[2] + 1) .. (2 * s[2] + 1)
  BY <1>2, <1>3, RangeIsInside DEF Y
<1> QED BY <1>3, <1>4, <1>5 DEF EndsInside, IsReached

(***************************************************************************)
(* The parameters an encoder works with, as far as motion goes, and a      *)
(* picture and a macroblock at i, j of it.                                 *)
(***************************************************************************)
GoodParms(p) ==
  /\ mb_width(p) \in Nat \ {0} /\ mb_height(p) \in Nat \ {0}
  /\ p.fieldpic \in BOOLEAN /\ (p.fieldpic => mb_height(p) % 2 = 0)
  /\ p.topfirst \in BOOLEAN
  /\ p.chroma_format \in 1 .. 3

GoodPict(p, c) ==
  /\ c.type \in PictTypes
  /\ c.struct \in {FRAME_PICTURE, TOP_FIELD, BOTTOM_FIELD}
  /\ c.struct = FRAME_PICTURE <=> ~p.fieldpic
  /\ c.type \in {P_TYPE, B_TYPE} => HasWindow(c.window[Forw])
  /\ c.type = B_TYPE => HasWindow(c.window[Back])

Rows(p, field) == IF field = Both THEN height(p) ELSE height(p) \div 2

(* What a block is measured or predicted from lies inside the reference.   *)
IsInside(p, b, i, j) ==
  /\ b = Block(b.ref, b.field, b.part, b.x, b.y, b.d, b.h)
  /\ b.d = <<b.d[1], b.d[2]>> /\ b.d[1] \in Int /\ b.d[2] \in Int
  /\ b.field \in {0, 1, 2}
  /\ b.x \in Nat /\ b.x % 16 = 0 /\ b.y \in Nat /\ b.y % 8 = 0
  /\ b.h \in {8, 16}
  /\ IsIn(p, b.x, b.y, b.d, b.h, Rows(p, b.field))

LEMMA InsideIsRead ==
  ASSUME NEW p, GoodParms(p), NEW b, NEW i, NEW j, IsInside(p, b, i, j)
  PROVE  pred(p, b)
<1> DEFINE W == mb_width(p)
           rows == Rows(p, b.field)
           x == b.x
           y == b.y
           h == b.h
           d1 == b.d[1]
           d2 == b.d[2]
<1>1. W \in Nat /\ width(p) = 16 * W
  BY DEF GoodParms, width
<1>2. rows \in Nat /\ rows % 8 = 0 /\ rows = IF b.field = Both THEN height(p) ELSE height(p) \div 2
  BY DEF GoodParms, height, Rows
<1>3. x \in Nat /\ x % 16 = 0 /\ y \in Nat /\ y % 8 = 0 /\ h \in {8, 16}
      /\ d1 \in Int /\ d2 \in Int
      /\ 2 * x + d1 >= 0 /\ 2 * x + d1 <= 2 * (16 * W - 16)
      /\ 2 * y + d2 >= 0 /\ 2 * y + d2 <= 2 * (rows - h)
  BY <1>1, <1>2 DEF IsInside, IsIn
<1> HIDE DEF W, rows, x, y, h, d1, d2
<1>4. pred_comp(x, y, b.d, 16, h, width(p), rows)
  <2>1. LET at == 2 * x + d1 IN at >= 0 /\ (at \div 2) + 16 + (at % 2) <= width(p)
    BY <1>1, <1>3
  <2>2. LET at == 2 * y + d2 IN at >= 0 /\ (at \div 2) + h + (at % 2) <= rows
    BY <1>2, <1>3
  <2> QED BY <2>1, <2>2 DEF pred_comp, d1, d2
<1>5. ASSUME NEW hor \in {1, 2}, NEW ver \in {1, 2},
             NEW d, d = <<IF hor = 2 THEN HalfVector(d1) ELSE d1, IF ver = 2 THEN HalfVector(d2) ELSE d2>>
      PROVE  pred_comp(x \div hor, y \div ver, d, 16 \div hor, h \div ver, width(p) \div hor, rows \div ver)
  <2>1. d[1] = (IF hor = 2 THEN HalfVector(d1) ELSE d1) /\ d[2] = (IF ver = 2 THEN HalfVector(d2) ELSE d2)
    BY <1>5
  <2>2. LET at == 2 * (x \div hor) + d[1]
        IN at >= 0 /\ (at \div 2) + (16 \div hor) + (at % 2) <= width(p) \div hor
    <3>1. CASE hor = 1
      BY <3>1, <2>1, <1>1, <1>3
    <3>2. CASE hor = 2
      BY <3>2, <2>1, <1>1, <1>3 DEF HalfVector
    <3> QED BY <3>1, <3>2
  <2>3. LET at == 2 * (y \div ver) + d[2]
        IN at >= 0 /\ (at \div 2) + (h \div ver) + (at % 2) <= rows \div ver
    <3>1. CASE ver = 1
      BY <3>1, <2>1, <1>2, <1>3
    <3>2. CASE ver = 2
      BY <3>2, <2>1, <1>2, <1>3 DEF HalfVector
    <3> QED BY <3>1, <3>2
  <2> QED BY <2>2, <2>3 DEF pred_comp
<1> QED
  BY <1>2, <1>4, <1>5 DEF pred, x, y, h, d1, d2

(***************************************************************************)
(* What each way to predict a macroblock measures.                         *)
(***************************************************************************)
(* A macroblock of a frame, and of a field of one.                         *)
InFrame(p, i, j) ==
  /\ i \in Nat /\ i % 16 = 0 /\ i <= width(p) - 16
  /\ j \in Nat /\ j % 16 = 0 /\ j <= height(p) - 16
InFieldPicture(p, i, j) ==
  /\ i \in Nat /\ i % 16 = 0 /\ i <= width(p) - 16
  /\ j \in Nat /\ j % 16 = 0 /\ j <= height(p) \div 2 - 16

LEMMA SizesAre ==
  ASSUME NEW p, GoodParms(p)
  PROVE  /\ width(p) \in Nat /\ width(p) % 16 = 0 /\ width(p) >= 16
         /\ height(p) \in Nat /\ height(p) % 16 = 0 /\ height(p) >= 16
         /\ height(p) \div 2 \in Nat /\ (height(p) \div 2) % 8 = 0 /\ height(p) \div 2 >= 8
  BY DEF GoodParms, width, height

LEMMA HalfIsLess ==
  ASSUME NEW s, HasWindow(s)
  PROVE  HasWindow(HalfWindow(s)) /\ \A v : IsReached(v, HalfWindow(s)) => IsReached(v, s)
<1>1. s[1] \in Nat /\ s[2] \in Nat /\ HalfWindow(s)[1] = s[1] /\ HalfWindow(s)[2] = s[2] \div 2
  BY DEF HasWindow, HalfWindow
<1>2. s[2] \div 2 \in Nat /\ s[2] \div 2 <= s[2]
  BY <1>1
<1> QED BY <1>1, <1>2 DEF HasWindow, IsReached

LEMMA SearchesFind == \A search : Found(search) \subseteq Points(search)
  BY DEF Found

LEMMA PairsFind ==
  ASSUME NEW s1, NEW s2, NEW q \in FoundPairs(s1, s2)
  PROVE  q = <<q[1], q[2]>> /\ q[1] \in Points(s1) /\ q[2] \in Points(s2)
  BY DEF FoundPairs

IsVector(v) == v = <<v[1], v[2]>> /\ v[1] \in Int /\ v[2] \in Int

(* One vector to a frame.                                                  *)
FrameBlock(d, i, j, v) == Block(Refs[d], Both, All, i, j, v, 16)

LEMMA FrameWaysAre ==
  ASSUME NEW p, NEW c, NEW i, NEW j, NEW d, GoodParms(p), InFrame(p, i, j),
         HasWindow(c.window[d]), NEW w \in FrameWays(p, c, i, j, d)
  PROVE  \E v : /\ w = Way(v, Unset, <<0, 0>>, {FrameBlock(d, i, j, v)})
                /\ IsVector(v) /\ IsReached(v, c.window[d])
                /\ IsInside(p, FrameBlock(d, i, j, v), i, j)
<1> DEFINE s == c.window[d]
<1>1. PICK q \in Found(fullsearch(i, j, s, 16, width(p), height(p))) :
        w = Way(<<q[1] - 2 * i, q[2] - 2 * j>>, Unset, <<0, 0>>,
                {Block(Refs[d], Both, All, i, j, <<q[1] - 2 * i, q[2] - 2 * j>>, 16)})
  BY DEF FrameWays
<1> DEFINE v == <<q[1] - 2 * i, q[2] - 2 * j>>
<1>2. EndsInside(q, i, j, s, 16, width(p), height(p))
  BY SizesAre, SearchesFind, SearchIsInside DEF InFrame
<1>3. q[1] \in 0 .. 2 * (width(p) - 16) /\ q[2] \in 0 .. 2 * (height(p) - 16) /\ IsReached(v, s)
  BY <1>2 DEF EndsInside
<1>4. IsVector(v) /\ IsIn(p, i, j, v, 16, height(p))
  BY <1>3, SizesAre DEF InFrame, IsIn, IsVector
<1>5. IsInside(p, FrameBlock(d, i, j, v), i, j)
  BY <1>4 DEF IsInside, FrameBlock, Block, Rows, Both, InFrame, IsVector
<1> QED BY <1>1, <1>3, <1>4, <1>5 DEF FrameBlock

(* Two vectors to fields of a frame, in lines of a field.                  *)
FieldBlock(ref, sel, r, i, j, v) == Block(ref, sel, r, i, j \div 2, v, 8)
TwoFieldsWay(ref, i, j, v, sels) ==
  Way(<<v[1][1], 2 * v[1][2]>>, <<v[2][1], 2 * v[2][2]>>, sels,
      {FieldBlock(ref, sels[r], r, i, j, v[r]) : r \in {1, 2}})

LEMMA frame_estimateGives ==
  ASSUME NEW p, NEW c, NEW i, NEW j, NEW d, GoodParms(p), InFrame(p, i, j),
         HasWindow(c.window[d]), NEW w \in frame_estimate(p, c, i, j, d)
  PROVE  \E v, sels :
           /\ w = TwoFieldsWay(Refs[d], i, j, v, sels)
           /\ sels \in {0, 1} \X {0, 1}
           /\ \A r \in {1, 2} :
                /\ IsVector(v[r]) /\ IsReached(v[r], c.window[d])
                /\ IsInside(p, FieldBlock(Refs[d], sels[r], r, i, j, v[r]), i, j)
<1> DEFINE s == HalfWindow(c.window[d])
           rows == height(p) \div 2
           search == FieldSearch(p, c, i, j, d)
           Found2(q, sels) ==
             Way(FrameVector(q[1], i, j), FrameVector(q[2], i, j), sels,
               {Block(Refs[d], sels[r], r, i, j \div 2, <<q[r][1] - 2 * i, q[r][2] - j>>, 8) : r \in {1, 2}})
<1>0. frame_estimate(p, c, i, j, d) =
        {Found2(q, sels) : q \in FoundPairs(search, search), sels \in {0, 1} \X {0, 1}}
  BY DEF frame_estimate
<1> HIDE DEF Found2
<1>1. PICK q \in FoundPairs(search, search), sels \in {0, 1} \X {0, 1} : w = Found2(q, sels)
  BY <1>0
<1> USE DEF Found2
<1> DEFINE Vector(r) == <<q[r][1] - 2 * i, q[r][2] - j>>
           v == <<Vector(1), Vector(2)>>
<1>2. j \div 2 \in Nat /\ 2 * (j \div 2) = j /\ (j \div 2) % 8 = 0 /\ j \div 2 <= rows - 8
  BY SizesAre DEF InFrame
<1>3. HasWindow(s)
  BY HalfIsLess
<1>4. ASSUME NEW r \in {1, 2}
      PROVE  /\ q[r][1] \in 0 .. 2 * (width(p) - 16) /\ q[r][2] \in 0 .. 2 * (rows - 8)
             /\ IsReached(Vector(r), s)
  <2>1. q[r] \in Points(search)
    BY PairsFind
  <2>2. EndsInside(q[r], i, j \div 2, s, 8, width(p), rows)
    BY <2>1, <1>2, <1>3, SizesAre, SearchIsInside DEF InFrame, FieldSearch
  <2> QED BY <2>2, <1>2 DEF EndsInside
<1>5. ASSUME NEW r \in {1, 2}
      PROVE  /\ IsVector(v[r]) /\ IsReached(v[r], c.window[d])
             /\ IsInside(p, FieldBlock(Refs[d], sels[r], r, i, j, v[r]), i, j)
  <2>1. v[r] = Vector(r)
    OBVIOUS
  <2>2. IsVector(Vector(r)) /\ IsIn(p, i, j \div 2, Vector(r), 8, rows)
    <3>1. q[r][1] \in Int /\ q[r][2] \in Int /\ width(p) \in Int /\ rows \in Int
          /\ i \in Nat /\ j \in Nat
      BY <1>4, SizesAre DEF InFrame
    <3>2. 2 * i + Vector(r)[1] = q[r][1] /\ 2 * (j \div 2) + Vector(r)[2] = q[r][2]
      BY <1>2, <3>1
    <3>3. IsIn(p, i, j \div 2, Vector(r), 8, rows)
      BY <1>4, <3>2 DEF IsIn
    <3> QED BY <3>1, <3>3 DEF IsVector
  <2>3. IsReached(Vector(r), c.window[d])
    BY <1>4, HalfIsLess
  <2>4. sels[r] \in {0, 1}
    OBVIOUS
  <2> HIDE DEF Vector, v
  <2>5. IsInside(p, FieldBlock(Refs[d], sels[r], r, i, j, Vector(r)), i, j)
    BY <1>2, <2>2, <2>4 DEF IsInside, FieldBlock, Block, Rows, Both, InFrame, IsVector
  <2> QED BY <2>1, <2>2, <2>3, <2>5
<1>6. w = TwoFieldsWay(Refs[d], i, j, v, sels)
  <2>1. \A r \in {1, 2} : v[r] = Vector(r)
    OBVIOUS
  <2>2. v[1][1] = q[1][1] - 2 * i /\ v[2][1] = q[2][1] - 2 * i
        /\ v[1][2] = q[1][2] - j /\ v[2][2] = q[2][2] - j
    OBVIOUS
  <2>3. FrameVector(q[1], i, j) = <<v[1][1], 2 * v[1][2]>>
        /\ FrameVector(q[2], i, j) = <<v[2][1], 2 * v[2][2]>>
    BY <1>4, <2>2, SizesAre DEF FrameVector, InFrame
  <2>4. {Block(Refs[d], sels[r], r, i, j \div 2, Vector(r), 8) : r \in {1, 2}}
        = {FieldBlock(Refs[d], sels[r], r, i, j, v[r]) : r \in {1, 2}}
    BY <2>1 DEF FieldBlock
  <2> HIDE DEF v
  <2> QED BY <1>1, <2>3, <2>4 DEF TwoFieldsWay
<1> QED BY <1>5, <1>6

(* One vector to a field, in a field picture.                              *)
PictureBlock(c, d, sel, i, j, v) == Block(FieldRef(c, d, sel), sel, All, i, j, v, 16)

LEMMA FieldWaysAre ==
  ASSUME NEW p, NEW c, NEW i, NEW j, NEW d, GoodParms(p), InFieldPicture(p, i, j),
         HasWindow(c.window[d]), NEW w \in FieldWays(p, c, i, j, d)
  PROVE  \E v, sel :
           /\ w = Way(v, Unset, <<sel, 0>>, {PictureBlock(c, d, sel, i, j, v)})
           /\ sel \in {0, 1} /\ IsVector(v) /\ IsReached(v, c.window[d])
           /\ IsInside(p, PictureBlock(c, d, sel, i, j, v), i, j)
<1> DEFINE s == HalfWindow(c.window[d])
           rows == height(p) \div 2
           Found1(q, sel) ==
             Way(<<q[1] - 2 * i, q[2] - 2 * j>>, Unset, <<sel, 0>>,
               {Block(FieldRef(c, d, sel), sel, All, i, j, <<q[1] - 2 * i, q[2] - 2 * j>>, 16)})
<1>0. FieldWays(p, c, i, j, d) =
        {Found1(q, sel) : q \in Found(FieldPictureSearch(p, c, i, j, d, 16)), sel \in Parities(c)}
  BY DEF FieldWays
<1> HIDE DEF Found1
<1>1. PICK q \in Found(FieldPictureSearch(p, c, i, j, d, 16)), sel \in Parities(c) : w = Found1(q, sel)
  BY <1>0
<1> USE DEF Found1
<1> DEFINE v == <<q[1] - 2 * i, q[2] - 2 * j>>
<1>2. sel \in {0, 1}
  BY DEF Parities, Own
<1>3. EndsInside(q, i, j, s, 16, width(p), rows)
  BY SizesAre, HalfIsLess, SearchesFind, SearchIsInside DEF InFieldPicture, FieldPictureSearch
<1>4. q[1] \in 0 .. 2 * (width(p) - 16) /\ q[2] \in 0 .. 2 * (rows - 16)
      /\ IsReached(v, c.window[d])
  BY <1>3, HalfIsLess DEF EndsInside
<1>5. IsVector(v) /\ IsIn(p, i, j, v, 16, rows)
  BY <1>4, SizesAre DEF InFieldPicture, IsIn, IsVector
<1>6. IsInside(p, PictureBlock(c, d, sel, i, j, v), i, j)
  BY <1>2, <1>5 DEF IsInside, PictureBlock, Block, Rows, Both, InFieldPicture, IsVector
<1> QED BY <1>1, <1>2, <1>4, <1>5, <1>6 DEF PictureBlock

(* One vector for each half of a macroblock.                               *)
HalfBlock(c, d, sel, r, i, j, v) ==
  Block(FieldRef(c, d, sel), sel, r, i, j + 8 * (r - 1), v, 8)
HalvesWay(c, d, i, j, v, sels) ==
  Way(v[1], v[2], sels, {HalfBlock(c, d, sels[r], r, i, j, v[r]) : r \in {1, 2}})

LEMMA HalvesWaysAre ==
  ASSUME NEW p, NEW c, NEW i, NEW j, NEW d, GoodParms(p), InFieldPicture(p, i, j),
         HasWindow(c.window[d]), NEW w \in HalvesWays(p, c, i, j, d)
  PROVE  \E v, sels :
           /\ w = HalvesWay(c, d, i, j, v, sels)
           /\ \A r \in {1, 2} :
                /\ IsVector(v[r]) /\ IsReached(v[r], c.window[d])
                /\ IsInside(p, HalfBlock(c, d, sels[r], r, i, j, v[r]), i, j)
<1> DEFINE s == HalfWindow(c.window[d])
           rows == height(p) \div 2
           Search(r) == FieldPictureSearch(p, c, i, j + 8 * (r - 1), d, 8)
           Vector(q, r) == <<q[1] - 2 * i, q[2] - 2 * (j + 8 * (r - 1))>>
           Pairs == FoundPairs(FieldPictureSearch(p, c, i, j, d, 8), FieldPictureSearch(p, c, i, j + 8, d, 8))
           Found2(q, sels) ==
             Way(Vector(q[1], 1), Vector(q[2], 2), sels,
               {Block(FieldRef(c, d, sels[r]), sels[r], r, i, j + 8 * (r - 1), Vector(q[r], r), 8) : r \in {1, 2}})
<1>0. HalvesWays(p, c, i, j, d) = {Found2(q, sels) : q \in Pairs, sels \in Parities(c) \X Parities(c)}
  BY DEF HalvesWays
<1> HIDE DEF Found2, Pairs
<1>1. PICK q \in Pairs, sels \in Parities(c) \X Parities(c) : w = Found2(q, sels)
  BY <1>0
<1> USE DEF Found2, Pairs
<1> DEFINE v == <<Vector(q[1], 1), Vector(q[2], 2)>>
<1>2. ASSUME NEW r \in {1, 2}
      PROVE  /\ IsVector(v[r]) /\ IsReached(v[r], c.window[d])
             /\ IsInside(p, HalfBlock(c, d, sels[r], r, i, j, v[r]), i, j)
             /\ v[r] = Vector(q[r], r)
  <2> DEFINE y == j + 8 * (r - 1)
  <2>1. y \in Nat /\ y % 8 = 0 /\ y <= rows - 8
    BY SizesAre DEF InFieldPicture
  <2>2. q[r] \in Points(FieldPictureSearch(p, c, i, y, d, 8))
    <3>1. CASE r = 1
      <4>1. y = j
        BY <3>1 DEF InFieldPicture
      <4> QED BY <3>1, <4>1, PairsFind
    <3>2. CASE r = 2
      <4>1. y = j + 8
        BY <3>2 DEF InFieldPicture
      <4> QED BY <3>2, <4>1, PairsFind
    <3> QED BY <3>1, <3>2
  <2>3. EndsInside(q[r], i, y, s, 8, width(p), rows)
    BY <2>1, <2>2, SizesAre, HalfIsLess, SearchIsInside DEF InFieldPicture, FieldPictureSearch
  <2>4. q[r][1] \in 0 .. 2 * (width(p) - 16) /\ q[r][2] \in 0 .. 2 * (rows - 8)
        /\ IsReached(Vector(q[r], r), c.window[d])
    BY <2>3, HalfIsLess DEF EndsInside
  <2>5. IsVector(Vector(q[r], r)) /\ IsIn(p, i, y, Vector(q[r], r), 8, rows)
    <3>0. q[r][1] \in Int /\ q[r][2] \in Int
      <4>1. width(p) \in Int /\ rows \in Int
        BY SizesAre
      <4> HIDE DEF rows
      <4> QED BY <4>1, <2>4
    <3>1. q[r][1] \in Int /\ q[r][2] \in Int /\ i \in Nat /\ y \in Nat
      BY <3>0, <2>1 DEF InFieldPicture
    <3>2. 2 * i + Vector(q[r], r)[1] = q[r][1] /\ 2 * y + Vector(q[r], r)[2] = q[r][2]
      BY <3>1
    <3>3. IsIn(p, i, y, Vector(q[r], r), 8, rows)
      BY <2>4, <3>2 DEF IsIn
    <3>4. Vector(q[r], r)[1] \in Int /\ Vector(q[r], r)[2] \in Int
      BY <3>1
    <3> QED BY <3>3, <3>4 DEF IsVector
  <2>6. v[r] = Vector(q[r], r)
    OBVIOUS
  <2>7. sels[r] \in {0, 1}
    BY DEF Parities, Own
  <2>9. i \in Nat /\ i % 16 = 0
    BY DEF InFieldPicture
  <2> HIDE DEF Vector, v, y
  <2>8. IsInside(p, HalfBlock(c, d, sels[r], r, i, j, Vector(q[r], r)), i, j)
    BY <2>1, <2>5, <2>7, <2>9 DEF IsInside, HalfBlock, Block, Rows, Both, IsVector, y
  <2> QED BY <2>4, <2>5, <2>6, <2>8
<1>3. {Block(FieldRef(c, d, sels[r]), sels[r], r, i, j + 8 * (r - 1), Vector(q[r], r), 8) : r \in {1, 2}}
      = {HalfBlock(c, d, sels[r], r, i, j, v[r]) : r \in {1, 2}}
  BY <1>2 DEF HalfBlock
<1>4. w = HalvesWay(c, d, i, j, v, sels)
  <2>1. v[1] = Vector(q[1], 1) /\ v[2] = Vector(q[2], 2)
    OBVIOUS
  <2> HIDE DEF v, Vector
  <2> QED BY <1>1, <1>3, <2>1 DEF HalvesWay
<1> QED BY <1>2, <1>4

(***************************************************************************)
(* What predict_mb() takes.                                                *)
(***************************************************************************)
ForwardBlocks(p, c, i, j, m) ==
  IF c.struct = FRAME_PICTURE THEN FrameForward(p, c, i, j, m) ELSE FieldForward(p, c, i, j, m)

TwoVectors(c) == IF c.struct = FRAME_PICTURE THEN MC_FIELD ELSE MC_16X8

(* Vectors to fields of a frame are kept in lines of the frame.            *)
IsHalved(c, motion) == c.struct = FRAME_PICTURE /\ motion # MC_FRAME
Kept(c, motion, v) == IF IsHalved(c, motion) THEN <<v[1], 2 * v[2]>> ELSE v

WayReaches(c, motion, d, w) ==
  /\ w.MV = <<w.MV[1], w.MV[2]>>
  /\ \A r \in 1 .. (IF motion = TwoVectors(c) THEN 2 ELSE 1) :
       \E v : IsVector(v) /\ IsReached(v, c.window[d]) /\ w.MV[r] = Kept(c, motion, v)

LEMMA OneReaches ==
  ASSUME NEW c, NEW motion, NEW d, NEW w, NEW v, NEW second, motion # TwoVectors(c),
         IsVector(v), IsReached(v, c.window[d]), w.MV = <<Kept(c, motion, v), second>>
  PROVE  WayReaches(c, motion, d, w)
<1>1. w.MV[1] = Kept(c, motion, v) /\ w.MV[2] = second
  OBVIOUS
<1>2. w.MV = <<w.MV[1], w.MV[2]>>
  BY <1>1
<1>3. 1 .. (IF motion = TwoVectors(c) THEN 2 ELSE 1) = {1}
  OBVIOUS
<1> QED BY <1>1, <1>2, <1>3 DEF WayReaches

LEMMA TwoReach ==
  ASSUME NEW c, NEW motion, NEW d, NEW w, NEW v, \A r \in {1, 2} : IsVector(v[r]) /\ IsReached(v[r], c.window[d]),
         w.MV = <<Kept(c, motion, v[1]), Kept(c, motion, v[2])>>
  PROVE  WayReaches(c, motion, d, w)
<1>1. w.MV[1] = Kept(c, motion, v[1]) /\ w.MV[2] = Kept(c, motion, v[2])
  OBVIOUS
<1>2. w.MV = <<w.MV[1], w.MV[2]>>
  BY <1>1
<1>3. 1 .. (IF motion = TwoVectors(c) THEN 2 ELSE 1) \subseteq {1, 2}
  OBVIOUS
<1> QED BY <1>1, <1>2, <1>3 DEF WayReaches

(* A way in a direction is predicted as it was measured, in whatever       *)
(* macroblock it is used.                                                  *)
GoodForward(p, c, i, j, motion, w) ==
  /\ \A type, back, dmv :
       MB_FORWARD \in type => ForwardBlocks(p, c, i, j, Mb(type, motion, w, back, dmv)) = w.blocks
  /\ \A b \in w.blocks : pred(p, b)
  /\ WayReaches(c, motion, Forw, w)
GoodBackward(p, c, i, j, motion, w) ==
  /\ \A type, forw, dmv : BackwardBlocks(p, c, i, j, Mb(type, motion, forw, w, dmv)) = w.blocks
  /\ \A b \in w.blocks : pred(p, b)
  /\ WayReaches(c, motion, Back, w)

Predicts(p, c, i, j, m) ==
  predict_mb(p, c, i, j, m) = m.measured /\ \A b \in m.measured : pred(p, b)

Reaches(c, m) ==
  \A d \in {Forw, Back} :
    (IF d = Forw THEN MB_FORWARD ELSE MB_BACKWARD) \in m.mb_type =>
      WayReaches(c, m.motion_type, d, m[d])

LEMMA MbIs ==
  ASSUME NEW type, NEW motion, NEW f, NEW b, NEW dmv
  PROVE  LET m == Mb(type, motion, f, b, dmv) IN
         /\ m.mb_type = type /\ m.motion_type = motion /\ m.forw = f /\ m.back = b
         /\ m.dmvector = dmv /\ m.measured = f.blocks \cup b.blocks
         /\ m[Forw] = f /\ m[Back] = b
  BY DEF Mb, Forw, Back

LEMMA NamesDiffer ==
  /\ MC_FRAME # MC_FIELD /\ MC_FRAME # MC_16X8 /\ MC_FRAME # MC_DMV
  /\ MC_FIELD # MC_16X8 /\ MC_FIELD # MC_DMV /\ MC_16X8 # MC_DMV
  /\ MB_INTRA # MB_FORWARD /\ MB_INTRA # MB_BACKWARD /\ MB_FORWARD # MB_BACKWARD
  /\ P_TYPE # B_TYPE /\ I_TYPE # P_TYPE /\ I_TYPE # B_TYPE /\ Forw # Back
  /\ FRAME_PICTURE # TOP_FIELD /\ FRAME_PICTURE # BOTTOM_FIELD /\ TOP_FIELD # BOTTOM_FIELD
  BY DEF MC_FRAME, MC_FIELD, MC_16X8, MC_DMV, MB_INTRA, MB_FORWARD, MB_BACKWARD, P_TYPE, B_TYPE,
         I_TYPE, Forw, Back, FRAME_PICTURE, TOP_FIELD, BOTTOM_FIELD

LEMMA RefsAre == Refs[Forw] = "old" /\ Refs[Back] = "next"
  BY DEF Refs, Forw, Back

LEMMA InFieldIs ==
  ASSUME NEW v, IsVector(v)
  PROVE  InField(<<v[1], 2 * v[2]>>) = v
<1>1. (2 * v[2]) \div 2 = v[2]
  BY DEF IsVector
<1> QED BY <1>1 DEF InField, IsVector

(* Forward, backward, and both.                                            *)
LEMMA ForwardPredicts ==
  ASSUME NEW p, NEW c, NEW i, NEW j, NEW motion, NEW f, GoodForward(p, c, i, j, motion, f)
  PROVE  Predicts(p, c, i, j, Forward(motion, f)) /\ Reaches(c, Forward(motion, f))
<1> DEFINE m == Forward(motion, f)
<1>1. /\ m = Mb({MB_FORWARD}, motion, f, NoWay, Unset) /\ m.mb_type = {MB_FORWARD}
      /\ m.motion_type = motion /\ m[Forw] = f /\ m.measured = f.blocks
  <2>1. NoWay.blocks = {}
    BY DEF NoWay, Way
  <2>2. m = Mb({MB_FORWARD}, motion, f, NoWay, Unset)
    BY DEF Forward
  <2> HIDE DEF m
  <2>3. /\ m.mb_type = {MB_FORWARD} /\ m.motion_type = motion /\ m[Forw] = f
        /\ m.measured = f.blocks \cup NoWay.blocks
    BY <2>2, MbIs
  <2> QED BY <2>1, <2>2, <2>3
<1>2. ForwardBlocks(p, c, i, j, m) = f.blocks
  BY <1>1 DEF GoodForward
<1>3. predict_mb(p, c, i, j, m) = f.blocks
  BY <1>1, <1>2, NamesDiffer DEF predict_mb, ForwardBlocks
<1> QED BY <1>1, <1>3, NamesDiffer DEF Predicts, Reaches, GoodForward

LEMMA BackwardPredicts ==
  ASSUME NEW p, NEW c, NEW i, NEW j, NEW motion, NEW b, GoodBackward(p, c, i, j, motion, b),
         c.type = B_TYPE
  PROVE  Predicts(p, c, i, j, Backward(motion, b)) /\ Reaches(c, Backward(motion, b))
<1> DEFINE m == Backward(motion, b)
<1>1. /\ m = Mb({MB_BACKWARD}, motion, NoWay, b, Unset) /\ m.mb_type = {MB_BACKWARD}
      /\ m.motion_type = motion /\ m[Back] = b /\ m.measured = b.blocks
  <2>1. NoWay.blocks = {}
    BY DEF NoWay, Way
  <2>2. m = Mb({MB_BACKWARD}, motion, NoWay, b, Unset)
    BY DEF Backward
  <2> HIDE DEF m
  <2>3. /\ m.mb_type = {MB_BACKWARD} /\ m.motion_type = motion /\ m[Back] = b
        /\ m.measured = NoWay.blocks \cup b.blocks
    BY <2>2, MbIs
  <2> QED BY <2>1, <2>2, <2>3
<1>2. BackwardBlocks(p, c, i, j, m) = b.blocks
  BY <1>1 DEF GoodBackward
<1>3. predict_mb(p, c, i, j, m) = b.blocks
  BY <1>1, <1>2, NamesDiffer DEF predict_mb
<1> QED BY <1>1, <1>3, NamesDiffer DEF Predicts, Reaches, GoodBackward

LEMMA BothPredict ==
  ASSUME NEW p, NEW c, NEW i, NEW j, NEW motion, NEW f, NEW b,
         GoodForward(p, c, i, j, motion, f), GoodBackward(p, c, i, j, motion, b)
  PROVE  LET m == Mb({MB_FORWARD, MB_BACKWARD}, motion, f, b, Unset)
         IN Predicts(p, c, i, j, m) /\ Reaches(c, m)
<1> DEFINE m == Mb({MB_FORWARD, MB_BACKWARD}, motion, f, b, Unset)
<1>1. /\ m.mb_type = {MB_FORWARD, MB_BACKWARD} /\ m.motion_type = motion
      /\ m[Forw] = f /\ m[Back] = b /\ m.measured = f.blocks \cup b.blocks
  BY MbIs
<1>2. ForwardBlocks(p, c, i, j, m) = f.blocks /\ BackwardBlocks(p, c, i, j, m) = b.blocks
  BY DEF GoodForward, GoodBackward
<1> HIDE DEF m
<1>3. predict_mb(p, c, i, j, m) = f.blocks \cup b.blocks
  BY <1>1, <1>2, NamesDiffer DEF predict_mb, ForwardBlocks
<1>4. Predicts(p, c, i, j, m)
  BY <1>1, <1>3 DEF Predicts, GoodForward, GoodBackward
<1>5. Reaches(c, m)
  BY <1>1, NamesDiffer DEF Reaches, GoodForward, GoodBackward
<1> QED BY <1>4, <1>5 DEF m

LEMMA EitherPredicts ==
  ASSUME NEW p, NEW c, NEW i, NEW j, NEW motion, NEW F, NEW B, c.type = B_TYPE,
         \A f \in F : GoodForward(p, c, i, j, motion, f),
         \A b \in B : GoodBackward(p, c, i, j, motion, b),
         NEW m \in Either(motion, F, B)
  PROVE  Predicts(p, c, i, j, m) /\ Reaches(c, m)
<1>1. CASE \E f \in F : m = Forward(motion, f)
  BY <1>1, ForwardPredicts
<1>2. CASE \E b \in B : m = Backward(motion, b)
  BY <1>2, BackwardPredicts
<1>3. CASE m \in Interpolated(motion, F, B)
  <2>1. PICK f \in F, b \in B : m = Mb({MB_FORWARD, MB_BACKWARD}, motion, f, b, Unset)
    BY <1>3 DEF Interpolated
  <2> QED BY <2>1, BothPredict
<1> QED BY <1>1, <1>2, <1>3 DEF Either

(* Frame pictures.                                                         *)
LEMMA FrameWayIsGood ==
  ASSUME NEW p, NEW c, NEW i, NEW j, GoodParms(p), c.struct = FRAME_PICTURE, InFrame(p, i, j)
  PROVE  /\ HasWindow(c.window[Forw]) =>
              \A w \in FrameWays(p, c, i, j, Forw) : GoodForward(p, c, i, j, MC_FRAME, w)
         /\ HasWindow(c.window[Back]) =>
              \A w \in FrameWays(p, c, i, j, Back) : GoodBackward(p, c, i, j, MC_FRAME, w)
<1>1. ASSUME NEW d \in {Forw, Back}, HasWindow(c.window[d]), NEW w \in FrameWays(p, c, i, j, d)
      PROVE  /\ \E v : w.MV[1] = v /\ w.blocks = {Block(Refs[d], Both, All, i, j, v, 16)}
             /\ \A b \in w.blocks : pred(p, b)
             /\ WayReaches(c, MC_FRAME, d, w)
  <2>1. PICK v : /\ w = Way(v, Unset, <<0, 0>>, {FrameBlock(d, i, j, v)})
                 /\ IsVector(v) /\ IsReached(v, c.window[d])
                 /\ IsInside(p, FrameBlock(d, i, j, v), i, j)
    BY <1>1, FrameWaysAre
  <2>2. w.MV[1] = v /\ w.MV = <<v, Unset>> /\ w.blocks = {FrameBlock(d, i, j, v)}
    BY <2>1 DEF Way
  <2>3. WayReaches(c, MC_FRAME, d, w)
    <3>1. Kept(c, MC_FRAME, v) = v /\ MC_FRAME # TwoVectors(c)
      BY NamesDiffer DEF Kept, IsHalved, TwoVectors
    <3> QED BY <2>1, <2>2, <3>1, OneReaches
  <2> QED BY <2>1, <2>2, <2>3, InsideIsRead DEF FrameBlock
<1>2. ASSUME HasWindow(c.window[Forw]), NEW w \in FrameWays(p, c, i, j, Forw)
      PROVE  GoodForward(p, c, i, j, MC_FRAME, w)
  <2>1. PICK v : w.MV[1] = v /\ w.blocks = {Block("old", Both, All, i, j, v, 16)}
    BY <1>1, <1>2, RefsAre
  <2>2. ASSUME NEW type, NEW back, NEW dmv
        PROVE  ForwardBlocks(p, c, i, j, Mb(type, MC_FRAME, w, back, dmv)) = w.blocks
    <3> DEFINE m == Mb(type, MC_FRAME, w, back, dmv)
    <3>1. m.motion_type = MC_FRAME /\ m.forw = w
      BY MbIs
    <3> HIDE DEF m
    <3>2. ForwardBlocks(p, c, i, j, m) = w.blocks
      BY <2>1, <3>1, NamesDiffer DEF ForwardBlocks, FrameForward
    <3> QED BY <3>2 DEF m
  <2> QED BY <1>1, <1>2, <2>2 DEF GoodForward
<1>3. ASSUME HasWindow(c.window[Back]), NEW w \in FrameWays(p, c, i, j, Back)
      PROVE  GoodBackward(p, c, i, j, MC_FRAME, w)
  <2>1. PICK v : w.MV[1] = v /\ w.blocks = {Block("next", Both, All, i, j, v, 16)}
    BY <1>1, <1>3, RefsAre
  <2>2. ASSUME NEW type, NEW forw, NEW dmv
        PROVE  BackwardBlocks(p, c, i, j, Mb(type, MC_FRAME, forw, w, dmv)) = w.blocks
    <3> DEFINE m == Mb(type, MC_FRAME, forw, w, dmv)
    <3>1. m.motion_type = MC_FRAME /\ m.back = w
      BY MbIs
    <3> HIDE DEF m
    <3>2. BackwardBlocks(p, c, i, j, m) = w.blocks
      BY <2>1, <3>1, NamesDiffer DEF BackwardBlocks
    <3> QED BY <3>2 DEF m
  <2> QED BY <1>1, <1>3, <2>2 DEF GoodBackward
<1> QED BY <1>2, <1>3

LEMMA FieldsWayIsGood ==
  ASSUME NEW p, NEW c, NEW i, NEW j, GoodParms(p), c.struct = FRAME_PICTURE, InFrame(p, i, j)
  PROVE  /\ HasWindow(c.window[Forw]) =>
              \A w \in frame_estimate(p, c, i, j, Forw) : GoodForward(p, c, i, j, MC_FIELD, w)
         /\ HasWindow(c.window[Back]) =>
              \A w \in frame_estimate(p, c, i, j, Back) : GoodBackward(p, c, i, j, MC_FIELD, w)
<1>1. ASSUME NEW d \in {Forw, Back}, HasWindow(c.window[d]), NEW w \in frame_estimate(p, c, i, j, d)
      PROVE  /\ w.blocks = {Block(Refs[d], w.sel[r], r, i, j \div 2, InField(w.MV[r]), 8) : r \in {1, 2}}
             /\ \A b \in w.blocks : pred(p, b)
             /\ WayReaches(c, MC_FIELD, d, w)
  <2>1. PICK v, sels :
          /\ w = TwoFieldsWay(Refs[d], i, j, v, sels)
          /\ \A r \in {1, 2} :
               /\ IsVector(v[r]) /\ IsReached(v[r], c.window[d])
               /\ IsInside(p, FieldBlock(Refs[d], sels[r], r, i, j, v[r]), i, j)
    BY <1>1, frame_estimateGives
  <2>2. w.sel = sels /\ w.blocks = {FieldBlock(Refs[d], sels[r], r, i, j, v[r]) : r \in {1, 2}}
        /\ w.MV = <<<<v[1][1], 2 * v[1][2]>>, <<v[2][1], 2 * v[2][2]>>>>
        /\ w.MV[1] = <<v[1][1], 2 * v[1][2]>> /\ w.MV[2] = <<v[2][1], 2 * v[2][2]>>
    BY <2>1 DEF Way, TwoFieldsWay
  <2>3. \A r \in {1, 2} : InField(w.MV[r]) = v[r]
    BY <2>1, <2>2, InFieldIs
  <2>4. w.blocks = {Block(Refs[d], w.sel[r], r, i, j \div 2, InField(w.MV[r]), 8) : r \in {1, 2}}
    BY <2>2, <2>3 DEF FieldBlock
  <2>5. \A b \in w.blocks : pred(p, b)
    BY <2>1, <2>2, InsideIsRead
  <2>6. WayReaches(c, MC_FIELD, d, w)
    <3>1. \A r \in {1, 2} : Kept(c, MC_FIELD, v[r]) = <<v[r][1], 2 * v[r][2]>>
      BY NamesDiffer DEF Kept, IsHalved
    <3> QED BY <2>1, <2>2, <3>1, TwoReach
  <2> QED BY <2>4, <2>5, <2>6
<1>2. ASSUME HasWindow(c.window[Forw]), NEW w \in frame_estimate(p, c, i, j, Forw)
      PROVE  GoodForward(p, c, i, j, MC_FIELD, w)
  <2>1. ASSUME NEW type, NEW back, NEW dmv, MB_FORWARD \in type
        PROVE  ForwardBlocks(p, c, i, j, Mb(type, MC_FIELD, w, back, dmv))
               = {Block("old", w.sel[r], r, i, j \div 2, InField(w.MV[r]), 8) : r \in {1, 2}}
    <3> DEFINE m == Mb(type, MC_FIELD, w, back, dmv)
    <3>1. m.motion_type = MC_FIELD /\ m.forw = w /\ MB_FORWARD \in m.mb_type
      BY <2>1, MbIs
    <3> HIDE DEF m
    <3>2. ForwardBlocks(p, c, i, j, m)
          = {Block("old", w.sel[r], r, i, j \div 2, InField(w.MV[r]), 8) : r \in {1, 2}}
      BY <3>1, NamesDiffer DEF ForwardBlocks, FrameForward
    <3> QED BY <3>2 DEF m
  <2>2. w.blocks = {Block("old", w.sel[r], r, i, j \div 2, InField(w.MV[r]), 8) : r \in {1, 2}}
    BY <1>1, <1>2, RefsAre
  <2> QED BY <1>1, <1>2, <2>1, <2>2 DEF GoodForward
<1>3. ASSUME HasWindow(c.window[Back]), NEW w \in frame_estimate(p, c, i, j, Back)
      PROVE  GoodBackward(p, c, i, j, MC_FIELD, w)
  <2>1. ASSUME NEW type, NEW forw, NEW dmv
        PROVE  BackwardBlocks(p, c, i, j, Mb(type, MC_FIELD, forw, w, dmv))
               = {Block("next", w.sel[r], r, i, j \div 2, InField(w.MV[r]), 8) : r \in {1, 2}}
    <3> DEFINE m == Mb(type, MC_FIELD, forw, w, dmv)
    <3>1. m.motion_type = MC_FIELD /\ m.back = w
      BY MbIs
    <3> HIDE DEF m
    <3>2. BackwardBlocks(p, c, i, j, m)
          = {Block("next", w.sel[r], r, i, j \div 2, InField(w.MV[r]), 8) : r \in {1, 2}}
      BY <3>1, NamesDiffer DEF BackwardBlocks
    <3> QED BY <3>2 DEF m
  <2>2. w.blocks = {Block("next", w.sel[r], r, i, j \div 2, InField(w.MV[r]), 8) : r \in {1, 2}}
    BY <1>1, <1>3, RefsAre
  <2> QED BY <1>1, <1>3, <2>1, <2>2 DEF GoodBackward
<1> QED BY <1>2, <1>3

(* Dual prime prediction in frames.                                        *)
LEMMA PrimeVectorsReach ==
  ASSUME NEW p, NEW c, NEW i, NEW j, GoodParms(p), InFrame(p, i, j), HasWindow(c.window[Forw]),
         NEW v \in PrimeVectors(p, c, i, j).same \cup PrimeVectors(p, c, i, j).cross
  PROVE  IsVector(v) /\ IsReached(v, c.window[Forw])
<1> DEFINE s == HalfWindow(c.window[Forw])
           rows == height(p) \div 2
           Relative(q) == <<q[1] - 2 * i, q[2] - j>>
           ppred == IF p.topfirst THEN 2 ELSE 1
           Scaled(u) == <<ThirdOf(2 * u[1]), ThirdOf(2 * (IF ppred = 1 THEN u[2] + 1 ELSE u[2] - 1))>>
           search == Found(FieldSearch(p, c, i, j, Forw))
<1>1. HasWindow(s) /\ s[1] \in Nat /\ s[2] \in Nat
  BY HalfIsLess DEF HasWindow
<1>2. ASSUME NEW q \in search
      PROVE  /\ Relative(q)[1] \in -(2 * s[1] + 1) .. (2 * s[1] + 1)
             /\ Relative(q)[2] \in -(2 * s[2] + 1) .. (2 * s[2] + 1)
  <2>1. j \div 2 \in Nat /\ 2 * (j \div 2) = j /\ j \div 2 <= rows - 8
    BY SizesAre DEF InFrame
  <2>2. EndsInside(q, i, j \div 2, s, 8, width(p), rows)
    BY <1>1, <2>1, SizesAre, SearchesFind, SearchIsInside DEF InFrame, FieldSearch
  <2> QED BY <2>1, <2>2 DEF EndsInside, IsReached
<1>3. ASSUME NEW a \in Nat, NEW u \in -(2 * a + 1) .. (2 * a + 1)
      PROVE  /\ ThirdOf(2 * u) \in -(2 * a + 1) .. (2 * a + 1)
             /\ ThirdOf(2 * (u + 1)) \in -(2 * a + 1) .. (2 * a + 1)
             /\ ThirdOf(2 * (u - 1)) \in -(2 * a + 1) .. (2 * a + 1)
  <2>1. ASSUME NEW b \in Nat, NEW x \in -(3 * b + 1) .. (3 * b + 1)
        PROVE  ThirdOf(x) \in -b .. b
    <3>1. CASE x >= 0
      BY <3>1 DEF ThirdOf
    <3>2. CASE x < 0
      BY <3>2 DEF ThirdOf
    <3> QED BY <3>1, <3>2
  <2> DEFINE b == 2 * a + 1
  <2>2. b \in Nat /\ b >= 1 /\ u \in -b .. b
    OBVIOUS
  <2> HIDE DEF b
  <2>3. /\ 2 * u \in -(3 * b + 1) .. (3 * b + 1)
        /\ 2 * (u + 1) \in -(3 * b + 1) .. (3 * b + 1)
        /\ 2 * (u - 1) \in -(3 * b + 1) .. (3 * b + 1)
    BY <2>2
  <2>4. /\ ThirdOf(2 * u) \in -b .. b /\ ThirdOf(2 * (u + 1)) \in -b .. b
        /\ ThirdOf(2 * (u - 1)) \in -b .. b
    BY <2>1, <2>2, <2>3
  <2> QED BY <2>4 DEF b
<1>4. PICK q \in search : v = Relative(q) \/ v = Scaled(Relative(q))
  BY DEF PrimeVectors
<1>5. v[1] \in -(2 * s[1] + 1) .. (2 * s[1] + 1) /\ v[2] \in -(2 * s[2] + 1) .. (2 * s[2] + 1)
  <2>1. CASE v = Relative(q)
    BY <2>1, <1>2
  <2>2. CASE v = Scaled(Relative(q))
    <3> DEFINE u == Relative(q)
    <3>1. u[1] \in -(2 * s[1] + 1) .. (2 * s[1] + 1) /\ u[2] \in -(2 * s[2] + 1) .. (2 * s[2] + 1)
      BY <1>2
    <3> HIDE DEF u, s
    <3>2. v[1] = ThirdOf(2 * u[1]) /\ (v[2] = ThirdOf(2 * (u[2] + 1)) \/ v[2] = ThirdOf(2 * (u[2] - 1)))
      BY <2>2 DEF u
    <3> QED BY <1>1, <1>3, <3>1, <3>2
  <2> QED BY <1>4, <2>1, <2>2
<1>6. v = <<v[1], v[2]>>
  BY <1>4
<1>7. IsReached(v, s)
  BY <1>5 DEF IsReached
<1> HIDE DEF s
<1>8. v[1] \in Int /\ v[2] \in Int
  BY <1>1, <1>5
<1> QED BY <1>6, <1>7, <1>8, HalfIsLess DEF IsVector, s

LEMMA DerivedIs ==
  ASSUME NEW t \in BOOLEAN, NEW v, IsVector(v)
  PROVE  /\ DOMAIN Derived(t, v) = {1, 2}
         /\ \A f \in {1, 2} : IsVector(Derived(t, v)[f])
<1>1. Halved(v[1]) \in Int /\ Halved(v[2]) \in Int /\ OneAndHalf(v[1]) \in Int /\ OneAndHalf(v[2]) \in Int
  BY DEF IsVector, Halved, OneAndHalf, Bit
<1>2. CASE t = TRUE
  BY <1>1, <1>2 DEF Derived, IsVector
<1>3. CASE t = FALSE
  BY <1>1, <1>3 DEF Derived, IsVector
<1> QED BY <1>2, <1>3

LEMMA DeltasAre == \A delta \in Deltas : IsVector(delta)
  BY DEF Deltas, IsVector

LEMMA SumIsVector ==
  ASSUME NEW v, NEW w, IsVector(v), IsVector(w)
  PROVE  IsVector(PlusVector(v, w))
  BY DEF IsVector, PlusVector

LEMMA FramePrimePredicts ==
  ASSUME NEW p, NEW c, NEW i, NEW j, GoodParms(p), c.struct = FRAME_PICTURE, InFrame(p, i, j),
         HasWindow(c.window[Forw]), NEW m \in DualPrime(dpframe_estimate(p, c, i, j))
  PROVE  Predicts(p, c, i, j, m) /\ Reaches(c, m)
<1> DEFINE y == j \div 2
           rows == height(p) \div 2
           o(v, delta) == [f \in {1, 2} |-> PlusVector(Derived(p.topfirst, v)[f], delta)]
           Blocks(v, delta) ==
             {Block("old", f - 1, f, i, y, v, 8) : f \in {1, 2}} \cup
             {Block("old", 2 - f, f, i, y, o(v, delta)[f], 8) : f \in {1, 2}}
           Candidate(v, delta) == [MV |-> <<v[1], 2 * v[2]>>, dmvector |-> delta, blocks |-> Blocks(v, delta)]
<1>1. PICK w \in dpframe_estimate(p, c, i, j) :
        m = Mb({MB_FORWARD}, MC_DMV, Way(w.MV, Unset, <<0, 0>>, w.blocks), NoWay, w.dmvector)
  BY DEF DualPrime
<1>2. PICK v \in PrimeVectors(p, c, i, j).same \cup PrimeVectors(p, c, i, j).cross :
        w \in PrimeCandidates(p, c, i, j, v)
  BY DEF dpframe_estimate
<1>3. IsVector(v) /\ IsReached(v, c.window[Forw])
  BY PrimeVectorsReach
<1>4. /\ IsIn(p, i, y, v, 8, rows)
      /\ w \in {Candidate(v, delta) : delta \in {e \in Deltas : \A f \in {1, 2} : IsIn(p, i, y, o(v, e)[f], 8, rows)}}
  <2>1. IsIn(p, i, y, v, 8, rows)
    BY <1>2 DEF PrimeCandidates
  <2> QED BY <1>2, <2>1 DEF PrimeCandidates
<1> HIDE DEF Candidate, o
<1>5. PICK delta \in Deltas : w = Candidate(v, delta) /\ \A f \in {1, 2} : IsIn(p, i, y, o(v, delta)[f], 8, rows)
  BY <1>4
<1>6. w.MV = <<v[1], 2 * v[2]>> /\ w.dmvector = delta /\ w.blocks = Blocks(v, delta)
  BY <1>5 DEF Candidate
<1>7. \A f \in {1, 2} : IsVector(o(v, delta)[f])
  BY <1>3, DerivedIs, DeltasAre, SumIsVector DEF o, GoodParms
<1>8. y \in Nat /\ y % 8 = 0 /\ i \in Nat /\ i % 16 = 0
  BY SizesAre DEF InFrame
<1>9. ASSUME NEW f \in {1, 2}
      PROVE  pred(p, Block("old", f - 1, f, i, y, v, 8)) /\ pred(p, Block("old", 2 - f, f, i, y, o(v, delta)[f], 8))
  <2> HIDE DEF y
  <2>0. f - 1 \in {0, 1} /\ 2 - f \in {0, 1}
    OBVIOUS
  <2>1. ASSUME NEW sel \in {0, 1}, NEW u, IsVector(u), IsIn(p, i, y, u, 8, rows)
        PROVE  pred(p, Block("old", sel, f, i, y, u, 8))
    <3>1. IsInside(p, Block("old", sel, f, i, y, u, 8), i, j)
      BY <1>8, <2>1 DEF IsInside, Block, Rows, Both, IsVector
    <3> QED BY <3>1, InsideIsRead
  <2> QED BY <1>3, <1>4, <1>5, <1>7, <2>0, <2>1
<1>10. \A b \in w.blocks : pred(p, b)
  BY <1>6, <1>9
<1> DEFINE way == Way(w.MV, Unset, <<0, 0>>, w.blocks)
<1>11. way.MV[1] = <<v[1], 2 * v[2]>> /\ way.blocks = Blocks(v, delta)
  BY <1>6 DEF Way
<1> HIDE DEF Blocks, y, rows
<1>12. /\ m.mb_type = {MB_FORWARD} /\ m.motion_type = MC_DMV /\ m.forw = way /\ m[Forw] = way
       /\ m.dmvector = delta /\ m.measured = Blocks(v, delta)
  <2>1. NoWay.blocks = {}
    BY DEF NoWay, Way
  <2> HIDE DEF way
  <2>2. /\ m.mb_type = {MB_FORWARD} /\ m.motion_type = MC_DMV /\ m.forw = way /\ m[Forw] = way
        /\ m.dmvector = w.dmvector /\ m.measured = way.blocks \cup NoWay.blocks
    BY <1>1, MbIs DEF way
  <2> QED BY <1>6, <1>11, <2>1, <2>2
<1> HIDE DEF way
<1>13. InField(m.forw.MV[1]) = v
  BY <1>3, <1>11, <1>12, InFieldIs
<1>14. calc_DMV(p, c, m) = o(v, delta)
  <2>1. <<m.forw.MV[1][1], m.forw.MV[1][2] \div 2>> = v
    BY <1>13 DEF InField
  <2>2. calc_DMV(p, c, m) = [f \in DOMAIN Derived(p.topfirst, v) |-> PlusVector(Derived(p.topfirst, v)[f], delta)]
    BY <1>12, <2>1 DEF calc_DMV
  <2>3. DOMAIN Derived(p.topfirst, v) = {1, 2}
    BY <1>3, DerivedIs DEF GoodParms
  <2> QED BY <2>2, <2>3 DEF o
<1>15. FrameForward(p, c, i, j, m) = Blocks(v, delta)
  <2>1. FrameForward(p, c, i, j, m) =
          {Block("old", f - 1, f, i, j \div 2, InField(m.forw.MV[1]), 8) : f \in {1, 2}} \cup
          {Block("old", 2 - f, f, i, j \div 2, calc_DMV(p, c, m)[f], 8) : f \in {1, 2}}
    BY <1>12, NamesDiffer DEF FrameForward
  <2> QED BY <1>13, <1>14, <2>1 DEF Blocks, y
<1>16. predict_mb(p, c, i, j, m) = m.measured
  BY <1>12, <1>15, NamesDiffer DEF predict_mb
<1>17. m.measured = w.blocks
  BY <1>6, <1>12
<1>18. Reaches(c, m)
  <2>1. way.MV = <<Kept(c, MC_DMV, v), Unset>> /\ MC_DMV # TwoVectors(c)
    BY <1>6, NamesDiffer DEF way, Way, Kept, IsHalved, TwoVectors
  <2>2. WayReaches(c, MC_DMV, Forw, way)
    BY <1>3, <2>1, OneReaches
  <2> QED BY <1>12, <2>2, NamesDiffer DEF Reaches
<1> QED BY <1>10, <1>16, <1>17, <1>18 DEF Predicts

(* Field pictures.                                                         *)
LEMMA FieldWayIsGood ==
  ASSUME NEW p, NEW c, NEW i, NEW j, GoodParms(p), c.struct # FRAME_PICTURE, InFieldPicture(p, i, j)
  PROVE  /\ HasWindow(c.window[Forw]) =>
              \A w \in FieldWays(p, c, i, j, Forw) : GoodForward(p, c, i, j, MC_FIELD, w)
         /\ HasWindow(c.window[Back]) =>
              \A w \in FieldWays(p, c, i, j, Back) : GoodBackward(p, c, i, j, MC_FIELD, w)
<1>1. ASSUME NEW d \in {Forw, Back}, HasWindow(c.window[d]), NEW w \in FieldWays(p, c, i, j, d)
      PROVE  /\ w.blocks = {Block(FieldRef(c, d, w.sel[1]), w.sel[1], All, i, j, w.MV[1], 16)}
             /\ \A b \in w.blocks : pred(p, b)
             /\ WayReaches(c, MC_FIELD, d, w)
  <2>1. PICK v, sel :
          /\ w = Way(v, Unset, <<sel, 0>>, {PictureBlock(c, d, sel, i, j, v)})
          /\ IsVector(v) /\ IsReached(v, c.window[d])
          /\ IsInside(p, PictureBlock(c, d, sel, i, j, v), i, j)
    BY <1>1, FieldWaysAre
  <2>2. w.MV[1] = v /\ w.MV = <<v, Unset>> /\ w.sel[1] = sel /\ w.blocks = {PictureBlock(c, d, sel, i, j, v)}
    BY <2>1 DEF Way
  <2>3. WayReaches(c, MC_FIELD, d, w)
    <3>1. Kept(c, MC_FIELD, v) = v /\ MC_FIELD # TwoVectors(c)
      BY NamesDiffer DEF Kept, IsHalved, TwoVectors
    <3> QED BY <2>1, <2>2, <3>1, OneReaches
  <2> QED BY <2>1, <2>2, <2>3, InsideIsRead DEF PictureBlock
<1>2. ASSUME HasWindow(c.window[Forw]), NEW w \in FieldWays(p, c, i, j, Forw)
      PROVE  GoodForward(p, c, i, j, MC_FIELD, w)
  <2>1. w.blocks = {Block(PredFrame(c, w.sel[1]), w.sel[1], All, i, j, w.MV[1], 16)}
    BY <1>1, <1>2 DEF FieldRef
  <2>2. ASSUME NEW type, NEW back, NEW dmv
        PROVE  ForwardBlocks(p, c, i, j, Mb(type, MC_FIELD, w, back, dmv)) = w.blocks
    <3> DEFINE m == Mb(type, MC_FIELD, w, back, dmv)
    <3>1. m.motion_type = MC_FIELD /\ m.forw = w
      BY MbIs
    <3> HIDE DEF m
    <3>2. ForwardBlocks(p, c, i, j, m) = w.blocks
      BY <2>1, <3>1, NamesDiffer DEF ForwardBlocks, FieldForward
    <3> QED BY <3>2 DEF m
  <2> QED BY <1>1, <1>2, <2>2 DEF GoodForward
<1>3. ASSUME HasWindow(c.window[Back]), NEW w \in FieldWays(p, c, i, j, Back)
      PROVE  GoodBackward(p, c, i, j, MC_FIELD, w)
  <2>1. w.blocks = {Block("next", w.sel[1], All, i, j, w.MV[1], 16)}
    BY <1>1, <1>3, NamesDiffer DEF FieldRef
  <2>2. ASSUME NEW type, NEW forw, NEW dmv
        PROVE  BackwardBlocks(p, c, i, j, Mb(type, MC_FIELD, forw, w, dmv)) = w.blocks
    <3> DEFINE m == Mb(type, MC_FIELD, forw, w, dmv)
    <3>1. m.motion_type = MC_FIELD /\ m.back = w
      BY MbIs
    <3> HIDE DEF m
    <3>2. BackwardBlocks(p, c, i, j, m) = w.blocks
      BY <2>1, <3>1, NamesDiffer DEF BackwardBlocks
    <3> QED BY <3>2 DEF m
  <2> QED BY <1>1, <1>3, <2>2 DEF GoodBackward
<1> QED BY <1>2, <1>3

LEMMA HalvesWayIsGood ==
  ASSUME NEW p, NEW c, NEW i, NEW j, GoodParms(p), c.struct # FRAME_PICTURE, InFieldPicture(p, i, j)
  PROVE  /\ HasWindow(c.window[Forw]) =>
              \A w \in HalvesWays(p, c, i, j, Forw) : GoodForward(p, c, i, j, MC_16X8, w)
         /\ HasWindow(c.window[Back]) =>
              \A w \in HalvesWays(p, c, i, j, Back) : GoodBackward(p, c, i, j, MC_16X8, w)
<1>1. ASSUME NEW d \in {Forw, Back}, HasWindow(c.window[d]), NEW w \in HalvesWays(p, c, i, j, d)
      PROVE  /\ w.blocks = {Block(FieldRef(c, d, w.sel[r]), w.sel[r], r, i, j + 8 * (r - 1), w.MV[r], 8) :
                              r \in {1, 2}}
             /\ \A b \in w.blocks : pred(p, b)
             /\ WayReaches(c, MC_16X8, d, w)
  <2>1. PICK v, sels :
          /\ w = HalvesWay(c, d, i, j, v, sels)
          /\ \A r \in {1, 2} :
               /\ IsVector(v[r]) /\ IsReached(v[r], c.window[d])
               /\ IsInside(p, HalfBlock(c, d, sels[r], r, i, j, v[r]), i, j)
    BY <1>1, HalvesWaysAre
  <2>2. /\ w.sel = sels /\ w.blocks = {HalfBlock(c, d, sels[r], r, i, j, v[r]) : r \in {1, 2}}
        /\ w.MV = <<v[1], v[2]>> /\ w.MV[1] = v[1] /\ w.MV[2] = v[2]
    BY <2>1 DEF Way, HalvesWay
  <2>3. \A r \in {1, 2} : w.MV[r] = v[r]
    BY <2>2
  <2>4. w.blocks = {Block(FieldRef(c, d, w.sel[r]), w.sel[r], r, i, j + 8 * (r - 1), w.MV[r], 8) : r \in {1, 2}}
    BY <2>2, <2>3 DEF HalfBlock
  <2>5. \A b \in w.blocks : pred(p, b)
    BY <2>1, <2>2, InsideIsRead
  <2>6. WayReaches(c, MC_16X8, d, w)
    <3>1. Kept(c, MC_16X8, v[1]) = v[1] /\ Kept(c, MC_16X8, v[2]) = v[2]
      BY DEF Kept, IsHalved
    <3> QED BY <2>1, <2>2, <3>1, TwoReach
  <2> QED BY <2>4, <2>5, <2>6
<1>2. ASSUME HasWindow(c.window[Forw]), NEW w \in HalvesWays(p, c, i, j, Forw)
      PROVE  GoodForward(p, c, i, j, MC_16X8, w)
  <2>1. w.blocks = {Block(PredFrame(c, w.sel[r]), w.sel[r], r, i, j + 8 * (r - 1), w.MV[r], 8) : r \in {1, 2}}
    BY <1>1, <1>2 DEF FieldRef
  <2>2. ASSUME NEW type, NEW back, NEW dmv, MB_FORWARD \in type
        PROVE  ForwardBlocks(p, c, i, j, Mb(type, MC_16X8, w, back, dmv))
               = {Block(PredFrame(c, w.sel[r]), w.sel[r], r, i, j + 8 * (r - 1), w.MV[r], 8) : r \in {1, 2}}
    <3> DEFINE m == Mb(type, MC_16X8, w, back, dmv)
    <3>1. m.motion_type = MC_16X8 /\ m.forw = w /\ MB_FORWARD \in m.mb_type
      BY <2>2, MbIs
    <3> HIDE DEF m
    <3>2. ForwardBlocks(p, c, i, j, m)
          = {Block(PredFrame(c, w.sel[r]), w.sel[r], r, i, j + 8 * (r - 1), w.MV[r], 8) : r \in {1, 2}}
      BY <3>1, NamesDiffer DEF ForwardBlocks, FieldForward
    <3> QED BY <3>2 DEF m
  <2> QED BY <1>1, <1>2, <2>1, <2>2 DEF GoodForward
<1>3. ASSUME HasWindow(c.window[Back]), NEW w \in HalvesWays(p, c, i, j, Back)
      PROVE  GoodBackward(p, c, i, j, MC_16X8, w)
  <2>1. w.blocks = {Block("next", w.sel[r], r, i, j + 8 * (r - 1), w.MV[r], 8) : r \in {1, 2}}
    BY <1>1, <1>3, NamesDiffer DEF FieldRef
  <2>2. ASSUME NEW type, NEW forw, NEW dmv
        PROVE  BackwardBlocks(p, c, i, j, Mb(type, MC_16X8, forw, w, dmv))
               = {Block("next", w.sel[r], r, i, j + 8 * (r - 1), w.MV[r], 8) : r \in {1, 2}}
    <3> DEFINE m == Mb(type, MC_16X8, forw, w, dmv)
    <3>1. m.motion_type = MC_16X8 /\ m.back = w
      BY MbIs
    <3> HIDE DEF m
    <3>2. BackwardBlocks(p, c, i, j, m)
          = {Block("next", w.sel[r], r, i, j + 8 * (r - 1), w.MV[r], 8) : r \in {1, 2}}
      BY <3>1, NamesDiffer DEF BackwardBlocks
    <3> QED BY <3>2 DEF m
  <2> QED BY <1>1, <1>3, <2>1, <2>2 DEF GoodBackward
<1> QED BY <1>2, <1>3

LEMMA FieldPrimePredicts ==
  ASSUME NEW p, NEW c, NEW i, NEW j, GoodParms(p), c.struct # FRAME_PICTURE, InFieldPicture(p, i, j),
         HasWindow(c.window[Forw]), NEW m \in DualPrime(dpfield_estimate(p, c, i, j))
  PROVE  Predicts(p, c, i, j, m) /\ Reaches(c, m)
<1> DEFINE rows == height(p) \div 2
           opposite == IF c.second THEN "same" ELSE "old"
           o(v, delta) == PlusVector(FieldDerived(c, v), delta)
           Blocks(v, delta) ==
             {Block("old", Own(c), All, i, j, v, 16), Block(opposite, 1 - Own(c), All, i, j, o(v, delta), 16)}
           Vector(q) == <<q[1] - 2 * i, q[2] - 2 * j>>
           Candidate(v, delta) == [MV |-> v, dmvector |-> delta, blocks |-> Blocks(v, delta)]
           Candidates(q) ==
             {Candidate(Vector(q), delta) : delta \in {e \in Deltas : IsIn(p, i, j, o(Vector(q), e), 16, rows)}}
           search == Found(FieldPictureSearch(p, c, i, j, Forw, 16))
<1>1. PICK w \in dpfield_estimate(p, c, i, j) :
        m = Mb({MB_FORWARD}, MC_DMV, Way(w.MV, Unset, <<0, 0>>, w.blocks), NoWay, w.dmvector)
  BY DEF DualPrime
<1>2. dpfield_estimate(p, c, i, j) = UNION {Candidates(q) : q \in search}
  BY DEF dpfield_estimate
<1> HIDE DEF Candidate, o, search
<1>3. PICK q \in search : w \in Candidates(q)
  BY <1>2
<1> DEFINE v == Vector(q)
<1>4. PICK delta \in Deltas : w = Candidate(v, delta) /\ IsIn(p, i, j, o(v, delta), 16, rows)
  BY <1>3
<1>5. w.MV = v /\ w.dmvector = delta /\ w.blocks = Blocks(v, delta)
  BY <1>4 DEF Candidate
<1>6. EndsInside(q, i, j, HalfWindow(c.window[Forw]), 16, width(p), rows)
  BY SizesAre, HalfIsLess, SearchesFind, SearchIsInside DEF InFieldPicture, FieldPictureSearch, search
<1>7. q[1] \in 0 .. 2 * (width(p) - 16) /\ q[2] \in 0 .. 2 * (rows - 16)
      /\ IsReached(v, c.window[Forw])
  BY <1>6, HalfIsLess DEF EndsInside
<1>8. IsVector(v) /\ IsIn(p, i, j, v, 16, rows)
  BY <1>7, SizesAre DEF InFieldPicture, IsIn, IsVector
<1> HIDE DEF v
<1>9. IsVector(o(v, delta))
  <2>1. Halved(v[1]) \in Int /\ Halved(v[2]) \in Int
    BY <1>8 DEF IsVector, Halved, Bit
  <2>2. IsVector(FieldDerived(c, v))
    BY <2>1 DEF FieldDerived, IsVector
  <2> QED BY <2>2, DeltasAre, SumIsVector DEF o
<1>10. ASSUME NEW ref, NEW sel \in {0, 1}, NEW u, IsVector(u), IsIn(p, i, j, u, 16, rows)
       PROVE  pred(p, Block(ref, sel, All, i, j, u, 16))
  <2>1. i \in Nat /\ i % 16 = 0 /\ j \in Nat /\ j % 8 = 0
    BY DEF InFieldPicture
  <2>2. IsInside(p, Block(ref, sel, All, i, j, u, 16), i, j)
    BY <1>10, <2>1 DEF IsInside, Block, Rows, Both, IsVector
  <2> QED BY <2>2, InsideIsRead
<1>11. \A b \in w.blocks : pred(p, b)
  <2>1. Own(c) \in {0, 1} /\ 1 - Own(c) \in {0, 1}
    BY DEF Own
  <2> QED BY <1>4, <1>5, <1>8, <1>9, <1>10, <2>1
<1> DEFINE way == Way(w.MV, Unset, <<0, 0>>, w.blocks)
<1>12. way.MV[1] = v /\ way.blocks = Blocks(v, delta)
  BY <1>5 DEF Way
<1>13. /\ m.mb_type = {MB_FORWARD} /\ m.motion_type = MC_DMV /\ m.forw = way /\ m[Forw] = way
       /\ m.dmvector = delta /\ m.measured = Blocks(v, delta)
  <2>1. NoWay.blocks = {}
    BY DEF NoWay, Way
  <2> HIDE DEF way, Blocks
  <2>2. /\ m.mb_type = {MB_FORWARD} /\ m.motion_type = MC_DMV /\ m.forw = way /\ m[Forw] = way
        /\ m.dmvector = w.dmvector /\ m.measured = way.blocks \cup NoWay.blocks
    BY <1>1, MbIs DEF way
  <2> QED BY <1>5, <1>12, <2>1, <2>2
<1> HIDE DEF way
<1>14. calc_DMV(p, c, m)[1] = o(v, delta)
  BY <1>12, <1>13 DEF calc_DMV, o
<1>15. FieldForward(p, c, i, j, m) = Blocks(v, delta)
  <2>1. FieldForward(p, c, i, j, m) =
          {Block("old", Own(c), All, i, j, m.forw.MV[1], 16),
           Block(IF c.second THEN "same" ELSE "old", 1 - Own(c), All, i, j, calc_DMV(p, c, m)[1], 16)}
    BY <1>13, NamesDiffer DEF FieldForward
  <2> QED BY <1>12, <1>13, <1>14, <2>1
<1>16. predict_mb(p, c, i, j, m) = m.measured
  BY <1>13, <1>15, NamesDiffer DEF predict_mb
<1>17. m.measured = w.blocks
  BY <1>5, <1>13
<1>18. Reaches(c, m)
  <2>1. way.MV = <<Kept(c, MC_DMV, v), Unset>> /\ MC_DMV # TwoVectors(c)
    BY <1>5, NamesDiffer DEF way, Way, Kept, IsHalved, TwoVectors
  <2>2. WayReaches(c, MC_DMV, Forw, way)
    BY <1>7, <1>8, <2>1, OneReaches
  <2> QED BY <1>13, <2>2, NamesDiffer DEF Reaches
<1> QED BY <1>11, <1>16, <1>17, <1>18 DEF Predicts

(***************************************************************************)
(* Whatever motion_estimation() decides.                                   *)
(***************************************************************************)
LEMMA IntraTypes ==
  Intra.mb_type = {MB_INTRA} /\ [Intra EXCEPT !.measured = {Anywhere}].mb_type = {MB_INTRA}
<1>1. Intra.mb_type = {MB_INTRA}
  BY MbIs DEF Intra
<1>2. [Intra EXCEPT !.measured = {Anywhere}].mb_type = Intra.mb_type
  BY DEF Intra, Mb
<1> QED BY <1>1, <1>2

LEMMA FramesPredict ==
  ASSUME NEW p, NEW c, NEW i, NEW j, GoodParms(p), GoodPict(p, c), c.struct = FRAME_PICTURE,
         InFrame(p, i, j), NEW m \in frame_ME(p, c, i, j), MB_INTRA \notin m.mb_type
  PROVE  Predicts(p, c, i, j, m) /\ Reaches(c, m)
<1>0. m # Intra /\ m # [Intra EXCEPT !.measured = {Anywhere}]
  BY IntraTypes
<1>1. CASE c.type = I_TYPE
  BY <1>0, <1>1, NamesDiffer DEF frame_ME
<1>2. CASE c.type = P_TYPE
  <2>1. HasWindow(c.window[Forw])
    BY <1>2 DEF GoodPict
  <2> DEFINE here == Block("old", Both, All, i, j, Zero, 16)
             bypassed == Mb({}, MC_FRAME, Way(Zero, Unset, <<0, 0>>, {here}), NoWay, Unset)
  <2>2. m \in FrameP(p, c, i, j)
    BY <1>2, NamesDiffer DEF frame_ME
  <2>3. \/ m = bypassed
        \/ \E f \in FrameWays(p, c, i, j, Forw) : m = Forward(MC_FRAME, f)
        \/ \E f \in frame_estimate(p, c, i, j, Forw) : m = Forward(MC_FIELD, f)
        \/ m \in DualPrime(dpframe_estimate(p, c, i, j))
    <3>1. \/ m \in {Intra, bypassed}
          \/ m \in {Forward(MC_FRAME, f) : f \in FrameWays(p, c, i, j, Forw)}
          \/ m \in {Forward(MC_FIELD, f) : f \in frame_estimate(p, c, i, j, Forw)}
          \/ m \in DualPrime(dpframe_estimate(p, c, i, j))
          \/ m \in {[Intra EXCEPT !.measured = {Anywhere}]}
      BY <2>2 DEF FrameP
    <3> HIDE DEF bypassed
    <3> QED BY <1>0, <3>1
  <2>4. CASE m = bypassed
    <3>1. pred(p, here)
      <4>0. IsIn(p, i, j, <<0, 0>>, 16, height(p))
        BY SizesAre DEF IsIn, InFrame
      <4>1. IsInside(p, here, i, j)
        BY <4>0 DEF IsInside, Block, Rows, Both, Zero, InFrame
      <4> QED BY <4>1, InsideIsRead
    <3> DEFINE way == Way(Zero, Unset, <<0, 0>>, {here})
    <3>2. way.MV[1] = Zero /\ way.blocks = {here} /\ NoWay.blocks = {}
      BY DEF Way, NoWay
    <3> HIDE DEF here, way
    <3>3. m.mb_type = {} /\ m.motion_type = MC_FRAME /\ m.forw = way /\ m.measured = way.blocks \cup NoWay.blocks
      BY <2>4, MbIs DEF way
    <3>4. FrameForward(p, c, i, j, m) = {here}
      BY <3>2, <3>3, NamesDiffer DEF FrameForward, here
    <3>5. predict_mb(p, c, i, j, m) = {here}
      BY <1>2, <3>3, <3>4 DEF predict_mb
    <3> QED BY <3>1, <3>2, <3>3, <3>5 DEF Predicts, Reaches
  <2> HIDE DEF bypassed
  <2> QED BY <2>1, <2>3, <2>4, FrameWayIsGood, FieldsWayIsGood, ForwardPredicts, FramePrimePredicts
<1>3. CASE c.type = B_TYPE
  <2>1. HasWindow(c.window[Forw]) /\ HasWindow(c.window[Back])
    BY <1>3 DEF GoodPict
  <2>2. \/ m \in Either(MC_FRAME, FrameWays(p, c, i, j, Forw), FrameWays(p, c, i, j, Back))
        \/ m \in Either(MC_FIELD, frame_estimate(p, c, i, j, Forw), frame_estimate(p, c, i, j, Back))
    BY <1>0, <1>3, NamesDiffer DEF frame_ME, FrameB
  <2> QED BY <1>3, <2>1, <2>2, FrameWayIsGood, FieldsWayIsGood, EitherPredicts
<1> QED BY <1>1, <1>2, <1>3 DEF GoodPict, PictTypes

LEMMA FieldsPredict ==
  ASSUME NEW p, NEW c, NEW i, NEW j, GoodParms(p), GoodPict(p, c), c.struct # FRAME_PICTURE,
         InFieldPicture(p, i, j), NEW m \in field_ME(p, c, i, j), MB_INTRA \notin m.mb_type
  PROVE  Predicts(p, c, i, j, m) /\ Reaches(c, m)
<1>0. m # Intra
  BY IntraTypes
<1>1. CASE c.type = I_TYPE
  BY <1>0, <1>1, NamesDiffer DEF field_ME
<1>2. CASE c.type = P_TYPE
  <2>1. HasWindow(c.window[Forw])
    BY <1>2 DEF GoodPict
  <2> DEFINE here == Block("old", Own(c), All, i, j, Zero, 16)
             bypassed == Mb({}, MC_FIELD, Way(Zero, Unset, <<Own(c), 0>>, {here}), NoWay, Unset)
  <2>2. m \in FieldP(p, c, i, j)
    BY <1>2, NamesDiffer DEF field_ME
  <2>3. \/ m = bypassed
        \/ \E f \in FieldWays(p, c, i, j, Forw) : m = Forward(MC_FIELD, f)
        \/ \E f \in HalvesWays(p, c, i, j, Forw) : m = Forward(MC_16X8, f)
        \/ m \in DualPrime(dpfield_estimate(p, c, i, j))
    <3>1. \/ m \in {Intra, bypassed}
          \/ m \in {Forward(MC_FIELD, f) : f \in FieldWays(p, c, i, j, Forw)}
          \/ m \in {Forward(MC_16X8, f) : f \in HalvesWays(p, c, i, j, Forw)}
          \/ m \in DualPrime(dpfield_estimate(p, c, i, j))
      BY <2>2 DEF FieldP
    <3> HIDE DEF bypassed
    <3> QED BY <1>0, <3>1
  <2>4. CASE m = bypassed
    <3>0. Own(c) \in {0, 1}
      BY DEF Own
    <3>1. pred(p, here)
      <4>1. IsInside(p, here, i, j)
        BY <3>0, SizesAre DEF IsInside, Block, Rows, Both, Zero, IsIn, InFieldPicture
      <4> QED BY <4>1, InsideIsRead
    <3> DEFINE way == Way(Zero, Unset, <<Own(c), 0>>, {here})
    <3>2. way.MV[1] = Zero /\ way.blocks = {here} /\ NoWay.blocks = {} /\ way.sel[1] = Own(c)
      BY DEF Way, NoWay
    <3> HIDE DEF here, way
    <3>3. m.mb_type = {} /\ m.motion_type = MC_FIELD /\ m.forw = way /\ m.measured = way.blocks \cup NoWay.blocks
      BY <2>4, MbIs DEF way
    <3>4. PredFrame(c, Own(c)) = "old"
      BY DEF PredFrame
    <3>5. FieldForward(p, c, i, j, m) = {here}
      BY <3>2, <3>3, <3>4, NamesDiffer DEF FieldForward, here
    <3>6. predict_mb(p, c, i, j, m) = {here}
      BY <1>2, <3>3, <3>5 DEF predict_mb
    <3> QED BY <3>1, <3>2, <3>3, <3>6 DEF Predicts, Reaches
  <2> HIDE DEF bypassed
  <2> QED BY <2>1, <2>3, <2>4, FieldWayIsGood, HalvesWayIsGood, ForwardPredicts, FieldPrimePredicts
<1>3. CASE c.type = B_TYPE
  <2>1. HasWindow(c.window[Forw]) /\ HasWindow(c.window[Back])
    BY <1>3 DEF GoodPict
  <2>2. \/ m \in Either(MC_FIELD, FieldWays(p, c, i, j, Forw), FieldWays(p, c, i, j, Back))
        \/ m \in Either(MC_16X8, HalvesWays(p, c, i, j, Forw), HalvesWays(p, c, i, j, Back))
    BY <1>0, <1>3, NamesDiffer DEF field_ME, FieldB
  <2> QED BY <1>3, <2>1, <2>2, FieldWayIsGood, HalvesWayIsGood, EitherPredicts
<1> QED BY <1>1, <1>2, <1>3 DEF GoodPict, PictTypes

(***************************************************************************)
(* The parameters and pictures an encoder comes to.                        *)
(***************************************************************************)
LEMMA PowersAre ==
  ASSUME NEW n \in 1 .. 9
  PROVE  2 ^ (n - 1) \in Nat \ {0} /\ 2 ^ n = 2 * 2 ^ (n - 1)
<1>1. /\ 2 ^ 0 = 1 /\ 2 ^ 1 = 2 /\ 2 ^ 2 = 4 /\ 2 ^ 3 = 8 /\ 2 ^ 4 = 16
      /\ 2 ^ 5 = 32 /\ 2 ^ 6 = 64 /\ 2 ^ 7 = 128 /\ 2 ^ 8 = 256 /\ 2 ^ 9 = 512
  OBVIOUS
<1>2. CASE n = 1 /\ n - 1 = 0
  BY <1>1, <1>2
<1>3. CASE n = 2 /\ n - 1 = 1
  BY <1>1, <1>3
<1>4. CASE n = 3 /\ n - 1 = 2
  BY <1>1, <1>4
<1>5. CASE n = 4 /\ n - 1 = 3
  BY <1>1, <1>5
<1>6. CASE n = 5 /\ n - 1 = 4
  BY <1>1, <1>6
<1>7. CASE n = 6 /\ n - 1 = 5
  BY <1>1, <1>7
<1>8. CASE n = 7 /\ n - 1 = 6
  BY <1>1, <1>8
<1>9. CASE n = 8 /\ n - 1 = 7
  BY <1>1, <1>9
<1>10. CASE n = 9 /\ n - 1 = 8
  BY <1>1, <1>10
<1> QED BY <1>2, <1>3, <1>4, <1>5, <1>6, <1>7, <1>8, <1>9, <1>10

(* What motion data must be where it is used.                              *)
GoodMotion(m) ==
  \A axis \in {1, 2} :
    /\ m.code[axis] \in 1 .. 9 /\ m.s[axis] \in Nat
    /\ m.s[axis] <= 4 * 2 ^ m.code[axis] - 1

GoodMotions(p) ==
  /\ p.M \in Nat \ {0}
  /\ \A u \in Uses(p) : GoodMotion(p.motion_data[u[1]][u[2]])
  /\ p.mpeg1 => \A u \in Uses(p), axis \in {1, 2} : p.motion_data[u[1]][u[2]].code[axis] <= 7

Names == {"mpeg1", "N", "M", "fieldpic", "horizontal_size", "vertical_size", "aspectratio",
          "frame_rate_code", "bit_rate", "vbv_buffer_size", "constrparms", "profile", "level",
          "prog_seq", "chroma_format", "dc_prec", "topfirst", "frame_pred_dct_tab", "qscale_tab",
          "intravlc_tab", "repeatfirst", "prog_frame", "motion_data"}

(* As far as motion goes, scans and MPEG-1 only restrict p.                *)
Restricts(q, p) ==
  /\ DOMAIN q = Names
  /\ q.M = p.M /\ q.motion_data = p.motion_data /\ q.mpeg1 = p.mpeg1
  /\ q.horizontal_size = p.horizontal_size /\ q.vertical_size = p.vertical_size
  /\ q.fieldpic \in BOOLEAN /\ q.topfirst \in BOOLEAN /\ q.prog_seq \in BOOLEAN
  /\ q.prog_frame \in BOOLEAN /\ q.repeatfirst \in BOOLEAN
  /\ q.chroma_format \in {p.chroma_format, CHROMA420}

LEMMA ScansRestrict ==
  ASSUME NEW p, NEW q, Restricts(q, p)
  PROVE  Restricts(OfScans(q), p) /\ (OfScans(q).fieldpic => ~OfScans(q).prog_seq)
<1> DEFINE r == [q EXCEPT !.prog_frame = @ \/ q.prog_seq]
           t == OfScans(q)
<1>1. Restricts(r, p) /\ r.prog_frame = (q.prog_frame \/ q.prog_seq) /\ r.prog_seq = q.prog_seq
  BY DEF Restricts, Names
<1>2. t = [r EXCEPT !.fieldpic = @ /\ ~r.prog_frame,
                    !.repeatfirst = @ /\ r.prog_frame,
                    !.frame_pred_dct_tab = IF r.prog_frame THEN Always(TRUE) ELSE @,
                    !.topfirst = @ /\ (r.prog_seq => q.repeatfirst /\ r.prog_frame)]
  BY DEF OfScans
<1> HIDE DEF r, t
<1>3. /\ DOMAIN t = Names
      /\ t.fieldpic = (r.fieldpic /\ ~r.prog_frame)
      /\ t.repeatfirst = (r.repeatfirst /\ r.prog_frame)
      /\ t.topfirst = (r.topfirst /\ (r.prog_seq => q.repeatfirst /\ r.prog_frame))
      /\ t.M = r.M /\ t.motion_data = r.motion_data /\ t.horizontal_size = r.horizontal_size
      /\ t.mpeg1 = r.mpeg1
      /\ t.vertical_size = r.vertical_size /\ t.prog_seq = r.prog_seq
      /\ t.prog_frame = r.prog_frame /\ t.chroma_format = r.chroma_format
  BY <1>1, <1>2 DEF Restricts, Names
<1> QED BY <1>1, <1>3 DEF Restricts, t

LEMMA AdjustedRestricts ==
  ASSUME NEW p, IsParameters(p)
  PROVE  LET q == Adjusted(p) IN
         /\ q.M = p.M /\ q.mpeg1 = p.mpeg1
         /\ q.horizontal_size = p.horizontal_size /\ q.vertical_size = p.vertical_size
         /\ q.fieldpic \in BOOLEAN /\ q.topfirst \in BOOLEAN /\ (q.fieldpic => ~q.prog_seq)
         /\ q.chroma_format \in {p.chroma_format, CHROMA420}
         /\ \A u \in Uses(p) :
              q.motion_data[u[1]][u[2]] = ReducedWindow(p.motion_data[u[1]][u[2]])
<1> DEFINE q1 == IF p.mpeg1 THEN OfMpeg1(p) ELSE [p EXCEPT !.constrparms = FALSE]
           q2 == OfScans(q1)
           q3 == OfWindows(q2)
<1>0. Restricts(p, p)
  BY DEF IsParameters, Restricts, Names
<1>1. Restricts(q1, p)
  <2>1. Restricts(OfMpeg1(p), p)
    BY <1>0 DEF OfMpeg1, Restricts, Names
  <2>2. Restricts([p EXCEPT !.constrparms = FALSE], p)
    BY <1>0 DEF Restricts, Names
  <2> QED BY <2>1, <2>2
<1> HIDE DEF q1
<1>2. Restricts(q2, p) /\ (q2.fieldpic => ~q2.prog_seq)
  BY <1>1, ScansRestrict
<1> HIDE DEF q2
<1>3. /\ q3.M = q2.M /\ q3.horizontal_size = q2.horizontal_size /\ q3.vertical_size = q2.vertical_size
      /\ q3.fieldpic = q2.fieldpic /\ q3.topfirst = q2.topfirst /\ q3.prog_seq = q2.prog_seq
      /\ q3.chroma_format = q2.chroma_format /\ q3.mpeg1 = q2.mpeg1
  BY <1>2 DEF OfWindows, Restricts, Names
<1>4. q3.motion_data =
        [i \in 0 .. (q2.M - 1) |->
           [d \in {Forw, Back} |-> IF <<i, d>> \in Uses(q2) THEN ReducedWindow(q2.motion_data[i][d])
                                   ELSE q2.motion_data[i][d]]]
  BY <1>2 DEF OfWindows, Restricts, Names
<1>5. Uses(q2) = Uses(p)
  BY <1>2 DEF Uses, Restricts
<1> HIDE DEF q3
<1>6. ASSUME NEW u \in Uses(p)
      PROVE  q3.motion_data[u[1]][u[2]] = ReducedWindow(p.motion_data[u[1]][u[2]])
  <2>1. u[1] \in 0 .. (q2.M - 1) /\ u[2] \in {Forw, Back} /\ <<u[1], u[2]>> \in Uses(q2)
    BY <1>5 DEF Uses
  <2>2. q2.motion_data = p.motion_data
    BY <1>2 DEF Restricts
  <2> QED BY <1>4, <2>1, <2>2
<1>7. q3 = Adjusted(p)
  BY DEF Adjusted, q1, q2, q3
<1> QED BY <1>2, <1>3, <1>6, <1>7 DEF Restricts

LEMMA RangesAre ==
  ASSUME NEW p, simpeg_encode_range_checks(p)
  PROVE  /\ p.horizontal_size >= 1 /\ p.vertical_size >= 1
         /\ p.chroma_format \in CHROMA420 .. CHROMA444
         /\ \A u \in Uses(p) : HasRange(p, p.motion_data[u[1]][u[2]])
  BY DEF simpeg_encode_range_checks

LEMMA InRange ==
  ASSUME NEW p, NEW m, HasRange(p, m), NEW axis \in {1, 2}
  PROVE  m.code[axis] \in 1 .. 9 /\ m.s[axis] > 0 /\ (p.mpeg1 => m.code[axis] <= 7)
<1>1. m.code[axis] \in 1 .. (IF p.mpeg1 THEN 7 ELSE 9) /\ m.s[axis] > 0
  BY DEF HasRange
<1>2. CASE p.mpeg1
  BY <1>1, <1>2
<1>3. CASE ~p.mpeg1
  BY <1>1, <1>3
<1> QED BY <1>2, <1>3

LEMMA AcceptedParms ==
  ASSUME NEW p, IsParameters(p), IsAccepted(p)
  PROVE  GoodParms(Adjusted(p)) /\ GoodMotions(Adjusted(p))
<1> DEFINE q == Adjusted(p)
<1>1. /\ p.M \in Nat \ {0} /\ p.horizontal_size \in Nat \ {0} /\ p.vertical_size \in Nat \ {0}
      /\ p.chroma_format \in CHROMA420 .. CHROMA444
      /\ \A u \in Uses(p) : HasRange(p, p.motion_data[u[1]][u[2]])
  <2>1. simpeg_encode_range_checks(p) /\ p.M >= 1
    BY DEF IsAccepted
  <2>2. p.M \in Int /\ p.horizontal_size \in Int /\ p.vertical_size \in Int
    BY DEF IsParameters
  <2> QED BY <2>1, <2>2, RangesAre
<1>2. /\ q.M = p.M /\ q.mpeg1 = p.mpeg1
      /\ q.horizontal_size = p.horizontal_size /\ q.vertical_size = p.vertical_size
      /\ q.fieldpic \in BOOLEAN /\ q.topfirst \in BOOLEAN /\ (q.fieldpic => ~q.prog_seq)
      /\ q.chroma_format \in {p.chroma_format, CHROMA420}
      /\ \A u \in Uses(p) :
           q.motion_data[u[1]][u[2]] = ReducedWindow(p.motion_data[u[1]][u[2]])
  BY AdjustedRestricts
<1> HIDE DEF q
<1>3. GoodParms(q)
  <2> DEFINE h == p.horizontal_size
             v == p.vertical_size
  <2>1. h \in Nat \ {0} /\ v \in Nat \ {0}
    BY <1>1
  <2>2. mb_width(q) = (h + 15) \div 16
    BY <1>2 DEF mb_width
  <2>3. mb_height(q) = IF q.prog_seq THEN (v + 15) \div 16 ELSE 2 * ((v + 31) \div 32)
    BY <1>2 DEF mb_height
  <2> HIDE DEF h, v
  <2>4. /\ (h + 15) \div 16 \in Nat \ {0} /\ (v + 15) \div 16 \in Nat \ {0}
        /\ 2 * ((v + 31) \div 32) \in Nat \ {0} /\ (2 * ((v + 31) \div 32)) % 2 = 0
    BY <2>1
  <2>5. q.chroma_format \in 1 .. 3
    BY <1>1, <1>2 DEF CHROMA420, CHROMA444
  <2> QED BY <1>2, <2>2, <2>3, <2>4, <2>5 DEF GoodParms
<1>4. Uses(q) = Uses(p)
  BY <1>2 DEF Uses
<1>5. ASSUME NEW u \in Uses(p)
      PROVE  GoodMotion(ReducedWindow(p.motion_data[u[1]][u[2]]))
  <2> DEFINE m == p.motion_data[u[1]][u[2]]
             r == ReducedWindow(m)
  <2>1. m \in MotionData
    BY DEF IsParameters, Uses
  <2>2. /\ r.code = m.code
        /\ \A axis \in {1, 2} : r.s[axis] = Least(m.s[axis], 4 * 2 ^ m.code[axis] - 1)
    BY <2>1 DEF ReducedWindow, MotionData
  <2>3. \A axis \in {1, 2} : m.code[axis] \in 1 .. 9 /\ m.s[axis] > 0 /\ m.s[axis] \in Int
    <3>1. m.s[1] \in Int /\ m.s[2] \in Int
      BY <2>1 DEF MotionData
    <3>2. \A axis \in {1, 2} : m.code[axis] \in 1 .. 9 /\ m.s[axis] > 0
      BY <1>1, InRange
    <3> QED BY <3>1, <3>2
  <2> HIDE DEF m, r
  <2>4. ASSUME NEW axis \in {1, 2}
        PROVE  r.code[axis] \in 1 .. 9 /\ r.s[axis] \in Nat /\ r.s[axis] <= 4 * 2 ^ r.code[axis] - 1
    <3> DEFINE wide == 2 ^ m.code[axis]
    <3>1. wide \in Nat /\ wide >= 2
      <4> DEFINE n == m.code[axis]
      <4>1. n \in 1 .. 9
        BY <2>3
      <4> HIDE DEF n
      <4>2. 2 ^ (n - 1) \in Nat \ {0} /\ 2 ^ n = 2 * 2 ^ (n - 1)
        BY <4>1, PowersAre
      <4> QED BY <4>2 DEF n
    <3> HIDE DEF wide
    <3>2. r.s[axis] = Least(m.s[axis], 4 * wide - 1)
      BY <2>2 DEF wide
    <3>3. r.s[axis] \in Nat /\ r.s[axis] <= 4 * wide - 1
      BY <2>3, <3>1, <3>2 DEF Least
    <3> QED BY <2>2, <2>3, <3>3 DEF wide
  <2> QED BY <2>4 DEF GoodMotion, m, r
<1>6. GoodMotions(q)
  <2>1. \A u \in Uses(p) : GoodMotion(q.motion_data[u[1]][u[2]])
    BY <1>2, <1>5
  <2>2. ASSUME p.mpeg1, NEW u \in Uses(p), NEW axis \in {1, 2}
        PROVE  q.motion_data[u[1]][u[2]].code[axis] <= 7
    <3> DEFINE m == p.motion_data[u[1]][u[2]]
    <3>1. m.code[axis] <= 7
      BY <1>1, <2>2, InRange
    <3>2. m \in MotionData
      BY DEF IsParameters, Uses
    <3> HIDE DEF m
    <3>3. ReducedWindow(m).code = m.code
      BY <3>2 DEF ReducedWindow, MotionData
    <3>4. q.motion_data[u[1]][u[2]] = ReducedWindow(m)
      BY <1>2 DEF m
    <3> QED BY <3>1, <3>3, <3>4
  <2> QED BY <1>1, <1>2, <1>4, <2>1, <2>2 DEF GoodMotions
<1> QED BY <1>3, <1>6 DEF q

(* The window of a direction, and the code its vectors are written with.   *)
CodeFits(c, d) == GoodMotion([code |-> c.codes[d], s |-> c.window[d]])

(* The codes are those of motion data.                                     *)
IsUsed(p, c, d) == \E n : <<n, d>> \in Uses(p) /\ c.codes[d] = p.motion_data[n][d].code

Uncoded(c, d) == c.type = I_TYPE \/ (c.type = P_TYPE /\ d = Back)

LEMMA PictureIs ==
  ASSUME NEW p, GoodParms(p), GoodMotions(p), NEW kind \in Kinds(p), NEW struct
  PROVE  LET c == PictureOf(p, kind[1], kind[2], struct) IN
         /\ c.type \in PictTypes /\ c.struct = struct
         /\ \A d \in {Forw, Back} : Uncoded(c, d) \/ (CodeFits(c, d) /\ IsUsed(p, c, d))
         /\ \E t \in PictTypes : c.frame_pred_dct = p.frame_pred_dct_tab[t]
<1> DEFINE c == PictureOf(p, kind[1], kind[2], struct)
           type == kind[1]
           n == kind[2]
<1>1. c.type = type /\ c.struct = struct /\ c.codes = Codes(p, type, n) /\ c.window = Windows(p, n)
  BY DEF PictureOf
<1>2. \/ type = I_TYPE
      \/ type = P_TYPE /\ n = 0
      \/ type = B_TYPE /\ n \in 1 .. (p.M - 1)
  BY DEF Kinds
<1> HIDE DEF c, type, n
<1>3. ASSUME NEW d \in {Forw, Back}, ~Uncoded(c, d)
      PROVE  c.codes[d] = p.motion_data[n][d].code /\ c.window[d] = p.motion_data[n][d].s
             /\ <<n, d>> \in Uses(p)
  <2>1. c.window[d] = p.motion_data[n][d].s
    BY <1>1 DEF Windows
  <2>2. CASE type = P_TYPE
    <3>1. d = Forw /\ n = 0
      BY <1>1, <1>2, <1>3, <2>2, NamesDiffer DEF Uncoded
    <3>2. c.codes[d] = p.motion_data[n][d].code
      BY <1>1, <2>2, <3>1, NamesDiffer DEF Codes, Forw
    <3>3. <<n, d>> \in Uses(p)
      BY <3>1 DEF Uses, GoodMotions
    <3> QED BY <2>1, <3>2, <3>3
  <2>3. CASE type = B_TYPE
    <3>1. n \in 1 .. (p.M - 1)
      BY <1>2, <2>3, NamesDiffer
    <3>2. c.codes[d] = p.motion_data[n][d].code
      BY <1>1, <2>3, NamesDiffer DEF Codes
    <3>3. <<n, d>> \in Uses(p)
      BY <3>1 DEF Uses, GoodMotions
    <3> QED BY <2>1, <3>2, <3>3
  <2> QED BY <1>1, <1>2, <1>3, <2>2, <2>3 DEF Uncoded
<1>4. ASSUME NEW d \in {Forw, Back}, ~Uncoded(c, d)
      PROVE  CodeFits(c, d) /\ IsUsed(p, c, d)
  <2>1. GoodMotion(p.motion_data[n][d])
    <3>1. <<n, d>>[1] = n /\ <<n, d>>[2] = d
      OBVIOUS
    <3> QED BY <1>3, <1>4, <3>1 DEF GoodMotions
  <2>2. CodeFits(c, d)
    BY <1>3, <1>4, <2>1 DEF CodeFits, GoodMotion
  <2> QED BY <1>3, <1>4, <2>2 DEF IsUsed
<1>5. type \in PictTypes
  BY <1>2 DEF PictTypes
<1>6. c.frame_pred_dct = p.frame_pred_dct_tab[type]
  BY DEF PictureOf, c, type
<1> QED BY <1>1, <1>4, <1>5, <1>6 DEF c

LEMMA SecondIs ==
  ASSUME NEW p, GoodParms(p), GoodMotions(p), NEW kind \in Kinds(p), NEW struct
  PROVE  LET c == SecondOf(p, PictureOf(p, kind[1], kind[2], struct)) IN
         /\ c.type \in PictTypes /\ c.struct = IF p.topfirst THEN BOTTOM_FIELD ELSE TOP_FIELD
         /\ \A d \in {Forw, Back} : Uncoded(c, d) \/ (CodeFits(c, d) /\ IsUsed(p, c, d))
         /\ \E t \in PictTypes : c.frame_pred_dct = p.frame_pred_dct_tab[t]
<1> DEFINE first == PictureOf(p, kind[1], kind[2], struct)
           c == SecondOf(p, first)
<1>1. first.type = kind[1] /\ first.type \in PictTypes
  BY DEF PictureOf, Kinds, PictTypes
<1>2. c.struct = IF p.topfirst THEN BOTTOM_FIELD ELSE TOP_FIELD
  BY DEF SecondOf, PictureOf
<1>5. c.frame_pred_dct = first.frame_pred_dct /\ \E t \in PictTypes : first.frame_pred_dct = p.frame_pred_dct_tab[t]
  <2>1. c.frame_pred_dct = first.frame_pred_dct
    BY DEF SecondOf, PictureOf
  <2> HIDE DEF c
  <2> QED BY <2>1, PictureIs
<1>3. CASE first.type # I_TYPE
  <2>1. c.type = first.type /\ c.codes = first.codes /\ c.window = first.window
    BY <1>3 DEF SecondOf, PictureOf
  <2>2. \A d \in {Forw, Back} : Uncoded(first, d) \/ (CodeFits(first, d) /\ IsUsed(p, first, d))
    BY PictureIs
  <2> HIDE DEF first, c
  <2>3. \A d \in {Forw, Back} : Uncoded(c, d) \/ (CodeFits(c, d) /\ IsUsed(p, c, d))
    BY <2>1, <2>2 DEF Uncoded, CodeFits, IsUsed
  <2> QED BY <1>1, <1>2, <1>5, <2>1, <2>3 DEF c, first
<1>4. CASE first.type = I_TYPE
  <2> DEFINE ofP == PictureOf(p, P_TYPE, 0, struct)
  <2>1. c.type = P_TYPE /\ c.codes = Codes(p, P_TYPE, 0) /\ c.window = Windows(p, 0)
    BY <1>4 DEF SecondOf, PictureOf
  <2>2. ofP.type = P_TYPE /\ ofP.codes = Codes(p, P_TYPE, 0) /\ ofP.window = Windows(p, 0)
    BY DEF PictureOf
  <2>3. \A d \in {Forw, Back} : Uncoded(ofP, d) \/ (CodeFits(ofP, d) /\ IsUsed(p, ofP, d))
    <3>1. <<P_TYPE, 0>> \in Kinds(p) /\ <<P_TYPE, 0>>[1] = P_TYPE /\ <<P_TYPE, 0>>[2] = 0
      BY DEF Kinds
    <3> QED BY <3>1, PictureIs
  <2> HIDE DEF first, c, ofP
  <2>4. \A d \in {Forw, Back} : Uncoded(c, d) \/ (CodeFits(c, d) /\ IsUsed(p, c, d))
    BY <2>1, <2>2, <2>3 DEF Uncoded, CodeFits, IsUsed
  <2> QED BY <1>2, <1>5, <2>1, <2>4 DEF PictTypes, c, first
<1> QED BY <1>3, <1>4

LEMMA PictureIsGood ==
  ASSUME NEW p, GoodParms(p), GoodMotions(p), NEW c, IsPictureOf(p, c)
  PROVE  /\ GoodPict(p, c)
         /\ \A d \in {Forw, Back} : Uncoded(c, d) \/ (CodeFits(c, d) /\ IsUsed(p, c, d))
         /\ \E t \in PictTypes : c.frame_pred_dct = p.frame_pred_dct_tab[t]
<1>1. PICK kind \in Kinds(p) :
        LET first == PictureOf(p, kind[1], kind[2], FirstStruct(p))
        IN c = first \/ (p.fieldpic /\ c = SecondOf(p, first))
  BY DEF IsPictureOf
<1>2. /\ c.type \in PictTypes
      /\ c.struct = FirstStruct(p) \/ (p.fieldpic /\ c.struct = IF p.topfirst THEN BOTTOM_FIELD ELSE TOP_FIELD)
      /\ \A d \in {Forw, Back} : Uncoded(c, d) \/ (CodeFits(c, d) /\ IsUsed(p, c, d))
      /\ \E t \in PictTypes : c.frame_pred_dct = p.frame_pred_dct_tab[t]
  BY <1>1, PictureIs, SecondIs
<1>3. /\ c.struct \in {FRAME_PICTURE, TOP_FIELD, BOTTOM_FIELD}
      /\ c.struct = FRAME_PICTURE <=> ~p.fieldpic
  BY <1>2, NamesDiffer DEF FirstStruct, GoodParms
<1>4. \A d \in {Forw, Back} : CodeFits(c, d) => HasWindow(c.window[d])
  BY DEF CodeFits, GoodMotion, HasWindow
<1>5. c.type \in {P_TYPE, B_TYPE} => HasWindow(c.window[Forw])
  BY <1>2, <1>4, NamesDiffer DEF Uncoded
<1>6. c.type = B_TYPE => HasWindow(c.window[Back])
  BY <1>2, <1>4, NamesDiffer DEF Uncoded
<1> QED BY <1>2, <1>3, <1>5, <1>6 DEF GoodPict

LEMMA PlacesAre ==
  ASSUME NEW p, GoodParms(p), NEW at \in MacroblocksOf(p)
  PROVE  /\ ~p.fieldpic => InFrame(p, at[1], at[2])
         /\ p.fieldpic => InFieldPicture(p, at[1], at[2])
<1>1. PICK a \in 0 .. (mb_width(p) - 1), b \in 0 .. (mb_height2(p) - 1) : at = <<16 * a, 16 * b>>
  BY DEF MacroblocksOf
<1> DEFINE w == mb_width(p)
           h == mb_height(p)
<1>2. w \in Nat \ {0} /\ h \in Nat \ {0} /\ (p.fieldpic => h % 2 = 0)
      /\ width(p) = 16 * w /\ height(p) = 16 * h
      /\ mb_height2(p) = IF p.fieldpic THEN h \div 2 ELSE h
  BY DEF GoodParms, width, height, mb_height2
<1> HIDE DEF w, h
<1>3. a \in Nat /\ a <= w - 1 /\ at[1] = 16 * a /\ at[2] = 16 * b
  BY <1>1, <1>2 DEF w
<1>4. ASSUME ~p.fieldpic PROVE InFrame(p, at[1], at[2])
  <2>1. b \in Nat /\ b <= h - 1
    BY <1>1, <1>2, <1>4
  <2> QED BY <1>2, <1>3, <2>1 DEF InFrame
<1>5. ASSUME p.fieldpic PROVE InFieldPicture(p, at[1], at[2])
  <2>1. b \in Nat /\ b <= (h \div 2) - 1 /\ h % 2 = 0
    BY <1>1, <1>2, <1>5
  <2>2. height(p) \div 2 = 16 * (h \div 2)
    BY <1>2, <2>1
  <2> QED BY <1>2, <1>3, <2>1, <2>2 DEF InFieldPicture
<1> QED BY <1>4, <1>5

(* No macroblock of an I picture is predicted, and in a P picture none     *)
(* from what follows.                                                      *)
LEMMA DirectionsAre ==
  ASSUME NEW p, NEW c, NEW i, NEW j, GoodPict(p, c), NEW m \in motion_estimation(p, c, i, j)
  PROVE  \/ m.mb_type = {MB_INTRA}
         \/ c.type = P_TYPE /\ m.mb_type \in {{}, {MB_FORWARD}}
         \/ c.type = B_TYPE /\ m.mb_type \in {{MB_FORWARD}, {MB_BACKWARD}, {MB_FORWARD, MB_BACKWARD}}
<1>1. CASE c.type = I_TYPE
  <2>1. m = Intra
    BY <1>1, NamesDiffer DEF motion_estimation, frame_ME, field_ME
  <2> QED BY <2>1, MbIs DEF Intra
<1>2. CASE c.type = P_TYPE
  <2>1. m \in FrameP(p, c, i, j) \/ m \in FieldP(p, c, i, j)
    BY <1>2, NamesDiffer DEF motion_estimation, frame_ME, field_ME
  <2>2. ASSUME NEW motion, NEW S, m \in {Forward(motion, f) : f \in S}
        PROVE  m.mb_type = {MB_FORWARD}
    <3>1. PICK f \in S : m = Mb({MB_FORWARD}, motion, f, NoWay, Unset)
      BY <2>2 DEF Forward
    <3> QED BY <3>1, MbIs
  <2>3. ASSUME NEW S, m \in DualPrime(S)
        PROVE  m.mb_type = {MB_FORWARD}
    <3>1. PICK w \in S : m = Mb({MB_FORWARD}, MC_DMV, Way(w.MV, Unset, <<0, 0>>, w.blocks), NoWay, w.dmvector)
      BY <2>3 DEF DualPrime
    <3> QED BY <3>1, MbIs
  <2>4. ASSUME m \in FrameP(p, c, i, j)
        PROVE  m.mb_type \in {{MB_INTRA}, {}, {MB_FORWARD}}
    <3> DEFINE bypassed == Mb({}, MC_FRAME, Way(Zero, Unset, <<0, 0>>, {Block("old", Both, All, i, j, Zero, 16)}),
                              NoWay, Unset)
    <3>1. \/ m \in {Intra, bypassed}
          \/ m \in {Forward(MC_FRAME, f) : f \in FrameWays(p, c, i, j, Forw)}
          \/ m \in {Forward(MC_FIELD, f) : f \in frame_estimate(p, c, i, j, Forw)}
          \/ m \in DualPrime(dpframe_estimate(p, c, i, j))
          \/ m \in {[Intra EXCEPT !.measured = {Anywhere}]}
      BY <2>4 DEF FrameP
    <3>2. bypassed.mb_type = {}
      BY MbIs
    <3> HIDE DEF bypassed
    <3> QED BY <2>2, <2>3, <3>1, <3>2, IntraTypes
  <2>5. ASSUME m \in FieldP(p, c, i, j)
        PROVE  m.mb_type \in {{MB_INTRA}, {}, {MB_FORWARD}}
    <3> DEFINE bypassed == Mb({}, MC_FIELD,
                              Way(Zero, Unset, <<Own(c), 0>>, {Block("old", Own(c), All, i, j, Zero, 16)}),
                              NoWay, Unset)
    <3>1. \/ m \in {Intra, bypassed}
          \/ m \in {Forward(MC_FIELD, f) : f \in FieldWays(p, c, i, j, Forw)}
          \/ m \in {Forward(MC_16X8, f) : f \in HalvesWays(p, c, i, j, Forw)}
          \/ m \in DualPrime(dpfield_estimate(p, c, i, j))
      BY <2>5 DEF FieldP
    <3>2. bypassed.mb_type = {}
      BY MbIs
    <3> HIDE DEF bypassed
    <3> QED BY <2>2, <2>3, <3>1, <3>2, IntraTypes
  <2> QED BY <1>2, <2>1, <2>4, <2>5
<1>3. CASE c.type = B_TYPE
  <2>1. m = Intra \/ \E motion, F, B : m \in Either(motion, F, B)
    BY <1>3, NamesDiffer DEF motion_estimation, frame_ME, field_ME, FrameB, FieldB
  <2>2. ASSUME NEW motion, NEW F, NEW B, m \in Either(motion, F, B)
        PROVE  m.mb_type \in {{MB_FORWARD}, {MB_BACKWARD}, {MB_FORWARD, MB_BACKWARD}}
    <3>1. \E type \in {{MB_FORWARD}, {MB_BACKWARD}, {MB_FORWARD, MB_BACKWARD}} :
            \E f, b : m = Mb(type, motion, f, b, Unset)
      <4>1. \/ m \in {Forward(motion, f) : f \in F}
            \/ m \in {Backward(motion, b) : b \in B}
            \/ m \in Interpolated(motion, F, B)
        BY <2>2 DEF Either
      <4>2. m \in {Forward(motion, f) : f \in F} => \E f : m = Mb({MB_FORWARD}, motion, f, NoWay, Unset)
        BY DEF Forward
      <4>3. m \in {Backward(motion, b) : b \in B} => \E b : m = Mb({MB_BACKWARD}, motion, NoWay, b, Unset)
        BY DEF Backward
      <4>4. m \in Interpolated(motion, F, B) =>
              \E f, b : m = Mb({MB_FORWARD, MB_BACKWARD}, motion, f, b, Unset)
        BY DEF Interpolated
      <4> QED BY <4>1, <4>2, <4>3, <4>4
    <3> QED BY <3>1, MbIs
  <2> QED BY <1>3, <2>1, <2>2, IntraTypes
<1> QED BY <1>1, <1>2, <1>3 DEF GoodPict, PictTypes

(***************************************************************************)
(* Every decision of motion estimation.                                    *)
(***************************************************************************)
LEMMA CodingIsGood ==
  ASSUME Inv, stage = "coding"
  PROVE  /\ GoodParms(parms) /\ GoodMotions(parms) /\ GoodPict(parms, pict)
         /\ \A d \in {Forw, Back} : Uncoded(pict, d) \/ (CodeFits(pict, d) /\ IsUsed(parms, pict, d))
         /\ \E t \in PictTypes : pict.frame_pred_dct = parms.frame_pred_dct_tab[t]
<1>1. PICK p \in Parameters : IsAccepted(p) /\ parms = Adjusted(p)
  BY DEF Inv, ParmsOK
<1>2. GoodParms(parms) /\ GoodMotions(parms)
  BY <1>1, ParametersAssumption, AcceptedParms
<1>3. IsPictureOf(parms, pict)
  BY DEF Inv, PictOK
<1> QED BY <1>2, <1>3, PictureIsGood

LEMMA DecisionsAreGood ==
  ASSUME Inv, stage = "coding", NEW at \in MacroblocksOf(parms),
         NEW m \in motion_estimation(parms, pict, at[1], at[2]), MB_INTRA \notin m.mb_type
  PROVE  Predicts(parms, pict, at[1], at[2], m) /\ Reaches(pict, m)
<1>1. GoodParms(parms) /\ GoodPict(parms, pict)
  BY CodingIsGood
<1>2. CASE pict.struct = FRAME_PICTURE
  <2>1. InFrame(parms, at[1], at[2]) /\ m \in frame_ME(parms, pict, at[1], at[2])
    BY <1>1, <1>2, PlacesAre DEF GoodPict, motion_estimation
  <2> QED BY <1>1, <1>2, <2>1, FramesPredict
<1>3. CASE pict.struct # FRAME_PICTURE
  <2>1. InFieldPicture(parms, at[1], at[2]) /\ m \in field_ME(parms, pict, at[1], at[2])
    BY <1>1, <1>3, PlacesAre DEF GoodPict, GoodParms, motion_estimation
  <2> QED BY <1>1, <1>3, <2>1, FieldsPredict
<1> QED BY <1>2, <1>3

(* Every macroblock that is not intra is predicted from just the blocks    *)
(* motion estimation measured it by, and those, with their chrominance,    *)
(* lie inside the reference picture: for pictures of any size, windows of  *)
(* any width, of frames and of fields, and all ways to predict.            *)
THEOREM PredictionIsAsSearched == Spec => []PredictedAsSearched
<1>1. Inv => PredictedAsSearched
  <2> SUFFICES ASSUME Inv, stage = "coding", NEW at \in MacroblocksOf(parms),
                      NEW m \in motion_estimation(parms, pict, at[1], at[2]), MB_INTRA \notin m.mb_type
               PROVE  LET blocks == predict_mb(parms, pict, at[1], at[2], m)
                      IN blocks = m.measured /\ \A b \in blocks : pred(parms, b)
    BY DEF PredictedAsSearched, EveryDecision
  <2> QED BY DecisionsAreGood DEF Predicts
<1> QED BY <1>1, Invariant, PTL

(* A window reduced to its f_code has no vector that cannot be written.    *)
LEMMA FittingIsWritten ==
  ASSUME NEW c, NEW d \in {Forw, Back}, CodeFits(c, d), NEW v, IsReached(v, c.window[d]),
         NEW axis \in {1, 2}
  PROVE  LET f == 2 ^ (c.codes[d][axis] - 1) IN v[axis] \in (-16 * f) .. (16 * f - 1)
<1> DEFINE n == c.codes[d][axis]
           s == c.window[d][axis]
           f == 2 ^ (n - 1)
           wide == 2 ^ n
<1>1. n \in 1 .. 9 /\ s \in Nat /\ s <= 4 * wide - 1
  BY DEF CodeFits, GoodMotion
<1>2. v[axis] \in -(2 * s + 1) .. (2 * s + 1)
  BY DEF IsReached
<1> HIDE DEF n
<1>3. f \in Nat \ {0} /\ wide = 2 * f
  BY <1>1, PowersAre
<1> HIDE DEF s, f, wide
<1>4. v[axis] \in (-16 * f) .. (16 * f - 1)
  BY <1>1, <1>2, <1>3
<1> QED BY <1>4 DEF f, n

(* However a vector is predicted, its difference has a code: every vector  *)
(* of every decision lies in the range of the picture's f_codes, as the    *)
(* search windows were reduced to them when the parameters were read.      *)
THEOREM VectorsAlwaysHaveCodes == Spec => []VectorsHaveCodes
<1>1. Inv => VectorsHaveCodes
  <2> DEFINE Flag(d) == IF d = Forw THEN MB_FORWARD ELSE MB_BACKWARD
  <2> SUFFICES ASSUME Inv, stage = "coding", NEW at \in MacroblocksOf(parms),
                      NEW m \in motion_estimation(parms, pict, at[1], at[2]),
                      NEW d \in {Forw, Back}, NEW r \in 1 .. (IF HasTwo(pict, m) THEN 2 ELSE 1),
                      NEW axis \in {1, 2}, Flag(d) \in m.mb_type
               PROVE  LET f == 2 ^ (pict.codes[d][axis] - 1)
                          v == AsWritten(pict, m, m[d].MV[r])[axis]
                      IN v \in (-16 * f) .. (16 * f - 1)
    BY DEF VectorsHaveCodes, EveryDecision
  <2>1. GoodPict(parms, pict) /\ (Uncoded(pict, d) \/ CodeFits(pict, d))
    BY CodingIsGood
  <2>2. MB_INTRA \notin m.mb_type /\ ~Uncoded(pict, d)
    BY <2>1, DirectionsAre, NamesDiffer DEF Uncoded
  <2>3. WayReaches(pict, m.motion_type, d, m[d])
    BY <2>2, DecisionsAreGood DEF Reaches
  <2>4. IsReached(AsWritten(pict, m, m[d].MV[r]), pict.window[d])
    <3>1. PICK v : /\ IsVector(v) /\ IsReached(v, pict.window[d])
                   /\ m[d].MV[r] = Kept(pict, m.motion_type, v)
      BY <2>3 DEF WayReaches, HasTwo, TwoVectors
    <3>2. AsWritten(pict, m, m[d].MV[r]) = v
      BY <3>1, InFieldIs DEF AsWritten, Kept, IsHalved
    <3> QED BY <3>1, <3>2
  <2> QED BY <2>1, <2>2, <2>4, FittingIsWritten
<1> QED BY <1>1, Invariant, PTL

(***************************************************************************)
(* A vector is read as it was written: the encoder folds the difference    *)
(* from its prediction into the range of the f_code, the decoder the sum.  *)
(***************************************************************************)
LEMMA Division ==
  ASSUME NEW a \in Int, NEW m \in Nat \ {0}
  PROVE  a \div m \in Int /\ a % m \in 0 .. m - 1 /\ a = m * (a \div m) + (a % m)
OBVIOUS

(* The code of a size, and what is left over, tell it.                     *)
LEMMA SizeIsRead ==
  ASSUME NEW f \in Nat \ {0}, NEW size \in Nat
  PROVE  LET temp == size + f - 1
             code == temp \div f
         IN /\ code \in Nat /\ (code = 0 <=> size = 0)
            /\ size # 0 => (code - 1) * f + (temp % f) + 1 = size
<1> DEFINE temp == size + f - 1
           code == temp \div f
           rest == temp % f
<1>1. code \in Int /\ rest \in 0 .. f - 1 /\ temp = f * code + rest
  <2>1. temp \in Int
    OBVIOUS
  <2> HIDE DEF temp
  <2> QED BY <2>1, Division
<1> HIDE DEF code, rest
<1>2. code >= 0
  <2> SUFFICES ASSUME code <= -1 PROVE FALSE
    BY <1>1
  <2>1. f * code <= -f
    BY <1>1
  <2> QED BY <1>1, <2>1
<1>3. code = 0 => size = 0
  BY <1>1
<1>4. size = 0 => code = 0
  <2> SUFFICES ASSUME size = 0, code >= 1 PROVE FALSE
    BY <1>1, <1>2
  <2>1. f * code >= f
    BY <1>1
  <2> QED BY <1>1, <2>1
<1>5. (code - 1) * f + rest + 1 = size
  <2>1. (code - 1) * f = f * code - f
    BY <1>1
  <2> QED BY <1>1, <2>1
<1>6. /\ code \in Nat /\ (code = 0 <=> size = 0)
      /\ size # 0 => (code - 1) * f + rest + 1 = size
  BY <1>1, <1>2, <1>3, <1>4, <1>5
<1> QED BY <1>6 DEF code, rest

LEMMA VectorIsRead ==
  ASSUME NEW n \in 1 .. 9, NEW v, NEW from \in Int,
         LET f == 2 ^ (n - 1) IN v \in (-16 * f) .. (16 * f - 1) /\ from \in (-32 * f) .. (32 * f)
  PROVE  Decoded(putmv(v - from, n), from, n) = v
<1> DEFINE f == 2 ^ (n - 1)
           dmv == v - from
           folded == IF dmv > 16 * f - 1 THEN dmv - 32 * f
                     ELSE IF dmv < -16 * f THEN dmv + 32 * f ELSE dmv
           size == IF folded < 0 THEN -folded ELSE folded
           code == (size + f - 1) \div f
           word == putmv(dmv, n)
<1>1. f \in Nat \ {0}
  BY PowersAre
<1>2. /\ word.motion_code = IF folded < 0 THEN -code ELSE code
      /\ word.motion_residual = (size + f - 1) % f
  BY DEF putmv
<1> DEFINE sign == word.motion_code
           sum == from + (IF sign = 0 THEN 0
                          ELSE IF sign < 0 THEN -(((IF sign < 0 THEN -sign ELSE sign) - 1) * f + word.motion_residual + 1)
                          ELSE ((IF sign < 0 THEN -sign ELSE sign) - 1) * f + word.motion_residual + 1)
<1>3. Decoded(word, from, n) = IF sum < -16 * f THEN sum + 32 * f ELSE IF sum > 16 * f - 1 THEN sum - 32 * f ELSE sum
  BY DEF Decoded
<1> HIDE DEF f, word
<1>4. folded \in Int /\ size \in Nat /\ folded \in {dmv, dmv - 32 * f, dmv + 32 * f}
  BY <1>1
<1>5. /\ code \in Nat /\ (code = 0 <=> size = 0)
      /\ size # 0 => (code - 1) * f + word.motion_residual + 1 = size
  <2>1. word.motion_residual = (size + f - 1) % f /\ size \in Nat
    BY <1>2, <1>4
  <2> HIDE DEF size
  <2> QED BY <1>1, <2>1, SizeIsRead
<1> HIDE DEF code
<1>6. sum = from + folded
  <2>1. CASE folded = 0
    BY <1>2, <1>5, <2>1
  <2>2. CASE folded > 0
    BY <1>2, <1>4, <1>5, <2>2
  <2>3. CASE folded < 0
    <3>1. code \in Nat /\ code # 0 /\ sign = -code /\ sign < 0 /\ -sign = code
      BY <1>2, <1>4, <1>5, <2>3
    <3> QED BY <1>4, <1>5, <2>3, <3>1
  <2> QED BY <1>4, <2>1, <2>2, <2>3
<1> HIDE DEF sum
<1>7. v \in -16 * f .. 16 * f - 1 /\ from \in -32 * f .. 32 * f
  BY DEF f
<1>8. Decoded(word, from, n) = v
  BY <1>1, <1>3, <1>6, <1>7
<1> QED BY <1>8 DEF word

(***************************************************************************)
(* Quantisers and f_codes are read as they were written.                   *)
(***************************************************************************)
LEMMA MinIs ==
  ASSUME NEW S, S \subseteq Int, NEW x \in S, \A y \in S : x <= y
  PROVE  Min(S) = x
<1>1. \A z \in S : (\A y \in S : z <= y) => z = x
  OBVIOUS
<1> QED BY <1>1 DEF Min

(* The last quantiser of each code, and the one the code stands for.       *)
LastOf ==
  <<1, 2, 3, 4, 5, 6, 7, 9, 11, 13, 15, 17, 19, 21, 23, 26,
    29, 33, 37, 41, 45, 49, 53, 60, 67, 75, 83, 90, 100, 107, 112>>

LEMMA LastAre ==
  /\ DOMAIN LastOf = 1 .. 31
  /\ LastOf[1] = 1 /\ LastOf[2] = 2 /\ LastOf[3] = 3 /\ LastOf[4] = 4 /\ LastOf[5] = 5
  /\ LastOf[6] = 6 /\ LastOf[7] = 7 /\ LastOf[8] = 9 /\ LastOf[9] = 11 /\ LastOf[10] = 13
  /\ LastOf[11] = 15 /\ LastOf[12] = 17 /\ LastOf[13] = 19 /\ LastOf[14] = 21 /\ LastOf[15] = 23
  /\ LastOf[16] = 26 /\ LastOf[17] = 29 /\ LastOf[18] = 33 /\ LastOf[19] = 37 /\ LastOf[20] = 41
  /\ LastOf[21] = 45 /\ LastOf[22] = 49 /\ LastOf[23] = 53 /\ LastOf[24] = 60 /\ LastOf[25] = 67
  /\ LastOf[26] = 75 /\ LastOf[27] = 83 /\ LastOf[28] = 90 /\ LastOf[29] = 100 /\ LastOf[30] = 107
  /\ LastOf[31] = 112
  BY DEF LastOf

LEMMA TableIs ==
  LET t == non_linear_mquant_table IN
  /\ t[2] = 1 /\ t[3] = 2 /\ t[4] = 3 /\ t[5] = 4 /\ t[6] = 5 /\ t[7] = 6 /\ t[8] = 7 /\ t[9] = 8
  /\ t[10] = 10 /\ t[11] = 12 /\ t[12] = 14 /\ t[13] = 16 /\ t[14] = 18 /\ t[15] = 20 /\ t[16] = 22
  /\ t[17] = 24 /\ t[18] = 28 /\ t[19] = 32 /\ t[20] = 36 /\ t[21] = 40 /\ t[22] = 44 /\ t[23] = 48
  /\ t[24] = 52 /\ t[25] = 56 /\ t[26] = 64 /\ t[27] = 72 /\ t[28] = 80 /\ t[29] = 88 /\ t[30] = 96
  /\ t[31] = 104 /\ t[32] = 112
  BY DEF non_linear_mquant_table

(* The quantiser a code stands for is among those the code is given to:    *)
(* above the last of the code before, and not above its own.               *)
Before(code) == IF code = 1 THEN 0 ELSE LastOf[code - 1]

LEMMA StandsAmongIts ==
  ASSUME NEW code \in 1 .. 31
  PROVE  /\ LastOf[code] \in 1 .. 112 /\ Before(code) \in 0 .. 111 /\ Before(code) < LastOf[code]
         /\ non_linear_mquant_table[1 + code] \in (Before(code) + 1) .. LastOf[code]
<1>1. code \in {1, 2, 3, 4, 5, 6, 7, 8, 9, 10, 11, 12, 13, 14, 15, 16, 17, 18, 19, 20,
               21, 22, 23, 24, 25, 26, 27, 28, 29, 30, 31}
  OBVIOUS
<1> QED BY <1>1, LastAre, TableIs DEF Before

LEMMA Ascending ==
  ASSUME NEW a \in 1 .. 31, NEW b \in 1 .. 31, a < b
  PROVE  LastOf[a] <= Before(b)
<1>1. b \in {1, 2, 3, 4, 5, 6, 7, 8, 9, 10, 11, 12, 13, 14, 15, 16, 17, 18, 19, 20,
               21, 22, 23, 24, 25, 26, 27, 28, 29, 30, 31}
  OBVIOUS
<1> QED BY <1>1, LastAre DEF Before

LEMMA CodeIs ==
  ASSUME NEW code \in 1 .. 31, NEW mquant \in (Before(code) + 1) .. LastOf[code]
  PROVE  map_non_linear_mquant[mquant] = code
<1> DEFINE S == {c \in DOMAIN LastOf : mquant <= LastOf[c]}
<1>1. LastOf[code] \in 1 .. 112 /\ Before(code) \in 0 .. 111
  BY StandsAmongIts
<1>2. mquant \in 1 .. 112
  BY <1>1
<1>3. map_non_linear_mquant[mquant] = Min(S)
  BY <1>2 DEF map_non_linear_mquant, LastOf
<1>4. S \subseteq Int /\ code \in S
  BY <1>1, LastAre
<1>5. ASSUME NEW c \in S PROVE code <= c
  <2>1. c \in 1 .. 31 /\ mquant <= LastOf[c]
    BY LastAre
  <2>2. CASE c < code
    <3>1. LastOf[c] <= Before(code)
      BY <2>1, <2>2, Ascending
    <3>2. LastOf[c] \in Int
      BY <2>1, StandsAmongIts
    <3> QED BY <1>1, <2>1, <3>1, <3>2
  <2> QED BY <2>1, <2>2
<1> HIDE DEF S
<1> QED BY <1>3, <1>4, <1>5, MinIs

LEMMA SomeCode ==
  ASSUME NEW mquant \in 1 .. 112
  PROVE  \E code \in 1 .. 31 : mquant \in (Before(code) + 1) .. LastOf[code]
  BY LastAre, SMTT(60) DEF Before

(* Whatever the rate control asks for, the five bits tell its quantiser.   *)
LEMMA DemandIsRead ==
  ASSUME NEW q_scale_type, NEW n \in Int
  PROVE  LET mquant == rc_calc_mquant(q_scale_type, n)
             code == quantiser_scale_code(q_scale_type, mquant)
         IN code # 0 /\ QuantiserRead(q_scale_type, code) = mquant
<1> DEFINE mquant == rc_calc_mquant(q_scale_type, n)
           code == quantiser_scale_code(q_scale_type, mquant)
<1>0. 2 ^ 5 = 32
  OBVIOUS
<1>1. CASE q_scale_type
  <2> DEFINE asked == Clipped(n, 1, 112)
  <2>1. asked \in 1 .. 112
    BY DEF Clipped
  <2> HIDE DEF asked
  <2>2. PICK c \in 1 .. 31 : asked \in (Before(c) + 1) .. LastOf[c]
    BY <2>1, SomeCode
  <2>3. map_non_linear_mquant[asked] = c
    BY <2>2, CodeIs
  <2>4. mquant = non_linear_mquant_table[1 + c]
    BY <1>1, <2>3 DEF rc_calc_mquant, asked
  <2>5. map_non_linear_mquant[mquant] = c
    <3>1. mquant \in (Before(c) + 1) .. LastOf[c]
      BY <2>4, StandsAmongIts
    <3> HIDE DEF mquant
    <3> QED BY <3>1, CodeIs
  <2>6. code = c
    <3>1. code = c % 32
      BY <1>0, <1>1, <2>5 DEF quantiser_scale_code, putbits
    <3> QED BY <3>1
  <2>7. QuantiserRead(q_scale_type, code) = non_linear_mquant_table[1 + c]
    BY <1>1, <2>6 DEF QuantiserRead
  <2> QED BY <2>4, <2>6, <2>7
<1>2. CASE ~q_scale_type
  <2> DEFINE half == IF n < 1 THEN 1 ELSE IF n > 31 THEN 31 ELSE n
  <2>1. mquant = 2 * half /\ half \in 1 .. 31
    BY <1>2 DEF rc_calc_mquant, Clipped
  <2> HIDE DEF half
  <2>2. code = (mquant \div 2) % 32
    BY <1>0, <1>2 DEF quantiser_scale_code, putbits
  <2>3. code = half
    BY <2>1, <2>2
  <2>4. QuantiserRead(q_scale_type, code) = 2 * code
    BY <1>2 DEF QuantiserRead
  <2> QED BY <2>1, <2>3, <2>4
<1> QED BY <1>1, <1>2

LEMMA QuantiserIsRead ==
  ASSUME NEW c, NEW mquant \in Quantisers(c)
  PROVE  QuantiserRead(c.q_scale_type, quantiser_scale_code(c.q_scale_type, mquant)) = mquant
<1>1. PICK n \in Demands : mquant = rc_calc_mquant(c.q_scale_type, n)
  BY DEF Quantisers
<1> QED BY <1>1, DemandIsRead, DemandsAssumption

LEMMA QuantisersAreRead ==
  ASSUME NEW p
  PROVE  \A t \in PictTypes, n \in 0 .. 113 :
           LET q == p.qscale_tab[t]
               code == quantiser_scale_code(q, rc_calc_mquant(q, n))
           IN code # 0 /\ QuantiserRead(q, code) = rc_calc_mquant(q, n)
  BY DemandIsRead

LEMMA CodesAreRead ==
  ASSUME NEW p, GoodMotions(p), IsFollowable(p), NEW c, NEW d \in {Forw, Back},
         CodeFits(c, d), IsUsed(p, c, d), NEW axis \in {1, 2}
  PROVE  CodesRead(p, c)[d][axis] = c.codes[d][axis]
<1> DEFINE code == c.codes[d]
<1>0. 2 ^ 3 = 8 /\ 2 ^ 4 = 16
  OBVIOUS
<1>1. code[1] \in 1 .. 9 /\ code[2] \in 1 .. 9
  BY DEF CodeFits, GoodMotion
<1>2. CASE p.mpeg1
  <2>1. PICK n : <<n, d>> \in Uses(p) /\ code = p.motion_data[n][d].code
    BY DEF IsUsed
  <2>2. <<n, d>>[1] = n /\ <<n, d>>[2] = d
    OBVIOUS
  <2>3. code[1] <= 7 /\ code[1] = code[2]
    <3>1. \A u \in Uses(p) : p.motion_data[u[1]][u[2]].code[1] <= 7
      BY <1>2 DEF GoodMotions
    <3>2. \A u \in Uses(p) : p.motion_data[u[1]][u[2]].code[1] = p.motion_data[u[1]][u[2]].code[2]
      BY <1>2 DEF IsFollowable
    <3> QED BY <2>1, <2>2, <3>1, <3>2
  <2>4. CodesRead(p, c)[d] = <<code[1] % 8, code[1] % 8>>
    BY <1>0, <1>2, NamesDiffer
       DEF CodesRead, simpeg_encode_putpicthdr, putbits, Forw, Back
  <2>5. code[1] % 8 = code[1]
    BY <1>1, <2>3
  <2> QED BY <2>3, <2>4, <2>5
<1>3. CASE ~p.mpeg1
  <2>1. CodesRead(p, c)[d][axis] = code[axis] % 16
    BY <1>0, <1>3 DEF CodesRead, simpeg_encode_putpictcodext, putbits
  <2> QED BY <1>1, <2>1
<1> QED BY <1>2, <1>3

(***************************************************************************)
(* What is decided for a macroblock that is predicted.                     *)
(***************************************************************************)
Flag(d) == IF d = Forw THEN MB_FORWARD ELSE MB_BACKWARD

(* A macroblock of a P picture may have a vector of zero to be left out.   *)
HasVector(c, type, d) == Flag(d) \in type \/ (c.type = P_TYPE /\ d = Forw)

MotionTypes(c) ==
  IF c.struct = FRAME_PICTURE THEN {MC_FRAME, MC_FIELD, MC_DMV} ELSE {MC_FIELD, MC_16X8, MC_DMV}

StillMotion(c) == IF c.struct = FRAME_PICTURE THEN MC_FRAME ELSE MC_FIELD

IsDecision(c, m) ==
  /\ \/ c.type = P_TYPE /\ m.mb_type \in {{}, {MB_FORWARD}}
     \/ c.type = B_TYPE /\ m.mb_type \in {{MB_FORWARD}, {MB_BACKWARD}, {MB_FORWARD, MB_BACKWARD}}
  /\ \A d \in {Forw, Back} : HasVector(c, m.mb_type, d) => WayReaches(c, m.motion_type, d, m[d])
  /\ m.motion_type \in MotionTypes(c)
  /\ MB_BACKWARD \in m.mb_type => m.motion_type # MC_DMV
  /\ c.struct = FRAME_PICTURE /\ c.frame_pred_dct => m.motion_type = MC_FRAME
  /\ m.mb_type = {} =>
       m.motion_type = StillMotion(c) /\ m[Forw].MV[1] = Zero /\ m[Forw].sel[1] = Own(c)

LEMMA MotionsAre ==
  ASSUME NEW m, NEW motion, NEW F, NEW B
  PROVE  /\ m \in {Forward(motion, f) : f \in F} => m.mb_type = {MB_FORWARD} /\ m.motion_type = motion
         /\ m \in Either(motion, F, B) => m.motion_type = motion
         /\ m \in DualPrime(F) => m.mb_type = {MB_FORWARD} /\ m.motion_type = MC_DMV
<1>1. ASSUME m \in {Forward(motion, f) : f \in F}
      PROVE  m.mb_type = {MB_FORWARD} /\ m.motion_type = motion
  <2>1. PICK f \in F : m = Mb({MB_FORWARD}, motion, f, NoWay, Unset)
    BY <1>1 DEF Forward
  <2> QED BY <2>1, MbIs
<1>2. ASSUME m \in Either(motion, F, B)
      PROVE  m.motion_type = motion
  <2>1. \/ m \in {Forward(motion, f) : f \in F}
        \/ m \in {Backward(motion, b) : b \in B}
        \/ m \in Interpolated(motion, F, B)
    BY <1>2 DEF Either
  <2>2. \E type, f, b, dmv : m = Mb(type, motion, f, b, dmv)
    <3>1. CASE m \in {Forward(motion, f) : f \in F}
      BY <3>1 DEF Forward
    <3>2. CASE m \in {Backward(motion, b) : b \in B}
      BY <3>2 DEF Backward
    <3>3. CASE m \in Interpolated(motion, F, B)
      BY <3>3 DEF Interpolated
    <3> QED BY <2>1, <3>1, <3>2, <3>3
  <2> QED BY <2>2, MbIs
<1>3. ASSUME m \in DualPrime(F)
      PROVE  m.mb_type = {MB_FORWARD} /\ m.motion_type = MC_DMV
  <2>1. PICK w \in F : m = Mb({MB_FORWARD}, MC_DMV, Way(w.MV, Unset, <<0, 0>>, w.blocks), NoWay, w.dmvector)
    BY <1>3 DEF DualPrime
  <2> QED BY <2>1, MbIs
<1> QED BY <1>1, <1>2, <1>3

(* A macroblock that is left as it was.                                    *)
LEMMA BypassedIs ==
  ASSUME NEW p, NEW c, GoodPict(p, c), c.type = P_TYPE, NEW m, NEW here,
         m = Mb({}, StillMotion(c), Way(Zero, Unset, <<Own(c), 0>>, here), NoWay, Unset)
  PROVE  IsDecision(c, m)
<1> DEFINE way == Way(Zero, Unset, <<Own(c), 0>>, here)
<1>1. way.MV = <<Zero, Unset>> /\ way.MV[1] = Zero /\ way.sel[1] = Own(c)
  BY DEF Way
<1> HIDE DEF way
<1>2. m.mb_type = {} /\ m.motion_type = StillMotion(c) /\ m[Forw] = way
  BY MbIs DEF way
<1>3. WayReaches(c, StillMotion(c), Forw, way)
  <2>1. StillMotion(c) # TwoVectors(c) /\ Kept(c, StillMotion(c), Zero) = Zero
    BY NamesDiffer DEF StillMotion, TwoVectors, Kept, IsHalved
  <2>2. IsVector(Zero)
    BY DEF IsVector, Zero
  <2>3. IsReached(Zero, c.window[Forw])
    BY DEF GoodPict, HasWindow, IsReached, Zero
  <2> QED BY <1>1, <2>1, <2>2, <2>3, OneReaches
<1>4. StillMotion(c) \in MotionTypes(c) /\ (c.struct = FRAME_PICTURE => StillMotion(c) = MC_FRAME)
  BY DEF StillMotion, MotionTypes
<1>5. \A d \in {Forw, Back} : HasVector(c, {}, d) => d = Forw
  BY DEF HasVector
<1> QED BY <1>1, <1>2, <1>3, <1>4, <1>5 DEF IsDecision

LEMMA DecisionIs ==
  ASSUME NEW p, NEW c, NEW i, NEW j, GoodPict(p, c), NEW m \in motion_estimation(p, c, i, j),
         MB_INTRA \notin m.mb_type, Reaches(c, m)
  PROVE  IsDecision(c, m)
<1>0. m # Intra /\ m # [Intra EXCEPT !.measured = {Anywhere}]
  BY IntraTypes
<1>1. \/ c.type = P_TYPE /\ m.mb_type \in {{}, {MB_FORWARD}}
      \/ c.type = B_TYPE /\ m.mb_type \in {{MB_FORWARD}, {MB_BACKWARD}, {MB_FORWARD, MB_BACKWARD}}
  BY DirectionsAre
<1> DEFINE IsMotion(motion) ==
             /\ motion \in MotionTypes(c)
             /\ c.struct = FRAME_PICTURE /\ c.frame_pred_dct => motion = MC_FRAME
<1>2. ASSUME m.mb_type # {}, IsMotion(m.motion_type), MB_BACKWARD \in m.mb_type => m.motion_type # MC_DMV
      PROVE  IsDecision(c, m)
  <2>1. \A d \in {Forw, Back} : HasVector(c, m.mb_type, d) => Flag(d) \in m.mb_type
    BY <1>1, <1>2, NamesDiffer DEF HasVector, Flag
  <2> QED BY <1>1, <1>2, <2>1 DEF IsDecision, Reaches, Flag
<1>3. CASE c.type = P_TYPE /\ c.struct = FRAME_PICTURE
  <2> DEFINE here == {Block("old", Both, All, i, j, Zero, 16)}
             bypassed == Mb({}, MC_FRAME, Way(Zero, Unset, <<0, 0>>, here), NoWay, Unset)
  <2>1. m \in FrameP(p, c, i, j)
    BY <1>3, NamesDiffer DEF motion_estimation, frame_ME
  <2>2. \/ m \in {Intra, bypassed}
        \/ m \in {Forward(MC_FRAME, f) : f \in FrameWays(p, c, i, j, Forw)}
        \/ ~c.frame_pred_dct /\ m \in {Forward(MC_FIELD, f) : f \in frame_estimate(p, c, i, j, Forw)}
        \/ ~c.frame_pred_dct /\ m \in DualPrime(dpframe_estimate(p, c, i, j))
        \/ m \in {[Intra EXCEPT !.measured = {Anywhere}]}
    BY <2>1 DEF FrameP
  <2>3. CASE m = bypassed
    <3>1. MC_FRAME = StillMotion(c) /\ 0 = Own(c)
      BY <1>3, NamesDiffer DEF StillMotion, Own
    <3>2. m = Mb({}, StillMotion(c), Way(Zero, Unset, <<Own(c), 0>>, here), NoWay, Unset)
      BY <2>3, <3>1
    <3> HIDE DEF here
    <3> QED BY <1>3, <3>2, BypassedIs
  <2>4. \A motion \in {MC_FRAME, MC_FIELD, MC_DMV} : motion \in MotionTypes(c)
    BY <1>3 DEF MotionTypes
  <2> HIDE DEF bypassed
  <2>5. CASE m # bypassed
    <3>1. m.mb_type = {MB_FORWARD} /\ IsMotion(m.motion_type)
      BY <1>0, <2>2, <2>4, <2>5, MotionsAre
    <3> QED BY <1>2, <3>1, NamesDiffer
  <2> QED BY <2>3, <2>5
<1>4. CASE c.type = P_TYPE /\ c.struct # FRAME_PICTURE
  <2> DEFINE here == {Block("old", Own(c), All, i, j, Zero, 16)}
             bypassed == Mb({}, MC_FIELD, Way(Zero, Unset, <<Own(c), 0>>, here), NoWay, Unset)
  <2>1. m \in FieldP(p, c, i, j)
    BY <1>4, NamesDiffer DEF motion_estimation, field_ME
  <2>2. \/ m \in {Intra, bypassed}
        \/ m \in {Forward(MC_FIELD, f) : f \in FieldWays(p, c, i, j, Forw)}
        \/ m \in {Forward(MC_16X8, f) : f \in HalvesWays(p, c, i, j, Forw)}
        \/ m \in DualPrime(dpfield_estimate(p, c, i, j))
    BY <2>1 DEF FieldP
  <2>3. CASE m = bypassed
    <3>1. MC_FIELD = StillMotion(c)
      BY <1>4 DEF StillMotion
    <3>2. m = Mb({}, StillMotion(c), Way(Zero, Unset, <<Own(c), 0>>, here), NoWay, Unset)
      BY <2>3, <3>1
    <3> HIDE DEF here
    <3> QED BY <1>4, <3>2, BypassedIs
  <2>4. \A motion \in {MC_FIELD, MC_16X8, MC_DMV} : motion \in MotionTypes(c)
    BY <1>4 DEF MotionTypes
  <2> HIDE DEF bypassed
  <2>5. CASE m # bypassed
    <3>1. m.mb_type = {MB_FORWARD} /\ IsMotion(m.motion_type)
      BY <1>0, <1>4, <2>2, <2>4, <2>5, MotionsAre
    <3> QED BY <1>2, <3>1, NamesDiffer
  <2> QED BY <2>3, <2>5
<1>5. CASE c.type = B_TYPE
  <2>1. PICK motion : /\ IsMotion(motion) /\ motion # MC_DMV
                      /\ \E F, B : m \in Either(motion, F, B)
    <3>1. CASE c.struct = FRAME_PICTURE
      <4>1. m \in FrameB(p, c, i, j)
        BY <1>5, <3>1, NamesDiffer DEF motion_estimation, frame_ME
      <4>2. \/ m \in Either(MC_FRAME, FrameWays(p, c, i, j, Forw), FrameWays(p, c, i, j, Back))
            \/ /\ ~c.frame_pred_dct
               /\ m \in Either(MC_FIELD, frame_estimate(p, c, i, j, Forw), frame_estimate(p, c, i, j, Back))
        BY <1>0, <4>1 DEF FrameB
      <4>3. \A motion \in {MC_FRAME, MC_FIELD} : motion \in MotionTypes(c)
        BY <3>1 DEF MotionTypes
      <4> QED BY <4>2, <4>3, NamesDiffer
    <3>2. CASE c.struct # FRAME_PICTURE
      <4>1. m \in FieldB(p, c, i, j)
        BY <1>5, <3>2, NamesDiffer DEF motion_estimation, field_ME
      <4>2. \/ m \in Either(MC_FIELD, FieldWays(p, c, i, j, Forw), FieldWays(p, c, i, j, Back))
            \/ m \in Either(MC_16X8, HalvesWays(p, c, i, j, Forw), HalvesWays(p, c, i, j, Back))
        BY <1>0, <4>1 DEF FieldB
      <4>3. \A motion \in {MC_FIELD, MC_16X8} : motion \in MotionTypes(c)
        BY <3>2 DEF MotionTypes
      <4> QED BY <3>2, <4>2, <4>3, NamesDiffer
    <3> QED BY <3>1, <3>2
  <2>2. m.motion_type = motion
    BY <2>1, MotionsAre
  <2> QED BY <1>1, <1>2, <1>5, <2>1, <2>2, NamesDiffer
<1> QED BY <1>1, <1>3, <1>4, <1>5

(***************************************************************************)
(* predict_mb() only looks at what a macroblock's type calls for.          *)
(***************************************************************************)
AlikeIn(c, m, n, d) ==
  /\ n[d].MV[1] = m[d].MV[1]
  /\ m.motion_type = TwoVectors(c) => n[d].MV[2] = m[d].MV[2] /\ n[d].sel = m[d].sel
  /\ c.struct # FRAME_PICTURE => n[d].sel[1] = m[d].sel[1]

IsAlike(c, m, n) ==
  /\ MB_INTRA \notin m.mb_type /\ MB_INTRA \notin n.mb_type
  /\ m.motion_type \in MotionTypes(c) /\ n.motion_type = m.motion_type
  /\ MB_BACKWARD \in n.mb_type <=> MB_BACKWARD \in m.mb_type
  /\ MB_BACKWARD \in m.mb_type => m.motion_type # MC_DMV
  /\ \/ MB_FORWARD \in n.mb_type <=> MB_FORWARD \in m.mb_type
     \/ c.type = P_TYPE /\ m.motion_type = StillMotion(c)
  /\ \A d \in {Forw, Back} : HasVector(c, m.mb_type, d) => AlikeIn(c, m, n, d)
  /\ m.motion_type = MC_DMV => n.dmvector = m.dmvector

LEMMA calc_DMVAlike ==
  ASSUME NEW p, NEW c, NEW m, NEW n, n.forw.MV[1] = m.forw.MV[1], n.dmvector = m.dmvector
  PROVE  calc_DMV(p, c, n) = calc_DMV(p, c, m)
  BY DEF calc_DMV

LEMMA ForwardAlike ==
  ASSUME NEW p, NEW c, NEW i, NEW j, NEW m, NEW n, IsAlike(c, m, n), HasVector(c, m.mb_type, Forw)
  PROVE  ForwardBlocks(p, c, i, j, n) = ForwardBlocks(p, c, i, j, m)
<1> DEFINE motion == m.motion_type
           isForward == MB_FORWARD \in m.mb_type
<1>1. /\ n.forw.MV[1] = m.forw.MV[1]
      /\ motion = TwoVectors(c) => n.forw.MV[2] = m.forw.MV[2] /\ n.forw.sel = m.forw.sel
      /\ c.struct # FRAME_PICTURE => n.forw.sel[1] = m.forw.sel[1]
      /\ n.motion_type = motion /\ motion \in MotionTypes(c)
  <2>1. AlikeIn(c, m, n, Forw)
    BY DEF IsAlike
  <2> QED BY <2>1 DEF AlikeIn, IsAlike, Forw
<1>2. (MB_FORWARD \in n.mb_type <=> isForward) \/ motion = StillMotion(c)
  BY DEF IsAlike
<1>3. motion = MC_DMV => calc_DMV(p, c, n) = calc_DMV(p, c, m)
  BY <1>1, calc_DMVAlike DEF IsAlike
<1> HIDE DEF motion, isForward
<1>4. CASE c.struct = FRAME_PICTURE
  <2>1. FrameForward(p, c, i, j, n) = FrameForward(p, c, i, j, m)
    <3>1. CASE motion = MC_FRAME \/ ~isForward
      <4>1. motion = MC_FRAME \/ (MB_FORWARD \notin n.mb_type /\ ~isForward)
        BY <1>2, <1>4, <3>1 DEF StillMotion
      <4>2. FrameForward(p, c, i, j, m) = {Block("old", Both, All, i, j, m.forw.MV[1], 16)}
        BY <3>1, NamesDiffer DEF FrameForward, motion, isForward
      <4>3. FrameForward(p, c, i, j, n) = {Block("old", Both, All, i, j, n.forw.MV[1], 16)}
        BY <1>1, <4>1, NamesDiffer DEF FrameForward
      <4> QED BY <1>1, <4>2, <4>3
    <3>2. CASE motion = MC_FIELD /\ isForward
      <4>1. MB_FORWARD \in n.mb_type
        BY <1>2, <1>4, <3>2, NamesDiffer DEF StillMotion
      <4>2. \A r \in {1, 2} : n.forw.MV[r] = m.forw.MV[r] /\ n.forw.sel[r] = m.forw.sel[r]
        BY <1>1, <1>4, <3>2 DEF TwoVectors
      <4>3. FrameForward(p, c, i, j, m) =
              {Block("old", m.forw.sel[r], r, i, j \div 2, InField(m.forw.MV[r]), 8) : r \in {1, 2}}
        BY <3>2, NamesDiffer DEF FrameForward, motion, isForward
      <4>4. FrameForward(p, c, i, j, n) =
              {Block("old", n.forw.sel[r], r, i, j \div 2, InField(n.forw.MV[r]), 8) : r \in {1, 2}}
        BY <1>1, <3>2, <4>1, NamesDiffer DEF FrameForward
      <4> QED BY <4>2, <4>3, <4>4
    <3>3. CASE motion = MC_DMV /\ isForward
      <4>1. MB_FORWARD \in n.mb_type
        BY <1>2, <1>4, <3>3, NamesDiffer DEF StillMotion
      <4> DEFINE Blocks(v, both) ==
                   {Block("old", f - 1, f, i, j \div 2, InField(v), 8) : f \in {1, 2}} \cup
                   {Block("old", 2 - f, f, i, j \div 2, both[f], 8) : f \in {1, 2}}
      <4>2. FrameForward(p, c, i, j, m) = Blocks(m.forw.MV[1], calc_DMV(p, c, m))
        BY <3>3, NamesDiffer DEF FrameForward, motion, isForward
      <4>3. FrameForward(p, c, i, j, n) = Blocks(n.forw.MV[1], calc_DMV(p, c, n))
        BY <1>1, <3>3, <4>1, NamesDiffer DEF FrameForward
      <4> HIDE DEF Blocks
      <4> QED BY <1>1, <1>3, <3>3, <4>2, <4>3
    <3> QED BY <1>1, <1>4, <3>1, <3>2, <3>3 DEF MotionTypes
  <2> QED BY <1>4, <2>1 DEF ForwardBlocks
<1>5. CASE c.struct # FRAME_PICTURE
  <2>1. FieldForward(p, c, i, j, n) = FieldForward(p, c, i, j, m)
    <3>1. CASE motion = MC_FIELD \/ ~isForward
      <4>1. motion = MC_FIELD \/ (MB_FORWARD \notin n.mb_type /\ ~isForward)
        BY <1>2, <1>5, <3>1 DEF StillMotion
      <4>2. FieldForward(p, c, i, j, m) =
              {Block(PredFrame(c, m.forw.sel[1]), m.forw.sel[1], All, i, j, m.forw.MV[1], 16)}
        BY <3>1, NamesDiffer DEF FieldForward, motion, isForward
      <4>3. FieldForward(p, c, i, j, n) =
              {Block(PredFrame(c, n.forw.sel[1]), n.forw.sel[1], All, i, j, n.forw.MV[1], 16)}
        BY <1>1, <4>1, NamesDiffer DEF FieldForward
      <4> QED BY <1>1, <1>5, <4>2, <4>3
    <3>2. CASE motion = MC_16X8 /\ isForward
      <4>1. MB_FORWARD \in n.mb_type
        BY <1>2, <1>5, <3>2, NamesDiffer DEF StillMotion
      <4>2. \A r \in {1, 2} : n.forw.MV[r] = m.forw.MV[r] /\ n.forw.sel[r] = m.forw.sel[r]
        BY <1>1, <1>5, <3>2 DEF TwoVectors
      <4>3. FieldForward(p, c, i, j, m) =
              {Block(PredFrame(c, m.forw.sel[r]), m.forw.sel[r], r, i, j + 8 * (r - 1), m.forw.MV[r], 8) :
                 r \in {1, 2}}
        BY <3>2, NamesDiffer DEF FieldForward, motion, isForward
      <4>4. FieldForward(p, c, i, j, n) =
              {Block(PredFrame(c, n.forw.sel[r]), n.forw.sel[r], r, i, j + 8 * (r - 1), n.forw.MV[r], 8) :
                 r \in {1, 2}}
        BY <1>1, <3>2, <4>1, NamesDiffer DEF FieldForward
      <4> QED BY <4>2, <4>3, <4>4
    <3>3. CASE motion = MC_DMV /\ isForward
      <4>1. MB_FORWARD \in n.mb_type
        BY <1>2, <1>5, <3>3, NamesDiffer DEF StillMotion
      <4> DEFINE Blocks(v, both) ==
                   {Block("old", Own(c), All, i, j, v, 16),
                    Block(IF c.second THEN "same" ELSE "old", 1 - Own(c), All, i, j, both[1], 16)}
      <4>2. FieldForward(p, c, i, j, m) = Blocks(m.forw.MV[1], calc_DMV(p, c, m))
        BY <3>3, NamesDiffer DEF FieldForward, motion, isForward
      <4>3. FieldForward(p, c, i, j, n) = Blocks(n.forw.MV[1], calc_DMV(p, c, n))
        BY <1>1, <3>3, <4>1, NamesDiffer DEF FieldForward
      <4> HIDE DEF Blocks
      <4> QED BY <1>1, <1>3, <3>3, <4>2, <4>3
    <3> QED BY <1>1, <1>5, <3>1, <3>2, <3>3 DEF MotionTypes
  <2> QED BY <1>5, <2>1 DEF ForwardBlocks
<1> QED BY <1>4, <1>5

LEMMA BackwardAlike ==
  ASSUME NEW p, NEW c, NEW i, NEW j, NEW m, NEW n, IsAlike(c, m, n), MB_BACKWARD \in m.mb_type
  PROVE  BackwardBlocks(p, c, i, j, n) = BackwardBlocks(p, c, i, j, m)
<1> DEFINE motion == m.motion_type
<1>1. /\ n.back.MV[1] = m.back.MV[1]
      /\ motion = TwoVectors(c) => n.back.MV[2] = m.back.MV[2] /\ n.back.sel = m.back.sel
      /\ c.struct # FRAME_PICTURE => n.back.sel[1] = m.back.sel[1]
      /\ n.motion_type = motion /\ motion \in MotionTypes(c) /\ motion # MC_DMV
  <2>1. HasVector(c, m.mb_type, Back)
    BY NamesDiffer DEF HasVector, Flag
  <2>2. AlikeIn(c, m, n, Back)
    BY <2>1 DEF IsAlike
  <2> QED BY <2>2 DEF AlikeIn, IsAlike, Back
<1> HIDE DEF motion
<1>2. motion = TwoVectors(c) => \A r \in {1, 2} : n.back.MV[r] = m.back.MV[r] /\ n.back.sel[r] = m.back.sel[r]
  BY <1>1
<1>3. CASE motion = MC_FRAME
  BY <1>1, <1>3 DEF BackwardBlocks, motion
<1>4. CASE motion = MC_FIELD /\ c.struct = FRAME_PICTURE
  <2>1. BackwardBlocks(p, c, i, j, m) =
          {Block("next", m.back.sel[r], r, i, j \div 2, InField(m.back.MV[r]), 8) : r \in {1, 2}}
    BY <1>4, NamesDiffer DEF BackwardBlocks, motion
  <2>2. BackwardBlocks(p, c, i, j, n) =
          {Block("next", n.back.sel[r], r, i, j \div 2, InField(n.back.MV[r]), 8) : r \in {1, 2}}
    BY <1>1, <1>4, NamesDiffer DEF BackwardBlocks
  <2>3. motion = TwoVectors(c)
    BY <1>4 DEF TwoVectors
  <2> QED BY <1>2, <2>1, <2>2, <2>3
<1>5. CASE motion = MC_FIELD /\ c.struct # FRAME_PICTURE
  <2>1. BackwardBlocks(p, c, i, j, m) = {Block("next", m.back.sel[1], All, i, j, m.back.MV[1], 16)}
    BY <1>5, NamesDiffer DEF BackwardBlocks, motion
  <2>2. BackwardBlocks(p, c, i, j, n) = {Block("next", n.back.sel[1], All, i, j, n.back.MV[1], 16)}
    BY <1>1, <1>5, NamesDiffer DEF BackwardBlocks
  <2> QED BY <1>1, <1>5, <2>1, <2>2
<1>6. CASE motion = MC_16X8 /\ c.struct # FRAME_PICTURE
  <2>1. BackwardBlocks(p, c, i, j, m) =
          {Block("next", m.back.sel[r], r, i, j + 8 * (r - 1), m.back.MV[r], 8) : r \in {1, 2}}
    BY <1>6, NamesDiffer DEF BackwardBlocks, motion
  <2>2. BackwardBlocks(p, c, i, j, n) =
          {Block("next", n.back.sel[r], r, i, j + 8 * (r - 1), n.back.MV[r], 8) : r \in {1, 2}}
    BY <1>1, <1>6, NamesDiffer DEF BackwardBlocks
  <2>3. motion = TwoVectors(c)
    BY <1>6 DEF TwoVectors
  <2> QED BY <1>2, <2>1, <2>2, <2>3
<1> QED BY <1>1, <1>3, <1>4, <1>5, <1>6 DEF MotionTypes

LEMMA AlikePredicts ==
  ASSUME NEW p, NEW c, NEW i, NEW j, NEW m, NEW n, IsAlike(c, m, n)
  PROVE  predict_mb(p, c, i, j, n) = predict_mb(p, c, i, j, m)
<1>1. (MB_FORWARD \in n.mb_type \/ c.type = P_TYPE) <=> HasVector(c, m.mb_type, Forw)
  BY DEF IsAlike, HasVector, Flag
<1>2. (MB_FORWARD \in m.mb_type \/ c.type = P_TYPE) <=> HasVector(c, m.mb_type, Forw)
  BY DEF HasVector, Flag
<1>3. /\ MB_INTRA \notin m.mb_type /\ MB_INTRA \notin n.mb_type
      /\ MB_BACKWARD \in n.mb_type <=> MB_BACKWARD \in m.mb_type
  BY DEF IsAlike
<1>4. HasVector(c, m.mb_type, Forw) => ForwardBlocks(p, c, i, j, n) = ForwardBlocks(p, c, i, j, m)
  BY ForwardAlike
<1>5. MB_BACKWARD \in m.mb_type => BackwardBlocks(p, c, i, j, n) = BackwardBlocks(p, c, i, j, m)
  BY BackwardAlike
<1> DEFINE F(x) == IF HasVector(c, m.mb_type, Forw) THEN ForwardBlocks(p, c, i, j, x) ELSE {}
           B(x) == IF MB_BACKWARD \in m.mb_type THEN BackwardBlocks(p, c, i, j, x) ELSE {}
<1>6. predict_mb(p, c, i, j, m) = F(m) \cup B(m)
  BY <1>2, <1>3 DEF predict_mb, ForwardBlocks
<1>7. predict_mb(p, c, i, j, n) = F(n) \cup B(n)
  BY <1>1, <1>3 DEF predict_mb, ForwardBlocks
<1>8. F(n) = F(m) /\ B(n) = B(m)
  BY <1>4, <1>5
<1> HIDE DEF F, B
<1> QED BY <1>6, <1>7, <1>8

(***************************************************************************)
(* What both sides remember, and vectors as they go from one to the other. *)
(***************************************************************************)
IsNear(c, d, v) ==
  /\ IsVector(v)
  /\ ~Uncoded(c, d) =>
       \A axis \in {1, 2} : LET f == 2 ^ (c.codes[d][axis] - 1) IN v[axis] \in (-32 * f) .. (32 * f)

GoodMemory(c, s) ==
  /\ s = [PMV |-> s.PMV, dc_dct_pred |-> s.dc_dct_pred, mquant |-> s.mquant, dirs |-> s.dirs]
  /\ s.mquant \in Quantisers(c)
  /\ s.dirs \subseteq {MB_FORWARD, MB_BACKWARD}
  /\ s.dirs # {} => s.dc_dct_pred = "reset"
  /\ \A d \in {Forw, Back}, r \in {1, 2} : IsNear(c, d, s.PMV[d][r])

LEMMA ZeroIsNear ==
  ASSUME NEW c, NEW d \in {Forw, Back}, Uncoded(c, d) \/ CodeFits(c, d)
  PROVE  IsNear(c, d, Zero)
<1>1. Zero[1] = 0 /\ Zero[2] = 0 /\ IsVector(Zero)
  BY DEF Zero, IsVector
<1>2. ASSUME ~Uncoded(c, d), NEW axis \in {1, 2}
      PROVE  LET f == 2 ^ (c.codes[d][axis] - 1) IN Zero[axis] \in (-32 * f) .. (32 * f)
  <2> DEFINE n == c.codes[d][axis]
             f == 2 ^ (n - 1)
  <2>1. n \in 1 .. 9
    BY <1>2 DEF CodeFits, GoodMotion
  <2> HIDE DEF n
  <2>2. f \in Nat \ {0}
    BY <2>1, PowersAre
  <2> HIDE DEF f
  <2>3. Zero[axis] = 0
    BY <1>1
  <2>4. Zero[axis] \in (-32 * f) .. (32 * f)
    BY <2>2, <2>3
  <2> QED BY <2>4 DEF f, n
<1> QED BY <1>1, <1>2 DEF IsNear

LEMMA KeptIsNear ==
  ASSUME NEW c, NEW motion, NEW d \in {Forw, Back}, CodeFits(c, d), NEW v, IsVector(v), IsReached(v, c.window[d])
  PROVE  IsNear(c, d, Kept(c, motion, v))
<1> DEFINE u == Kept(c, motion, v)
<1>1. u[1] = v[1] /\ u[2] \in {v[2], 2 * v[2]} /\ IsVector(u)
  BY DEF Kept, IsVector
<1> HIDE DEF u
<1>2. ASSUME NEW axis \in {1, 2}
      PROVE  LET f == 2 ^ (c.codes[d][axis] - 1) IN u[axis] \in (-32 * f) .. (32 * f)
  <2> DEFINE n == c.codes[d][axis]
             f == 2 ^ (n - 1)
  <2>1. n \in 1 .. 9
    BY DEF CodeFits, GoodMotion
  <2>2. v[axis] \in (-16 * f) .. (16 * f - 1)
    BY FittingIsWritten
  <2> HIDE DEF n
  <2>3. f \in Nat \ {0}
    BY <2>1, PowersAre
  <2> HIDE DEF f
  <2>4. u[axis] \in {v[axis], 2 * v[axis]} /\ v[axis] \in Int
    BY <1>1 DEF IsVector
  <2>5. u[axis] \in (-32 * f) .. (32 * f)
    BY <2>2, <2>3, <2>4
  <2> QED BY <2>5 DEF f, n
<1> QED BY <1>1, <1>2 DEF IsNear, u

LEMMA AsWrittenIs ==
  ASSUME NEW c, NEW m, NEW v, IsVector(v)
  PROVE  /\ AsWritten(c, m, v) = IF IsHalved(c, m.motion_type) THEN <<v[1], v[2] \div 2>> ELSE v
         /\ AsWritten(c, m, Kept(c, m.motion_type, v)) = v
<1>1. AsWritten(c, m, v) = IF IsHalved(c, m.motion_type) THEN <<v[1], v[2] \div 2>> ELSE v
  BY DEF AsWritten, IsHalved, InField
<1>2. AsWritten(c, m, Kept(c, m.motion_type, v)) = v
  BY InFieldIs DEF AsWritten, Kept, IsHalved
<1> QED BY <1>1, <1>2

LEMMA DecodedVectorIs ==
  ASSUME NEW c, NEW m, NEW m0, m0.motion_type = m.motion_type, NEW d \in {Forw, Back},
         ~Uncoded(c, d), CodeFits(c, d), NEW r \in 1 .. (IF HasTwo(c, m) THEN 2 ELSE 1),
         NEW v, IsVector(v), IsReached(v, c.window[d]), m[d].MV[r] = Kept(c, m.motion_type, v),
         NEW PMV, IsNear(c, d, PMV[r]),
         NEW codes, \A axis \in {1, 2} : codes[axis] = c.codes[d][axis]
  PROVE  DecodedVector(c, m0, putmvs(c, m, d, PMV), PMV, codes, r) = Kept(c, m.motion_type, v)
<1> DEFINE motion == m.motion_type
           from == AsWritten(c, m, PMV[r])
           written == putmvs(c, m, d, PMV)
<1>1. AsWritten(c, m, m[d].MV[r]) = v
  BY AsWrittenIs
<1>2. from = IF IsHalved(c, motion) THEN <<PMV[r][1], PMV[r][2] \div 2>> ELSE PMV[r]
  BY AsWrittenIs DEF IsNear
<1>3. AsWritten(c, m0, PMV[r]) = from
  BY DEF AsWritten
<1>4. AsWritten(c, m0, <<0, 2>>)[2] = 1 <=> IsHalved(c, motion)
  BY DEF AsWritten, IsHalved, InField
<1>5. \A axis \in {1, 2} : written.words[r][axis] = putmv(v[axis] - from[axis], c.codes[d][axis])
  <2> DEFINE Word(s) ==
               LET dmv == Minus(AsWritten(c, m, m[d].MV[s]), AsWritten(c, m, PMV[s]))
               IN [axis \in {1, 2} |-> putmv(dmv[axis], c.codes[d][axis])]
  <2>1. written.words = [s \in 1 .. (IF HasTwo(c, m) THEN 2 ELSE 1) |-> Word(s)]
    BY DEF putmvs
  <2>2. written.words[r] = Word(r)
    BY <2>1
  <2>3. \A axis \in {1, 2} : Minus(v, from)[axis] = v[axis] - from[axis]
    BY DEF Minus
  <2> HIDE DEF written, from
  <2>4. Word(r) = [axis \in {1, 2} |-> putmv(Minus(v, from)[axis], c.codes[d][axis])]
    BY <1>1 DEF from
  <2> QED BY <2>2, <2>3, <2>4
<1> HIDE DEF from, written
<1>6. ASSUME NEW axis \in {1, 2}
      PROVE  Decoded(written.words[r][axis], from[axis], codes[axis]) = v[axis]
  <2> DEFINE n == c.codes[d][axis]
             f == 2 ^ (n - 1)
  <2>1. n \in 1 .. 9
    BY DEF CodeFits, GoodMotion
  <2>2. v[axis] \in (-16 * f) .. (16 * f - 1)
    BY FittingIsWritten
  <2>3. PMV[r][axis] \in (-32 * f) .. (32 * f)
    BY DEF IsNear
  <2>4. from[axis] \in {PMV[r][axis], PMV[r][axis] \div 2}
    BY <1>2
  <2>5. written.words[r][axis] = putmv(v[axis] - from[axis], n) /\ codes[axis] = n
    BY <1>5
  <2> HIDE DEF n
  <2>6. f \in Nat \ {0}
    BY <2>1, PowersAre
  <2>7. from[axis] \in (-32 * f) .. (32 * f) /\ from[axis] \in Int
    <3> HIDE DEF f
    <3> QED BY <2>3, <2>4, <2>6
  <2>8. Decoded(putmv(v[axis] - from[axis], n), from[axis], n) = v[axis]
    BY <2>1, <2>2, <2>7, VectorIsRead
  <2> QED BY <2>5, <2>8
<1>7. DecodedVector(c, m0, written, PMV, codes, r)
      = <<v[1], IF IsHalved(c, motion) THEN 2 * v[2] ELSE v[2]>>
  BY <1>3, <1>4, <1>6 DEF DecodedVector
<1>8. Kept(c, motion, v) = <<v[1], IF IsHalved(c, motion) THEN 2 * v[2] ELSE v[2]>>
  BY DEF Kept, IsVector
<1> QED BY <1>7, <1>8 DEF written

(***************************************************************************)
(* A macroblock that is written.                                           *)
(***************************************************************************)
Core(type) == type \ {MB_PATTERN, MB_QUANT}

LEMMA FlagsDiffer ==
  /\ MB_PATTERN # MB_QUANT
  /\ MB_PATTERN # MB_INTRA /\ MB_PATTERN # MB_FORWARD /\ MB_PATTERN # MB_BACKWARD
  /\ MB_QUANT # MB_INTRA /\ MB_QUANT # MB_FORWARD /\ MB_QUANT # MB_BACKWARD
  /\ Flag(Forw) = MB_FORWARD /\ Flag(Back) = MB_BACKWARD
  BY DEF MB_PATTERN, MB_QUANT, MB_INTRA, MB_FORWARD, MB_BACKWARD, Flag, Forw, Back

LEMMA TypeIs ==
  ASSUME NEW c, NEW m, IsDecision(c, m), NEW cbp \in BOOLEAN, NEW mquant, NEW s
  PROVE  LET type == WrittenType(c, m, cbp, mquant, s) IN
         /\ Core(type) = IF c.type = P_TYPE /\ ~cbp /\ m.mb_type = {} THEN {MB_FORWARD} ELSE m.mb_type
         /\ type \subseteq {MB_FORWARD, MB_BACKWARD, MB_PATTERN, MB_QUANT}
         /\ MB_PATTERN \in type <=> cbp
         /\ MB_QUANT \in type <=> cbp /\ s.mquant # mquant
         /\ Directions(type) = Core(type)
         /\ type \in mbtypetab[c.type]
<1> DEFINE type == WrittenType(c, m, cbp, mquant, s)
           isQuant == cbp /\ s.mquant # mquant
           core == IF c.type = P_TYPE /\ ~cbp /\ m.mb_type = {} THEN {MB_FORWARD} ELSE m.mb_type
           marks == (IF cbp THEN {MB_PATTERN} ELSE {}) \cup (IF isQuant THEN {MB_QUANT} ELSE {})
<1>1. \/ c.type = P_TYPE /\ m.mb_type \in {{}, {MB_FORWARD}}
      \/ c.type = B_TYPE /\ m.mb_type \in {{MB_FORWARD}, {MB_BACKWARD}, {MB_FORWARD, MB_BACKWARD}}
  BY DEF IsDecision
<1>2. type = core \cup marks
  <2>1. TypeOf(m, cbp, mquant, s) = m.mb_type \cup marks
    BY <1>1, NamesDiffer DEF TypeOf
  <2>2. MB_FORWARD \notin marks
    BY FlagsDiffer
  <2> HIDE DEF marks
  <2>3. CASE m.mb_type = {}
    <3>1. c.type = P_TYPE
      BY <1>1, <2>3
    <3>2. ~cbp => marks = {}
      BY DEF marks
    <3> QED BY <2>1, <2>2, <2>3, <3>1, <3>2 DEF WrittenType
  <2>4. CASE m.mb_type # {}
    <3>1. c.type = P_TYPE => MB_FORWARD \in m.mb_type
      BY <1>1, <2>4, NamesDiffer
    <3> QED BY <2>1, <2>4, <3>1 DEF WrittenType
  <2> QED BY <2>3, <2>4
<1>3. core \subseteq {MB_FORWARD, MB_BACKWARD} /\ marks \subseteq {MB_PATTERN, MB_QUANT}
  BY <1>1
<1>4. (MB_PATTERN \in marks <=> cbp) /\ (MB_QUANT \in marks <=> isQuant)
  BY FlagsDiffer
<1>5. type \in mbtypetab[c.type]
  <2>1. marks \in {{}, {MB_PATTERN}, {MB_PATTERN, MB_QUANT}} /\ (marks = {} <=> ~cbp)
    OBVIOUS
  <2> HIDE DEF marks, type
  <2>2. CASE c.type = P_TYPE
    <3>1. \/ core = {MB_FORWARD} /\ marks = {}
          \/ core \in {{}, {MB_FORWARD}} /\ marks \in {{MB_PATTERN}, {MB_PATTERN, MB_QUANT}}
      BY <1>1, <2>1, <2>2, NamesDiffer
    <3>2. core \cup marks \in
            {{MB_FORWARD}} \cup
            {{MB_PATTERN} \cup f \cup q : f \in SUBSET {MB_FORWARD}, q \in SUBSET {MB_QUANT}}
      <4> HIDE DEF core
      <4>1. CASE core = {MB_FORWARD} /\ marks = {}
        BY <4>1
      <4>2. CASE core \in {{}, {MB_FORWARD}} /\ marks \in {{MB_PATTERN}, {MB_PATTERN, MB_QUANT}}
        <5>1. PICK q \in SUBSET {MB_QUANT} : marks = {MB_PATTERN} \cup q
          <6>1. marks = {MB_PATTERN} \cup {} \/ marks = {MB_PATTERN} \cup {MB_QUANT}
            BY <4>2
          <6> QED BY <6>1
        <5>2. core \in SUBSET {MB_FORWARD} /\ core \cup marks = {MB_PATTERN} \cup core \cup q
          BY <4>2, <5>1
        <5> QED BY <5>2
      <4> QED BY <3>1, <4>1, <4>2
    <3> QED BY <1>2, <2>2, <3>2, NamesDiffer DEF mbtypetab, PictTypes
  <2>3. CASE c.type = B_TYPE
    <3>1. core \in (SUBSET {MB_FORWARD, MB_BACKWARD}) \ {{}}
      <4>1. core = m.mb_type
        BY <2>3, NamesDiffer
      <4> HIDE DEF core
      <4>2. core \subseteq {MB_FORWARD, MB_BACKWARD} /\ core # {}
        BY <1>1, <2>3, <4>1, NamesDiffer
      <4> QED BY <4>2
    <3> HIDE DEF core
    <3>2. core \cup marks \in
            {d \cup q : d \in (SUBSET {MB_FORWARD, MB_BACKWARD}) \ {{}},
                        q \in {{}, {MB_PATTERN}, {MB_PATTERN, MB_QUANT}}}
      BY <2>1, <3>1
    <3> QED BY <1>2, <2>3, <3>2, NamesDiffer DEF mbtypetab, PictTypes
  <2> QED BY <1>1, <2>2, <2>3
<1> HIDE DEF core, marks, type
<1>6. Core(type) = core /\ Directions(type) = core
  BY <1>2, <1>3, FlagsDiffer DEF Core, Directions
<1>7. type \subseteq {MB_FORWARD, MB_BACKWARD, MB_PATTERN, MB_QUANT}
  BY <1>2, <1>3
<1>8. (MB_PATTERN \in type <=> cbp) /\ (MB_QUANT \in type <=> isQuant)
  BY <1>2, <1>3, <1>4, FlagsDiffer
<1> QED BY <1>5, <1>6, <1>7, <1>8 DEF core, type

(* What a decoder makes of it.                                             *)
LEMMA StillIs ==
  ASSUME NEW c
  PROVE  LET still == Still(c) IN
         /\ \E f, b : still = [mb_type |-> {}, motion_type |-> StillMotion(c), forw |-> f,
                                back |-> b, dmvector |-> Unset]
         /\ still.motion_type = StillMotion(c)
         /\ still[Forw] = still.forw /\ still[Forw].MV[1] = Zero /\ still[Forw].sel[1] = Own(c)
<1>1. Way(Zero, Unset, <<Own(c), 0>>, {}).MV[1] = Zero /\ Way(Zero, Unset, <<Own(c), 0>>, {}).sel[1] = Own(c)
  BY DEF Way
<1> DEFINE still == Still(c)
<1>2. still = [mb_type |-> {}, motion_type |-> StillMotion(c),
               forw |-> Way(Zero, Unset, <<Own(c), 0>>, {}), back |-> NoWay, dmvector |-> Unset]
  BY DEF Still, StillMotion
<1> HIDE DEF still
<1>3. /\ still.motion_type = StillMotion(c) /\ still.forw = Way(Zero, Unset, <<Own(c), 0>>, {})
      /\ still.back = NoWay /\ still[Forw] = still.forw
  BY <1>2 DEF Forw
<1> QED BY <1>1, <1>2, <1>3 DEF still

LEMMA ShownIs ==
  ASSUME NEW c, NEW w, NEW s, NEW codes
  PROVE  LET n == Shown(c, w, s, codes)
             isStill == MB_INTRA \in w.type \/ Directions(w.type) = {}
         IN /\ n.mb_type = Core(w.type)
            /\ isStill => n.motion_type = StillMotion(c) /\ n[Forw] = Still(c)[Forw]
            /\ ~isStill =>
                 /\ n.motion_type = ReadMotionType(c, w) /\ n.dmvector = w.forw.dmvector
                 /\ \E m0 :
                      /\ m0.motion_type = ReadMotionType(c, w)
                      /\ \A d \in {Forw, Back} : Flag(d) \in w.type =>
                           n[d] = Way(DecodedVector(c, m0, w[d], s.PMV[d], codes[d], 1),
                                      IF HasTwo(c, m0) THEN DecodedVector(c, m0, w[d], s.PMV[d], codes[d], 2)
                                      ELSE Unset, w[d].mv_field_sel, {})
<1> DEFINE m0 == [Still(c) EXCEPT !.mb_type = w.type \ {MB_PATTERN, MB_QUANT},
                                  !.motion_type = ReadMotionType(c, w),
                                  !.dmvector = w.forw.dmvector]
           Read(d) == Way(DecodedVector(c, m0, w[d], s.PMV[d], codes[d], 1),
                          IF HasTwo(c, m0) THEN DecodedVector(c, m0, w[d], s.PMV[d], codes[d], 2)
                          ELSE Unset, w[d].mv_field_sel, {})
           n == Shown(c, w, s, codes)
           isStill == MB_INTRA \in w.type \/ Directions(w.type) = {}
<1>1. /\ m0.mb_type = Core(w.type) /\ m0.motion_type = ReadMotionType(c, w)
      /\ m0.forw = Still(c).forw /\ m0.dmvector = w.forw.dmvector
      /\ DOMAIN m0 = {"mb_type", "motion_type", "forw", "back", "dmvector"}
  <2>1. PICK f, b : Still(c) = [mb_type |-> {}, motion_type |-> StillMotion(c), forw |-> f,
                                back |-> b, dmvector |-> Unset]
    BY StillIs
  <2>2. Still(c).forw = f
    BY <2>1
  <2> DEFINE type == w.type \ {MB_PATTERN, MB_QUANT}
             motion == ReadMotionType(c, w)
             dmv == w.forw.dmvector
             still == Still(c)
  <2>3. m0 = [still EXCEPT !.mb_type = type, !.motion_type = motion, !.dmvector = dmv]
    OBVIOUS
  <2>4. type = Core(w.type)
    BY DEF Core
  <2> HIDE DEF m0, type, motion, dmv, still
  <2>5. m0.mb_type = type /\ m0.motion_type = motion /\ m0.forw = f /\ m0.dmvector = dmv
        /\ DOMAIN m0 = {"mb_type", "motion_type", "forw", "back", "dmvector"}
    <3>1. still = [mb_type |-> {}, motion_type |-> StillMotion(c), forw |-> f, back |-> b, dmvector |-> Unset]
      BY <2>1 DEF still
    <3> QED BY <2>3, <3>1
  <2> QED BY <2>2, <2>4, <2>5 DEF motion, dmv
<1>2. n = IF isStill THEN [m0 EXCEPT !.motion_type = Still(c).motion_type]
          ELSE [m0 EXCEPT !.forw = IF MB_FORWARD \in w.type THEN Read(Forw) ELSE @,
                          !.back = IF MB_BACKWARD \in w.type THEN Read(Back) ELSE @]
  BY DEF Shown
<1> HIDE DEF m0, Read, n, isStill
<1>3. CASE isStill
  <2>1. n.mb_type = Core(w.type) /\ n.motion_type = Still(c).motion_type /\ n.forw = Still(c).forw
    BY <1>1, <1>2, <1>3
  <2>2. Still(c).motion_type = StillMotion(c)
    BY StillIs
  <2> QED BY <1>3, <2>1, <2>2 DEF n, isStill, Forw
<1>4. CASE ~isStill
  <2> DEFINE F == IF MB_FORWARD \in w.type THEN Read(Forw) ELSE m0.forw
             B == IF MB_BACKWARD \in w.type THEN Read(Back) ELSE m0.back
  <2>1. n = [m0 EXCEPT !.forw = F, !.back = B]
    BY <1>2, <1>4
  <2> HIDE DEF F, B
  <2>2. /\ n.mb_type = Core(w.type) /\ n.motion_type = ReadMotionType(c, w)
        /\ n.dmvector = w.forw.dmvector /\ n[Forw] = F /\ n[Back] = B
    BY <1>1, <2>1 DEF Forw, Back
  <2>3. \A d \in {Forw, Back} : Flag(d) \in w.type => n[d] = Read(d)
    BY <2>2, FlagsDiffer DEF F, B
  <2>4. m0.motion_type = ReadMotionType(c, w)
    BY <1>1
  <2> QED BY <1>4, <2>2, <2>3, <2>4 DEF n, isStill, Read
<1> QED BY <1>3, <1>4

LEMMA WrittenIs ==
  ASSUME NEW c, NEW m, NEW cbp, NEW mquant, NEW s, NEW inc
  PROVE  LET w == Written(c, m, cbp, mquant, s, inc)
             type == WrittenType(c, m, cbp, mquant, s)
         IN /\ w.MBAinc = inc /\ w.type = type
            /\ w.motion_type = IF Directions(type) # {} /\ ~c.frame_pred_dct THEN m.motion_type ELSE "unwritten"
            /\ w.quantiser = IF MB_QUANT \in type THEN quantiser_scale_code(c.q_scale_type, mquant) ELSE 0
            /\ \A d \in {Forw, Back} : Flag(d) \in type => w[d] = putmvs(c, m, d, s.PMV[d])
            /\ w.forw = w[Forw]
<1> DEFINE w == Written(c, m, cbp, mquant, s, inc)
           type == WrittenType(c, m, cbp, mquant, s)
<1>1. /\ w.MBAinc = inc /\ w.type = type
      /\ w.motion_type = IF Directions(type) # {} /\ ~c.frame_pred_dct THEN m.motion_type ELSE "unwritten"
      /\ w.quantiser = IF MB_QUANT \in type THEN quantiser_scale_code(c.q_scale_type, mquant) ELSE 0
      /\ w.forw = w[Forw]
      /\ MB_FORWARD \in type => w[Forw] = putmvs(c, m, Forw, s.PMV[Forw])
      /\ MB_BACKWARD \in type => w[Back] = putmvs(c, m, Back, s.PMV[Back])
  BY DEF Written, Forw, Back
<1> HIDE DEF w, type
<1>2. \A d \in {Forw, Back} : Flag(d) \in type => w[d] = putmvs(c, m, d, s.PMV[d])
  BY <1>1, FlagsDiffer
<1> QED BY <1>1, <1>2 DEF w, type

(* The f_codes of a picture reach the decoder.                             *)
ReadsCodes(c, codes) ==
  \A d \in {Forw, Back} : ~Uncoded(c, d) =>
    CodeFits(c, d) /\ \A axis \in {1, 2} : codes[d][axis] = c.codes[d][axis]

LEMMA DecisionIsCoded ==
  ASSUME NEW c, NEW m, IsDecision(c, m), NEW d \in {Forw, Back}, HasVector(c, m.mb_type, d)
  PROVE  ~Uncoded(c, d)
  BY NamesDiffer, FlagsDiffer DEF IsDecision, HasVector, Uncoded

LEMMA VectorsAreRead ==
  ASSUME NEW c, NEW m, IsDecision(c, m), NEW m0, m0.motion_type = m.motion_type,
         NEW s, GoodMemory(c, s), NEW codes, ReadsCodes(c, codes),
         NEW d \in {Forw, Back}, HasVector(c, m.mb_type, d),
         NEW r \in 1 .. (IF HasTwo(c, m) THEN 2 ELSE 1)
  PROVE  DecodedVector(c, m0, putmvs(c, m, d, s.PMV[d]), s.PMV[d], codes[d], r) = m[d].MV[r]
<1>1. ~Uncoded(c, d) /\ CodeFits(c, d) /\ \A axis \in {1, 2} : codes[d][axis] = c.codes[d][axis]
  BY DecisionIsCoded DEF ReadsCodes
<1>2. WayReaches(c, m.motion_type, d, m[d])
  BY DEF IsDecision
<1>3. HasTwo(c, m) <=> m.motion_type = TwoVectors(c)
  BY DEF HasTwo, TwoVectors
<1>4. PICK v : IsVector(v) /\ IsReached(v, c.window[d]) /\ m[d].MV[r] = Kept(c, m.motion_type, v)
  BY <1>2, <1>3 DEF WayReaches
<1>5. r \in {1, 2}
  OBVIOUS
<1>6. IsNear(c, d, s.PMV[d][r])
  BY <1>5 DEF GoodMemory
<1>7. DecodedVector(c, m0, putmvs(c, m, d, s.PMV[d]), s.PMV[d], codes[d], r) = Kept(c, m.motion_type, v)
  <2> DEFINE PMV == s.PMV[d]
             co == codes[d]
  <2>1. IsNear(c, d, PMV[r]) /\ \A axis \in {1, 2} : co[axis] = c.codes[d][axis]
    BY <1>1, <1>6
  <2> HIDE DEF PMV, co
  <2>2. DecodedVector(c, m0, putmvs(c, m, d, PMV), PMV, co, r) = Kept(c, m.motion_type, v)
    BY <1>1, <1>4, <2>1, DecodedVectorIs
  <2> QED BY <2>2 DEF PMV, co
<1> QED BY <1>4, <1>7

(* A predicted macroblock is shown from the blocks it was predicted from,  *)
(* and leaves the same predictions of vectors.                             *)
LEMMA PredictedIsShown ==
  ASSUME NEW c, c.struct # FRAME_PICTURE => ~c.frame_pred_dct, NEW m, IsDecision(c, m),
         NEW s, GoodMemory(c, s), NEW codes, ReadsCodes(c, codes),
         NEW cbp \in BOOLEAN, NEW mquant, NEW inc
  PROVE  LET w == Written(c, m, cbp, mquant, s, inc)
             n == Shown(c, w, s, codes)
         IN /\ IsAlike(c, m, n) /\ IsReadable(c, w)
            /\ \A d \in {Forw, Back} : Flag(d) \in w.type => PMVAfter(c, n, d) = PMVAfter(c, m, d)
<1> DEFINE w == Written(c, m, cbp, mquant, s, inc)
           n == Shown(c, w, s, codes)
           type == WrittenType(c, m, cbp, mquant, s)
           core == Core(type)
           motion == m.motion_type
<1>1. /\ core = IF c.type = P_TYPE /\ ~cbp /\ m.mb_type = {} THEN {MB_FORWARD} ELSE m.mb_type
      /\ type \subseteq {MB_FORWARD, MB_BACKWARD, MB_PATTERN, MB_QUANT}
      /\ Directions(type) = core /\ type \in mbtypetab[c.type]
  BY TypeIs
<1>2. /\ w.type = type
      /\ w.motion_type = IF core # {} /\ ~c.frame_pred_dct THEN motion ELSE "unwritten"
      /\ \A d \in {Forw, Back} : Flag(d) \in type => w[d] = putmvs(c, m, d, s.PMV[d])
      /\ w.forw = w[Forw]
  BY <1>1, WrittenIs
<1>3. /\ n.mb_type = core
      /\ core = {} => n.motion_type = StillMotion(c) /\ n[Forw] = Still(c)[Forw]
      /\ core # {} =>
           /\ n.motion_type = ReadMotionType(c, w) /\ n.dmvector = w.forw.dmvector
           /\ \E m0 :
                /\ m0.motion_type = ReadMotionType(c, w)
                /\ \A d \in {Forw, Back} : Flag(d) \in type =>
                     n[d] = Way(DecodedVector(c, m0, w[d], s.PMV[d], codes[d], 1),
                                IF HasTwo(c, m0) THEN DecodedVector(c, m0, w[d], s.PMV[d], codes[d], 2)
                                ELSE Unset, w[d].mv_field_sel, {})
  <2> HIDE DEF w
  <2>1. MB_INTRA \notin w.type
    BY <1>1, <1>2, FlagsDiffer, NamesDiffer
  <2>2. Core(w.type) = core /\ Directions(w.type) = core
    BY <1>1, <1>2
  <2> HIDE DEF core
  <2>3. MB_INTRA \in w.type \/ Directions(w.type) = {} <=> core = {}
    BY <2>1, <2>2
  <2>4. /\ n.mb_type = Core(w.type)
        /\ core = {} => n.motion_type = StillMotion(c) /\ n[Forw] = Still(c)[Forw]
        /\ core # {} =>
             /\ n.motion_type = ReadMotionType(c, w) /\ n.dmvector = w.forw.dmvector
             /\ \E m0 :
                  /\ m0.motion_type = ReadMotionType(c, w)
                  /\ \A d \in {Forw, Back} : Flag(d) \in w.type =>
                       n[d] = Way(DecodedVector(c, m0, w[d], s.PMV[d], codes[d], 1),
                                  IF HasTwo(c, m0) THEN DecodedVector(c, m0, w[d], s.PMV[d], codes[d], 2)
                                  ELSE Unset, w[d].mv_field_sel, {})
    BY <2>3, ShownIs
  <2> HIDE DEF n, type
  <2> QED BY <1>2, <2>2, <2>4
<1>4. /\ motion \in MotionTypes(c) /\ motion # "unwritten"
      /\ c.struct = FRAME_PICTURE /\ c.frame_pred_dct => motion = MC_FRAME
      /\ MB_BACKWARD \in m.mb_type => motion # MC_DMV
      /\ m.mb_type = {} => motion = StillMotion(c) /\ m[Forw].MV[1] = Zero /\ m[Forw].sel[1] = Own(c)
      /\ \/ c.type = P_TYPE /\ m.mb_type \in {{}, {MB_FORWARD}}
         \/ c.type = B_TYPE /\ m.mb_type \in {{MB_FORWARD}, {MB_BACKWARD}, {MB_FORWARD, MB_BACKWARD}}
  BY DEF IsDecision, MotionTypes, MC_FRAME, MC_FIELD, MC_16X8, MC_DMV
<1>5. \A d \in {Forw, Back} : Flag(d) \in type <=> Flag(d) \in core
  BY FlagsDiffer DEF Core
<1> HIDE DEF w, n, type, core, motion
<1>6. MB_INTRA \notin m.mb_type /\ MB_INTRA \notin n.mb_type
  BY <1>1, <1>3, <1>4, NamesDiffer
<1>7. IsReadable(c, w)
  BY <1>1, <1>2, <1>4 DEF IsReadable
<1>8. StillMotion(c) # TwoVectors(c) /\ StillMotion(c) # MC_DMV
  BY NamesDiffer DEF StillMotion, TwoVectors
<1>9. CASE core = {}
  <2>1. m.mb_type = {}
    BY <1>1, <1>9
  <2>2. n.motion_type = motion /\ n[Forw].MV[1] = Zero /\ n[Forw].sel[1] = Own(c) /\ motion = StillMotion(c)
    BY <1>3, <1>4, <1>9, <2>1, StillIs
  <2>3. \A d \in {Forw, Back} : HasVector(c, m.mb_type, d) => AlikeIn(c, m, n, d)
    BY <1>4, <1>8, <2>1, <2>2 DEF HasVector, AlikeIn, motion
  <2>4. IsAlike(c, m, n)
    BY <1>3, <1>4, <1>6, <1>8, <1>9, <2>1, <2>2, <2>3 DEF IsAlike, motion
  <2>5. \A d \in {Forw, Back} : Flag(d) \notin w.type
    BY <1>2, <1>5, <1>9
  <2> QED BY <1>7, <2>4, <2>5 DEF w, n
<1>10. CASE core # {}
  <2>1. ReadMotionType(c, w) = motion
    BY <1>2, <1>4, <1>10 DEF ReadMotionType
  <2>2. PICK m0 :
          /\ m0.motion_type = motion
          /\ \A d \in {Forw, Back} : Flag(d) \in type =>
               n[d] = Way(DecodedVector(c, m0, w[d], s.PMV[d], codes[d], 1),
                          IF HasTwo(c, m0) THEN DecodedVector(c, m0, w[d], s.PMV[d], codes[d], 2)
                          ELSE Unset, w[d].mv_field_sel, {})
    BY <1>3, <1>10, <2>1
  <2>3. ASSUME NEW d \in {Forw, Back}
        PROVE  HasVector(c, m.mb_type, d) <=> Flag(d) \in type
    BY <1>1, <1>4, <1>5, <1>10, FlagsDiffer, NamesDiffer DEF HasVector
  <2>4. HasTwo(c, m0) = HasTwo(c, m) /\ HasTwo(c, n) = HasTwo(c, m)
        /\ (HasTwo(c, m) <=> motion = TwoVectors(c)) /\ n.motion_type = motion
    BY <1>3, <1>10, <2>1, <2>2 DEF HasTwo, TwoVectors, motion
  <2>5. ASSUME NEW d \in {Forw, Back}, Flag(d) \in type
        PROVE  /\ n[d].MV[1] = m[d].MV[1] /\ n[d].sel = m[d].sel /\ n[d].MV = <<n[d].MV[1], n[d].MV[2]>>
               /\ HasTwo(c, m) => n[d].MV[2] = m[d].MV[2]
    <3>1. w[d] = putmvs(c, m, d, s.PMV[d]) /\ w[d].mv_field_sel = m[d].sel
      <4>1. putmvs(c, m, d, s.PMV[d]).mv_field_sel = m[d].sel
        BY DEF putmvs
      <4> QED BY <1>2, <2>5, <4>1
    <3>2. \A r \in 1 .. (IF HasTwo(c, m) THEN 2 ELSE 1) :
            DecodedVector(c, m0, w[d], s.PMV[d], codes[d], r) = m[d].MV[r]
      BY <2>2, <2>3, <2>5, <3>1, VectorsAreRead DEF motion
    <3>3. DecodedVector(c, m0, w[d], s.PMV[d], codes[d], 1) = m[d].MV[1]
      BY <3>2
    <3>4. HasTwo(c, m) => DecodedVector(c, m0, w[d], s.PMV[d], codes[d], 2) = m[d].MV[2]
      BY <3>2
    <3>5. PICK second : /\ n[d] = Way(m[d].MV[1], second, m[d].sel, {})
                        /\ HasTwo(c, m) => second = m[d].MV[2]
      BY <2>2, <2>4, <2>5, <3>1, <3>3, <3>4
    <3>6. n[d].MV = <<m[d].MV[1], second>> /\ n[d].sel = m[d].sel
      BY <3>5 DEF Way
    <3> QED BY <3>5, <3>6
  <2>6. \A d \in {Forw, Back} : HasVector(c, m.mb_type, d) => AlikeIn(c, m, n, d)
    BY <2>3, <2>4, <2>5 DEF AlikeIn, motion
  <2>7. motion = MC_DMV => n.dmvector = m.dmvector
    <3>1. ASSUME motion = MC_DMV PROVE MB_FORWARD \in type
      BY <1>1, <1>4, <1>5, <1>10, <3>1, FlagsDiffer, NamesDiffer
    <3>2. MB_FORWARD \in type => w.forw.dmvector = m.dmvector
      BY <1>2, FlagsDiffer DEF putmvs
    <3> QED BY <1>3, <1>10, <3>1, <3>2
  <2>8. MB_BACKWARD \in n.mb_type <=> MB_BACKWARD \in m.mb_type
    BY <1>1, <1>3, NamesDiffer
  <2>9. \/ MB_FORWARD \in n.mb_type <=> MB_FORWARD \in m.mb_type
        \/ c.type = P_TYPE /\ motion = StillMotion(c)
    BY <1>1, <1>3, <1>4
  <2>10. IsAlike(c, m, n)
    BY <1>4, <1>6, <2>4, <2>6, <2>7, <2>8, <2>9 DEF IsAlike, motion
  <2>11. ASSUME NEW d \in {Forw, Back}, Flag(d) \in type
         PROVE  PMVAfter(c, n, d) = PMVAfter(c, m, d)
    <3>1. WayReaches(c, motion, d, m[d])
      BY <2>3, <2>11 DEF IsDecision, motion
    <3>2. m[d].MV = <<m[d].MV[1], m[d].MV[2]>>
      BY <3>1 DEF WayReaches
    <3>3. CASE HasTwo(c, m)
      <4>1. n[d].MV = m[d].MV
        BY <2>5, <2>11, <3>2, <3>3
      <4> QED BY <2>4, <3>3, <4>1 DEF PMVAfter
    <3>4. CASE ~HasTwo(c, m)
      BY <2>4, <2>5, <2>11, <3>4 DEF PMVAfter
    <3> QED BY <3>3, <3>4
  <2> QED BY <1>2, <1>7, <2>10, <2>11 DEF w, n
<1> QED BY <1>9, <1>10

(***************************************************************************)
(* What is remembered after a macroblock.                                  *)
(***************************************************************************)
Memory(PMV, dc, mquant, dirs) == [PMV |-> PMV, dc_dct_pred |-> dc, mquant |-> mquant, dirs |-> dirs]

LEMMA MemoryParts ==
  ASSUME NEW PMV, NEW dc, NEW mquant, NEW dirs
  PROVE  LET s == Memory(PMV, dc, mquant, dirs)
         IN s.PMV = PMV /\ s.dc_dct_pred = dc /\ s.mquant = mquant /\ s.dirs = dirs
  BY DEF Memory

Resetting(s, PMV, dirs) == [s EXCEPT !.dc_dct_pred = "reset", !.PMV = PMV, !.dirs = dirs]

LEMMA ResettingIs ==
  ASSUME NEW PMV, NEW dc, NEW mquant, NEW dirs, NEW PMV1, NEW dirs1
  PROVE  Resetting(Memory(PMV, dc, mquant, dirs), PMV1, dirs1) = Memory(PMV1, "reset", mquant, dirs1)
<1> DEFINE s == Memory(PMV, dc, mquant, dirs)
           s1 == [s EXCEPT !.dc_dct_pred = "reset"]
           s2 == [s1 EXCEPT !.PMV = PMV1]
           s3 == [s2 EXCEPT !.dirs = dirs1]
<1>1. s1 = Memory(PMV, "reset", mquant, dirs)
  BY DEF Memory
<1>2. s2 = Memory(PMV1, "reset", mquant, dirs)
  <2> HIDE DEF s1
  <2> QED BY <1>1 DEF Memory
<1>3. s3 = Memory(PMV1, "reset", mquant, dirs1)
  <2> HIDE DEF s2
  <2> QED BY <1>2 DEF Memory
<1>4. Resetting(s, PMV1, dirs1) = s3
  <2> HIDE DEF s
  <2> QED BY DEF Resetting
<1> HIDE DEF s1, s2, s3
<1> QED BY <1>3, <1>4

LEMMA MemoryIs ==
  ASSUME NEW c, NEW s, GoodMemory(c, s)
  PROVE  s = Memory(s.PMV, s.dc_dct_pred, s.mquant, s.dirs)
  BY DEF GoodMemory, Memory

LEMMA ZeroPMVIsNear ==
  ASSUME NEW c, \A d \in {Forw, Back} : Uncoded(c, d) \/ CodeFits(c, d)
  PROVE  \A d \in {Forw, Back}, r \in {1, 2} : IsNear(c, d, ZeroPMV[d][r])
<1>1. \A d \in {Forw, Back}, r \in {1, 2} : ZeroPMV[d][r] = Zero
  BY DEF ZeroPMV
<1> QED BY <1>1, ZeroIsNear

(* Intra macroblocks always have coefficients.                             *)
LEMMA IntraTypeIs ==
  ASSUME NEW c, c.type \in PictTypes, NEW m, m.mb_type = {MB_INTRA},
         NEW cbp \in BOOLEAN, cbp, NEW mquant, NEW s
  PROVE  LET type == WrittenType(c, m, cbp, mquant, s) IN
         /\ MB_INTRA \in type /\ (MB_QUANT \in type <=> s.mquant # mquant)
         /\ MB_INTRA \in Core(type) /\ Directions(type) = {} /\ type \in mbtypetab[c.type]
<1> DEFINE type == WrittenType(c, m, cbp, mquant, s)
<1>1. type = IF s.mquant # mquant THEN {MB_INTRA, MB_QUANT} ELSE {MB_INTRA}
  BY DEF WrittenType, TypeOf
<1> HIDE DEF type
<1>2. /\ MB_INTRA \in type /\ (MB_QUANT \in type <=> s.mquant # mquant)
      /\ MB_INTRA \in Core(type) /\ Directions(type) = {}
  BY <1>1, FlagsDiffer, NamesDiffer DEF Core, Directions
<1>3. type \in {{MB_INTRA}, {MB_INTRA, MB_QUANT}}
  BY <1>1
<1>4. {{MB_INTRA}, {MB_INTRA, MB_QUANT}} \subseteq mbtypetab[c.type]
  BY DEF mbtypetab
<1> QED BY <1>2, <1>3, <1>4 DEF type

LEMMA AfterIs ==
  ASSUME NEW c, NEW m, NEW n, NEW s, NEW cbp, NEW mquant \in Quantisers(c), NEW inc,
         LET w == Written(c, m, cbp, mquant, s, inc)
         IN MB_INTRA \in w.type \/
            \A d \in {Forw, Back} : Flag(d) \in w.type => PMVAfter(c, n, d) = PMVAfter(c, m, d)
  PROVE  DecoderAfter(c, Written(c, m, cbp, mquant, s, inc), n, s) = AfterWritten(c, m, cbp, mquant, s)
<1> DEFINE w == Written(c, m, cbp, mquant, s, inc)
           type == WrittenType(c, m, cbp, mquant, s)
           isReset == MB_INTRA \in type \/ (c.type = P_TYPE /\ MB_FORWARD \notin type)
           After(x, quant) ==
             [PMV |-> IF isReset THEN ZeroPMV
                      ELSE [forw |-> IF MB_FORWARD \in type THEN PMVAfter(c, x, Forw) ELSE s.PMV[Forw],
                            back |-> IF MB_BACKWARD \in type THEN PMVAfter(c, x, Back) ELSE s.PMV[Back]],
              dc_dct_pred |-> IF MB_INTRA \in type THEN "last" ELSE "reset",
              mquant |-> IF MB_QUANT \in type THEN quant ELSE s.mquant,
              dirs |-> Directions(type)]
<1>1. w.type = type /\ (MB_QUANT \in type => w.quantiser = quantiser_scale_code(c.q_scale_type, mquant))
  BY WrittenIs
<1>2. AfterWritten(c, m, cbp, mquant, s) = After(m, mquant)
  BY DEF AfterWritten
<1>3. \/ MB_INTRA \in type
      \/ \A d \in {Forw, Back} : Flag(d) \in type => PMVAfter(c, n, d) = PMVAfter(c, m, d)
  BY <1>1
<1> HIDE DEF w, type
<1>4. DecoderAfter(c, w, n, s) = After(n, QuantiserRead(c.q_scale_type, w.quantiser))
  BY <1>1 DEF DecoderAfter
<1>5. MB_QUANT \in type => QuantiserRead(c.q_scale_type, w.quantiser) = mquant
  BY <1>1, QuantiserIsRead
<1>6. isReset \/ ((MB_FORWARD \in type => PMVAfter(c, n, Forw) = PMVAfter(c, m, Forw)) /\
                  (MB_BACKWARD \in type => PMVAfter(c, n, Back) = PMVAfter(c, m, Back)))
  BY <1>3, FlagsDiffer
<1>7. After(n, QuantiserRead(c.q_scale_type, w.quantiser)) = After(m, mquant)
  BY <1>5, <1>6
<1> QED BY <1>2, <1>4, <1>7 DEF w

LEMMA AfterIsGood ==
  ASSUME NEW c, NEW m, NEW s, GoodMemory(c, s), NEW cbp \in BOOLEAN, NEW mquant \in Quantisers(c),
         \A d \in {Forw, Back} : Uncoded(c, d) \/ CodeFits(c, d),
         IsDecision(c, m) \/ (m.mb_type = {MB_INTRA} /\ cbp /\ c.type \in PictTypes)
  PROVE  GoodMemory(c, AfterWritten(c, m, cbp, mquant, s))
<1> DEFINE type == WrittenType(c, m, cbp, mquant, s)
           t == AfterWritten(c, m, cbp, mquant, s)
<1>1. /\ t = Memory(t.PMV, t.dc_dct_pred, t.mquant, t.dirs)
      /\ t.dc_dct_pred = IF MB_INTRA \in type THEN "last" ELSE "reset"
      /\ t.mquant \in {mquant, s.mquant} /\ t.dirs = Directions(type)
      /\ \/ t.PMV = ZeroPMV
         \/ /\ MB_INTRA \notin type
            /\ t.PMV[Forw] = IF MB_FORWARD \in type THEN PMVAfter(c, m, Forw) ELSE s.PMV[Forw]
            /\ t.PMV[Back] = IF MB_BACKWARD \in type THEN PMVAfter(c, m, Back) ELSE s.PMV[Back]
  BY DEF AfterWritten, Memory, Forw, Back
<1>2. CASE m.mb_type = {MB_INTRA} /\ cbp /\ c.type \in PictTypes
  <2>1. Directions(type) = {} /\ MB_INTRA \in type
    BY <1>2, IntraTypeIs
  <2> HIDE DEF t, type
  <2>2. t.dirs = {} /\ t.PMV = ZeroPMV
    BY <1>1, <2>1
  <2> QED BY <1>1, <2>2, ZeroPMVIsNear DEF GoodMemory, Memory, t
<1>3. CASE IsDecision(c, m)
  <2>1. /\ type \subseteq {MB_FORWARD, MB_BACKWARD, MB_PATTERN, MB_QUANT}
        /\ Directions(type) \subseteq {MB_FORWARD, MB_BACKWARD}
        /\ \A d \in {Forw, Back} : Flag(d) \in type => HasVector(c, m.mb_type, d)
    <3>1. /\ Core(type) = IF c.type = P_TYPE /\ ~cbp /\ m.mb_type = {} THEN {MB_FORWARD} ELSE m.mb_type
          /\ type \subseteq {MB_FORWARD, MB_BACKWARD, MB_PATTERN, MB_QUANT}
      BY <1>3, TypeIs
    <3> HIDE DEF type
    <3>2. \A d \in {Forw, Back} : Flag(d) \in type => Flag(d) \in Core(type)
      BY FlagsDiffer DEF Core
    <3>3. \A d \in {Forw, Back} : Flag(d) \in type => HasVector(c, m.mb_type, d)
      BY <3>1, <3>2, FlagsDiffer, NamesDiffer DEF HasVector
    <3> QED BY <3>1, <3>3 DEF Directions
  <2>2. MB_INTRA \notin type
    BY <2>1, FlagsDiffer, NamesDiffer
  <2>3. ASSUME NEW d \in {Forw, Back}, NEW r \in {1, 2}, Flag(d) \in type
        PROVE  IsNear(c, d, PMVAfter(c, m, d)[r])
    <3>1. HasVector(c, m.mb_type, d) /\ CodeFits(c, d)
      BY <1>3, <2>1, <2>3, DecisionIsCoded
    <3>2. WayReaches(c, m.motion_type, d, m[d])
      BY <1>3, <3>1 DEF IsDecision
    <3>3. PICK x \in 1 .. (IF m.motion_type = TwoVectors(c) THEN 2 ELSE 1) : PMVAfter(c, m, d)[r] = m[d].MV[x]
      <4>1. HasTwo(c, m) <=> m.motion_type = TwoVectors(c)
        BY DEF HasTwo, TwoVectors
      <4>2. CASE HasTwo(c, m)
        BY <4>1, <4>2 DEF PMVAfter
      <4>3. CASE ~HasTwo(c, m)
        BY <4>1, <4>3 DEF PMVAfter
      <4> QED BY <4>2, <4>3
    <3>4. PICK v : IsVector(v) /\ IsReached(v, c.window[d]) /\ m[d].MV[x] = Kept(c, m.motion_type, v)
      BY <3>2 DEF WayReaches
    <3> QED BY <3>1, <3>3, <3>4, KeptIsNear
  <2> HIDE DEF t, type
  <2>4. t.dc_dct_pred = "reset" /\ t.dirs \subseteq {MB_FORWARD, MB_BACKWARD} /\ t.mquant \in Quantisers(c)
    BY <1>1, <2>1, <2>2 DEF GoodMemory
  <2>5. ASSUME NEW d \in {Forw, Back}, NEW r \in {1, 2}
        PROVE  IsNear(c, d, t.PMV[d][r])
    <3>1. CASE t.PMV = ZeroPMV
      BY <3>1, ZeroPMVIsNear
    <3>2. CASE t.PMV # ZeroPMV
      <4>1. t.PMV[d] = IF Flag(d) \in type THEN PMVAfter(c, m, d) ELSE s.PMV[d]
        BY <1>1, <3>2, FlagsDiffer
      <4>2. IsNear(c, d, s.PMV[d][r])
        BY DEF GoodMemory
      <4> QED BY <2>3, <4>1, <4>2
    <3> QED BY <3>1, <3>2
  <2>6. t = [PMV |-> t.PMV, dc_dct_pred |-> t.dc_dct_pred, mquant |-> t.mquant, dirs |-> t.dirs]
    BY <1>1 DEF Memory
  <2>7. GoodMemory(c, t)
    BY <2>4, <2>5, <2>6 DEF GoodMemory
  <2> QED BY <2>7 DEF t
<1> QED BY <1>2, <1>3

(***************************************************************************)
(* Macroblocks that are skipped.                                           *)
(***************************************************************************)
LEMMA DecoderAfterSkippedIs ==
  ASSUME NEW c, NEW s, GoodMemory(c, s),
         \A d \in {Forw, Back} : Uncoded(c, d) \/ CodeFits(c, d)
  PROVE  LET t == DecoderAfterSkipped(c, s) IN
         /\ GoodMemory(c, t) /\ DecoderAfterSkipped(c, t) = t
         /\ ShownSkipped(c, t) = ShownSkipped(c, s)
         /\ c.type = P_TYPE \/ s.dirs # {} => AfterSkipped(c, s) = t
<1> DEFINE t == DecoderAfterSkipped(c, s)
           PMV1 == IF c.type = P_TYPE THEN ZeroPMV ELSE s.PMV
           dirs1 == IF c.type = P_TYPE THEN {} ELSE s.dirs
<1>1. s = Memory(s.PMV, s.dc_dct_pred, s.mquant, s.dirs)
  BY MemoryIs
<1>2. \A PMV, dc, mquant, dirs :
        LET PMV2 == IF c.type = P_TYPE THEN ZeroPMV ELSE PMV
            dirs2 == IF c.type = P_TYPE THEN {} ELSE dirs
        IN DecoderAfterSkipped(c, Memory(PMV, dc, mquant, dirs)) = Memory(PMV2, "reset", mquant, dirs2)
  <2> TAKE PMV, dc, mquant, dirs
  <2> DEFINE r == Memory(PMV, dc, mquant, dirs)
             PMV2 == IF c.type = P_TYPE THEN ZeroPMV ELSE PMV
             dirs2 == IF c.type = P_TYPE THEN {} ELSE dirs
  <2>1. r.PMV = PMV /\ r.dirs = dirs
    BY MemoryParts
  <2>2. Resetting(r, PMV2, dirs2) = Memory(PMV2, "reset", mquant, dirs2)
    BY ResettingIs
  <2> HIDE DEF r
  <2>3. DecoderAfterSkipped(c, r) = Resetting(r, PMV2, dirs2)
    BY <2>1 DEF DecoderAfterSkipped, Resetting
  <2> QED BY <2>2, <2>3 DEF r
<1>3. t = Memory(PMV1, "reset", s.mquant, dirs1)
  <2> DEFINE a == s.PMV
             b == s.dc_dct_pred
             q == s.mquant
             e == s.dirs
  <2>1. s = Memory(a, b, q, e)
    BY <1>1
  <2> HIDE DEF a, b, q, e
  <2>2. DecoderAfterSkipped(c, Memory(a, b, q, e)) =
          Memory(IF c.type = P_TYPE THEN ZeroPMV ELSE a, "reset", q, IF c.type = P_TYPE THEN {} ELSE e)
    BY <1>2
  <2> QED BY <2>1, <2>2 DEF a, q, e
<1> HIDE DEF t
<1>4. t.PMV = PMV1 /\ t.dc_dct_pred = "reset" /\ t.mquant = s.mquant /\ t.dirs = dirs1
  BY <1>3, MemoryParts
<1>5. GoodMemory(c, t)
  <2>1. dirs1 \subseteq {MB_FORWARD, MB_BACKWARD} /\ s.mquant \in Quantisers(c)
    BY DEF GoodMemory
  <2>2. \A d \in {Forw, Back}, r \in {1, 2} : IsNear(c, d, PMV1[d][r])
    BY ZeroPMVIsNear DEF GoodMemory
  <2>3. t = [PMV |-> t.PMV, dc_dct_pred |-> t.dc_dct_pred, mquant |-> t.mquant, dirs |-> t.dirs]
    BY <1>3, <1>4 DEF Memory
  <2> HIDE DEF PMV1, dirs1
  <2> QED BY <1>4, <2>1, <2>2, <2>3 DEF GoodMemory
<1>6. DecoderAfterSkipped(c, t) = t
  <2> DEFINE PMV2 == IF c.type = P_TYPE THEN ZeroPMV ELSE PMV1
             dirs2 == IF c.type = P_TYPE THEN {} ELSE dirs1
  <2>1. PMV2 = PMV1 /\ dirs2 = dirs1
    OBVIOUS
  <2> HIDE DEF PMV1, dirs1
  <2>2. DecoderAfterSkipped(c, Memory(PMV1, "reset", s.mquant, dirs1)) = Memory(PMV2, "reset", s.mquant, dirs2)
    BY <1>2
  <2> QED BY <1>3, <2>1, <2>2
<1>7. ShownSkipped(c, t) = ShownSkipped(c, s)
  BY <1>4 DEF ShownSkipped
<1>8. c.type = P_TYPE \/ s.dirs # {} => AfterSkipped(c, s) = t
  <2>1. CASE c.type = P_TYPE
    <3>1. Resetting(s, ZeroPMV, {}) = Memory(ZeroPMV, "reset", s.mquant, {})
      <4> DEFINE a == s.PMV
                 b == s.dc_dct_pred
                 q == s.mquant
                 e == s.dirs
      <4>1. s = Memory(a, b, q, e)
        BY <1>1
      <4> HIDE DEF a, b, q, e
      <4>2. Resetting(Memory(a, b, q, e), ZeroPMV, {}) = Memory(ZeroPMV, "reset", q, {})
        BY ResettingIs
      <4> QED BY <4>1, <4>2 DEF q
    <3>2. AfterSkipped(c, s) = Resetting(s, ZeroPMV, {})
      BY <2>1 DEF AfterSkipped, Resetting
    <3> QED BY <1>3, <2>1, <3>1, <3>2
  <2>2. CASE c.type # P_TYPE /\ s.dirs # {}
    <3>1. s.dc_dct_pred = "reset"
      BY <2>2 DEF GoodMemory
    <3> QED BY <1>1, <1>3, <2>2, <3>1 DEF AfterSkipped
  <2> QED BY <2>1, <2>2
<1> QED BY <1>5, <1>6, <1>7, <1>8 DEF t

LEMMA ShownSkippedIs ==
  ASSUME NEW c, NEW s
  PROVE  LET n == ShownSkipped(c, s) IN
         /\ n.motion_type = StillMotion(c)
         /\ c.type = P_TYPE => n.mb_type = {} /\ n[Forw].MV[1] = Zero /\ n[Forw].sel[1] = Own(c)
         /\ c.type # P_TYPE =>
              /\ n.mb_type = s.dirs
              /\ \A d \in {Forw, Back} : n[d].MV[1] = s.PMV[d][1] /\ n[d].sel[1] = Own(c)
<1> DEFINE n == ShownSkipped(c, s)
           still == Still(c)
<1>1. PICK f, b : still = [mb_type |-> {}, motion_type |-> StillMotion(c), forw |-> f,
                           back |-> b, dmvector |-> Unset]
  BY StillIs
<1>2. still.mb_type = {} /\ still.motion_type = StillMotion(c)
      /\ still[Forw].MV[1] = Zero /\ still[Forw].sel[1] = Own(c)
  <2>1. still.mb_type = {}
    <3> HIDE DEF still
    <3> QED BY <1>1
  <2> QED BY <2>1, StillIs
<1>3. CASE c.type = P_TYPE
  <2>1. n = still
    BY <1>3 DEF ShownSkipped
  <2> QED BY <1>2, <1>3, <2>1
<1>4. CASE c.type # P_TYPE
  <2> DEFINE Kept2(d) == Way(s.PMV[d][1], Unset, <<Own(c), 0>>, {})
             dirs == s.dirs
             F == Kept2(Forw)
             B == Kept2(Back)
  <2>1. n = [still EXCEPT !.mb_type = dirs, !.forw = F, !.back = B]
    BY <1>4 DEF ShownSkipped
  <2>2. \A d \in {Forw, Back} : Kept2(d).MV[1] = s.PMV[d][1] /\ Kept2(d).sel[1] = Own(c)
    BY DEF Way
  <2> HIDE DEF n, still, F, B, dirs
  <2>3. n.mb_type = dirs /\ n.forw = F /\ n.back = B /\ n.motion_type = StillMotion(c)
    BY <1>1, <2>1
  <2>4. n[Forw] = F /\ n[Back] = B
    BY <2>3 DEF Forw, Back
  <2>5. \A d \in {Forw, Back} : n[d] = Kept2(d)
    BY <2>4 DEF F, B
  <2> HIDE DEF Kept2
  <2>6. \A d \in {Forw, Back} : n[d].MV[1] = s.PMV[d][1] /\ n[d].sel[1] = Own(c)
    BY <2>2, <2>5
  <2> QED BY <1>4, <2>3, <2>6 DEF n, dirs
<1> QED BY <1>3, <1>4

(* A skipped macroblock is shown from the blocks it was predicted from.    *)
LEMMA SkippedIsShown ==
  ASSUME NEW p, NEW c, NEW m, IsDecision(c, m), NEW s, GoodMemory(c, s), NEW column, NEW cbp,
         IsSkipped(p, c, column, m, cbp, s)
  PROVE  /\ IsAlike(c, m, ShownSkipped(c, s)) /\ (c.type = P_TYPE \/ s.dirs # {})
         /\ MB_INTRA \notin ShownSkipped(c, s).mb_type
<1> DEFINE n == ShownSkipped(c, s)
<1>1. StillMotion(c) # TwoVectors(c) /\ StillMotion(c) # MC_DMV
  BY NamesDiffer DEF StillMotion, TwoVectors
<1>2. CASE c.type = P_TYPE
  <2>1. m.mb_type = {}
    BY <1>2, NamesDiffer DEF IsSkipped, IsDecision
  <2>2. m.motion_type = StillMotion(c) /\ m[Forw].MV[1] = Zero /\ m[Forw].sel[1] = Own(c)
        /\ m.motion_type \in MotionTypes(c)
    BY <2>1 DEF IsDecision
  <2>3. n.motion_type = StillMotion(c) /\ n.mb_type = {} /\ n[Forw].MV[1] = Zero /\ n[Forw].sel[1] = Own(c)
    BY <1>2, ShownSkippedIs
  <2> HIDE DEF n
  <2>4. \A d \in {Forw, Back} : HasVector(c, m.mb_type, d) => AlikeIn(c, m, n, d)
    BY <1>1, <2>1, <2>2, <2>3 DEF HasVector, AlikeIn
  <2>5. IsAlike(c, m, n)
    BY <1>1, <1>2, <2>1, <2>2, <2>3, <2>4 DEF IsAlike
  <2> QED BY <1>2, <2>3, <2>5 DEF n
<1>3. CASE c.type # P_TYPE
  <2>1. /\ m.mb_type \in {{MB_FORWARD}, {MB_BACKWARD}, {MB_FORWARD, MB_BACKWARD}}
        /\ m.motion_type \in MotionTypes(c)
    BY <1>3 DEF IsDecision
  <2>2. /\ m.motion_type = StillMotion(c) /\ s.dirs = Directions(m.mb_type)
        /\ \A d \in {Forw, Back} : Flag(d) \in m.mb_type =>
             /\ s.PMV[d][1] = m[d].MV[1]
             /\ c.struct # FRAME_PICTURE => m[d].sel[1] = Own(c)
    BY <1>3 DEF IsSkipped, IsPredicted, StillMotion, Flag
  <2>3. s.dirs = m.mb_type /\ MB_INTRA \notin m.mb_type /\ m.mb_type # {}
    BY <2>1, <2>2, NamesDiffer DEF Directions
  <2>4. /\ n.motion_type = StillMotion(c) /\ n.mb_type = s.dirs
        /\ \A d \in {Forw, Back} : n[d].MV[1] = s.PMV[d][1] /\ n[d].sel[1] = Own(c)
    BY <1>3, ShownSkippedIs
  <2> HIDE DEF n
  <2>5. \A d \in {Forw, Back} : HasVector(c, m.mb_type, d) => AlikeIn(c, m, n, d)
    BY <1>1, <1>3, <2>2, <2>4 DEF HasVector, AlikeIn
  <2>6. IsAlike(c, m, n)
    BY <1>1, <2>1, <2>2, <2>3, <2>4, <2>5 DEF IsAlike
  <2> QED BY <2>3, <2>4, <2>6 DEF n
<1> QED BY <1>2, <1>3

(***************************************************************************)
(* Images: what the encoder means and the decoder shows.                   *)
(***************************************************************************)
ImageIn(p, c, row, i, m, cbp, s) ==
  [column |-> i, blocks |-> predict_mb(p, c, 16 * i, 16 * row, m),
   isIntra |-> MB_INTRA \in m.mb_type,
   quantiser |-> IF cbp THEN s.mquant ELSE 0,
   dc_dct_pred |-> IF MB_INTRA \in m.mb_type THEN s.dc_dct_pred ELSE "unused"]

Requantised(s, quant) == [s EXCEPT !.mquant = quant]

LEMMA RequantisedIs ==
  ASSUME NEW c, NEW s, GoodMemory(c, s), NEW quant
  PROVE  LET t == Requantised(s, quant) IN t.mquant = quant /\ t.dc_dct_pred = s.dc_dct_pred
<1> DEFINE a == s.PMV
           b == s.dc_dct_pred
           q == s.mquant
           e == s.dirs
<1>1. s = Memory(a, b, q, e)
  BY MemoryIs
<1> HIDE DEF a, b, q, e
<1>2. LET t == Requantised(s, quant) IN t.mquant = quant /\ t.dc_dct_pred = b
  BY <1>1 DEF Memory, Requantised
<1> QED BY <1>2 DEF b

(* The cases a macroblock that is written comes in.                        *)
IsWritable(c, m, cbp) == IsDecision(c, m) \/ (m.mb_type = {MB_INTRA} /\ cbp /\ c.type \in PictTypes)

(* A macroblock that is written is read as it was meant.                   *)
LEMMA WrittenIsRead ==
  ASSUME NEW p, NEW c, c.struct # FRAME_PICTURE => ~c.frame_pred_dct,
         \A d \in {Forw, Back} : Uncoded(c, d) \/ CodeFits(c, d),
         NEW m, NEW cbp \in BOOLEAN, IsWritable(c, m, cbp),
         NEW s, GoodMemory(c, s), NEW codes, ReadsCodes(c, codes),
         NEW mquant \in Quantisers(c), NEW inc, NEW row, NEW i
  PROVE  LET w == Written(c, m, cbp, mquant, s, inc)
             n == Shown(c, w, s, codes)
             after == DecoderAfter(c, w, n, s)
             hasCoefficients == w.type \cap {MB_INTRA, MB_PATTERN} # {}
         IN /\ w.MBAinc = inc /\ IsReadable(c, w)
            /\ after = AfterWritten(c, m, cbp, mquant, s) /\ GoodMemory(c, after)
            /\ ImageIn(p, c, row, i, n, hasCoefficients, Requantised(s, after.mquant))
               = ImageIn(p, c, row, i, m, cbp, Requantised(s, mquant))
<1> DEFINE w == Written(c, m, cbp, mquant, s, inc)
           n == Shown(c, w, s, codes)
           after == DecoderAfter(c, w, n, s)
           hasCoefficients == w.type \cap {MB_INTRA, MB_PATTERN} # {}
           type == WrittenType(c, m, cbp, mquant, s)
           s1 == Requantised(s, after.mquant)
           s2 == Requantised(s, mquant)
<1>1. /\ w.MBAinc = inc /\ w.type = type
      /\ w.motion_type = IF Directions(type) # {} /\ ~c.frame_pred_dct THEN m.motion_type ELSE "unwritten"
  BY WrittenIs
<1>2. /\ s1.mquant = after.mquant /\ s1.dc_dct_pred = s.dc_dct_pred
      /\ s2.mquant = mquant /\ s2.dc_dct_pred = s.dc_dct_pred
  BY RequantisedIs
<1>3. ASSUME MB_INTRA \in w.type \/
             \A d \in {Forw, Back} : Flag(d) \in w.type => PMVAfter(c, n, d) = PMVAfter(c, m, d)
      PROVE  after = AfterWritten(c, m, cbp, mquant, s) /\ GoodMemory(c, after)
  <2>1. after = AfterWritten(c, m, cbp, mquant, s)
    <3> HIDE DEF n
    <3> QED BY <1>3, AfterIs
  <2>2. GoodMemory(c, AfterWritten(c, m, cbp, mquant, s))
    BY AfterIsGood DEF IsWritable
  <2> QED BY <2>1, <2>2
<1>4. AfterWritten(c, m, cbp, mquant, s).mquant = IF MB_QUANT \in type THEN mquant ELSE s.mquant
  BY DEF AfterWritten
<1>5. CASE IsDecision(c, m)
  <2>1. /\ IsAlike(c, m, n) /\ IsReadable(c, w)
        /\ \A d \in {Forw, Back} : Flag(d) \in w.type => PMVAfter(c, n, d) = PMVAfter(c, m, d)
    BY <1>5, PredictedIsShown
  <2>2. /\ type \subseteq {MB_FORWARD, MB_BACKWARD, MB_PATTERN, MB_QUANT}
        /\ MB_PATTERN \in type <=> cbp
        /\ MB_QUANT \in type <=> cbp /\ s.mquant # mquant
    BY <1>5, TypeIs
  <2> HIDE DEF w, n, after, s1, s2, type
  <2>3. after = AfterWritten(c, m, cbp, mquant, s) /\ GoodMemory(c, after)
    BY <1>3, <2>1
  <2>4. hasCoefficients <=> cbp
    BY <1>1, <2>2, FlagsDiffer, NamesDiffer
  <2> HIDE DEF hasCoefficients
  <2>5. cbp => after.mquant = mquant
    BY <1>4, <2>2, <2>3
  <2>6. predict_mb(p, c, 16 * i, 16 * row, n) = predict_mb(p, c, 16 * i, 16 * row, m)
    BY <2>1, AlikePredicts
  <2>7. MB_INTRA \notin m.mb_type /\ MB_INTRA \notin n.mb_type
    BY <2>1 DEF IsAlike
  <2>8. ImageIn(p, c, row, i, n, hasCoefficients, s1) = ImageIn(p, c, row, i, m, cbp, s2)
    BY <1>2, <2>4, <2>5, <2>6, <2>7 DEF ImageIn
  <2> QED BY <1>1, <2>1, <2>3, <2>8 DEF w, n, after, s1, s2, hasCoefficients
<1>6. CASE m.mb_type = {MB_INTRA} /\ cbp /\ c.type \in PictTypes
  <2>1. /\ MB_INTRA \in type /\ (MB_QUANT \in type <=> s.mquant # mquant)
        /\ MB_INTRA \in Core(type) /\ Directions(type) = {} /\ type \in mbtypetab[c.type]
    BY <1>6, IntraTypeIs
  <2>2. n.mb_type = Core(w.type)
    BY ShownIs
  <2> HIDE DEF w, n, after, s1, s2, type
  <2>3. after = AfterWritten(c, m, cbp, mquant, s) /\ GoodMemory(c, after)
    BY <1>1, <1>3, <2>1
  <2>4. hasCoefficients
    BY <1>1, <2>1
  <2> HIDE DEF hasCoefficients
  <2>5. after.mquant = mquant
    BY <1>4, <2>1, <2>3
  <2>6. MB_INTRA \in m.mb_type /\ MB_INTRA \in n.mb_type
    BY <1>1, <1>6, <2>1, <2>2
  <2>7. predict_mb(p, c, 16 * i, 16 * row, n) = {} /\ predict_mb(p, c, 16 * i, 16 * row, m) = {}
    BY <2>6 DEF predict_mb
  <2>8. ImageIn(p, c, row, i, n, hasCoefficients, s1) = ImageIn(p, c, row, i, m, cbp, s2)
    BY <1>2, <1>6, <2>4, <2>5, <2>6, <2>7 DEF ImageIn
  <2>9. IsReadable(c, w)
    BY <1>1, <2>1 DEF IsReadable
  <2> QED BY <1>1, <2>3, <2>8, <2>9 DEF w, n, after, s1, s2, hasCoefficients
<1> QED BY <1>5, <1>6 DEF IsWritable

(***************************************************************************)
(* Encoder and decoder along a slice: before the macroblock in column i,   *)
(* the decoder has read those up to d.at, and all after it were skipped.   *)
(***************************************************************************)
SkippedAt(p, c, row, x, s) == ImageIn(p, c, row, x, ShownSkipped(c, s), FALSE, s)

(* Those the decoder shows before one it reads.                            *)
ShownBetween(p, c, row, first, last, before, now) ==
  {ImageIn(p, c, row, x, ShownSkipped(c, IF x = first THEN before ELSE now), FALSE, now) : x \in first .. (last - 1)}

Together(p, c, row, i, e, d, inc, sk) ==
  /\ GoodMemory(c, d.s)
  /\ d.at \in -1 .. (i - 1) /\ inc = i - d.at
  /\ e = IF d.at = i - 1 THEN d.s ELSE DecoderAfterSkipped(c, d.s)
  /\ \E S : sk \in Seq(S)
  /\ Range(sk) = {SkippedAt(p, c, row, x, d.s) : x \in (d.at + 1) .. (i - 1)}

LEMMA RangeOfAppend ==
  ASSUME NEW S, NEW sk \in Seq(S), NEW x
  PROVE  (\E T : Append(sk, x) \in Seq(T)) /\ Range(Append(sk, x)) = Range(sk) \cup {x}
<1>1. sk \in Seq(S \cup {x})
  OBVIOUS
<1>2. Append(sk, x) \in Seq(S \cup {x})
  BY <1>1
<1>3. DOMAIN Append(sk, x) = 1 .. (Len(sk) + 1) /\ DOMAIN sk = 1 .. Len(sk) /\ Len(sk) \in Nat
  BY <1>1
<1>4. /\ \A y \in 1 .. Len(sk) : Append(sk, x)[y] = sk[y]
      /\ Append(sk, x)[Len(sk) + 1] = x
  BY <1>1
<1>5. Range(Append(sk, x)) = Range(sk) \cup {x}
  <2>1. \A y \in 1 .. (Len(sk) + 1) : y \in 1 .. Len(sk) \/ y = Len(sk) + 1
    BY <1>3
  <2>2. \A y \in 1 .. Len(sk) : y \in 1 .. (Len(sk) + 1)
    BY <1>3
  <2>3. Len(sk) + 1 \in 1 .. (Len(sk) + 1)
    BY <1>3
  <2> QED BY <1>3, <1>4, <2>1, <2>2, <2>3 DEF Range
<1> QED BY <1>2, <1>5

(* Both start a slice alike.                                               *)
LEMMA StartsTogether ==
  ASSUME NEW p, NEW c, \A d \in {Forw, Back} : Uncoded(c, d) \/ CodeFits(c, d),
         NEW row, NEW mquant \in Quantisers(c), NEW d, d.at = -1, d.s = SliceStart(mquant)
  PROVE  Together(p, c, row, 0, SliceStart(mquant), d, 1, <<>>)
<1> DEFINE s == SliceStart(mquant)
<1>1. GoodMemory(c, s)
  <2>1. s.PMV = ZeroPMV /\ s.dc_dct_pred = "reset" /\ s.mquant = mquant /\ s.dirs = {}
        /\ s = [PMV |-> ZeroPMV, dc_dct_pred |-> "reset", mquant |-> mquant, dirs |-> {}]
    BY DEF SliceStart
  <2> HIDE DEF s
  <2> QED BY <2>1, ZeroPMVIsNear DEF GoodMemory
<1> HIDE DEF s
<1>2. Range(<<>>) = {} /\ <<>> \in Seq({})
  BY DEF Range
<1>3. {SkippedAt(p, c, row, x, d.s) : x \in (d.at + 1) .. (0 - 1)} = {}
  OBVIOUS
<1>4. d.s = s /\ d.at \in -1 .. (0 - 1) /\ 1 = 0 - d.at /\ d.at = 0 - 1
  BY DEF s
<1>5. Together(p, c, row, 0, s, d, 1, <<>>)
  BY <1>1, <1>2, <1>3, <1>4 DEF Together
<1> QED BY <1>5 DEF s

LEMMA TogetherIsGood ==
  ASSUME NEW p, NEW c, \A d \in {Forw, Back} : Uncoded(c, d) \/ CodeFits(c, d),
         NEW row, NEW i, NEW e, NEW d, NEW inc, NEW sk, Together(p, c, row, i, e, d, inc, sk)
  PROVE  GoodMemory(c, e)
<1>1. GoodMemory(c, d.s) /\ e \in {d.s, DecoderAfterSkipped(c, d.s)}
  BY DEF Together
<1>2. GoodMemory(c, DecoderAfterSkipped(c, d.s))
  BY <1>1, DecoderAfterSkippedIs
<1> QED BY <1>1, <1>2

(* They stay together when a macroblock is skipped.                        *)
LEMMA SkipsTogether ==
  ASSUME NEW p, NEW c, \A d \in {Forw, Back} : Uncoded(c, d) \/ CodeFits(c, d),
         NEW row, NEW i \in Nat, NEW e, NEW d, NEW inc, NEW sk,
         Together(p, c, row, i, e, d, inc, sk),
         NEW m, IsDecision(c, m), NEW cbp, IsSkipped(p, c, i, m, cbp, e)
  PROVE  Together(p, c, row, i + 1, AfterSkipped(c, e), d, inc + 1,
                  Append(sk, ImageIn(p, c, row, i, m, FALSE, e)))
<1> DEFINE s == d.s
           t == DecoderAfterSkipped(c, s)
           image == ImageIn(p, c, row, i, m, FALSE, e)
           at == d.at
           Images(j) == {SkippedAt(p, c, row, x, s) : x \in (at + 1) .. j}
<1>1. /\ GoodMemory(c, s) /\ at \in -1 .. (i - 1) /\ inc = i - at
      /\ e \in {s, t} /\ Range(sk) = Images(i - 1)
  BY DEF Together
<1>2. /\ GoodMemory(c, e) /\ GoodMemory(c, t) /\ DecoderAfterSkipped(c, t) = t
      /\ ShownSkipped(c, e) = ShownSkipped(c, s)
  BY <1>1, DecoderAfterSkippedIs
<1>3. IsAlike(c, m, ShownSkipped(c, e)) /\ (c.type = P_TYPE \/ e.dirs # {})
  BY <1>2, SkippedIsShown
<1>4. AfterSkipped(c, e) = t
  <2>1. AfterSkipped(c, e) = DecoderAfterSkipped(c, e)
    BY <1>2, <1>3, DecoderAfterSkippedIs
  <2> QED BY <1>1, <1>2, <2>1
<1>5. image = SkippedAt(p, c, row, i, s)
  <2> DEFINE n == ShownSkipped(c, e)
  <2>1. IsAlike(c, m, n)
    BY <1>3
  <2>2. n = ShownSkipped(c, s)
    BY <1>2
  <2> HIDE DEF n, s
  <2>3. predict_mb(p, c, 16 * i, 16 * row, n) = predict_mb(p, c, 16 * i, 16 * row, m)
    BY <2>1, AlikePredicts
  <2>4. MB_INTRA \notin m.mb_type /\ MB_INTRA \notin n.mb_type
    BY <2>1 DEF IsAlike
  <2>5. image = ImageIn(p, c, row, i, n, FALSE, s)
    BY <2>3, <2>4 DEF ImageIn
  <2> QED BY <2>2, <2>5 DEF SkippedAt
<1>6. PICK S : sk \in Seq(S)
  BY DEF Together
<1>7. (\E T : Append(sk, image) \in Seq(T)) /\ Range(Append(sk, image)) = Range(sk) \cup {image}
  BY <1>6, RangeOfAppend
<1> HIDE DEF s, t, image, at
<1>8. Images(i) = Images(i - 1) \cup {SkippedAt(p, c, row, i, s)}
  <2>1. (at + 1) .. i = ((at + 1) .. (i - 1)) \cup {i}
    BY <1>1
  <2> QED BY <2>1
<1>9. at \in -1 .. ((i + 1) - 1) /\ inc + 1 = (i + 1) - at /\ at # (i + 1) - 1 /\ (i + 1) - 1 = i
  BY <1>1
<1>10. Together(p, c, row, i + 1, t, d, inc + 1, Append(sk, image))
  BY <1>1, <1>5, <1>7, <1>8, <1>9 DEF Together, s, t, at
<1> QED BY <1>4, <1>10 DEF image

(* And when one is written, the decoder shows all that was meant since.    *)
LEMMA WritesTogether ==
  ASSUME NEW p, NEW c, c.struct # FRAME_PICTURE => ~c.frame_pred_dct,
         \A d \in {Forw, Back} : Uncoded(c, d) \/ CodeFits(c, d),
         NEW row, NEW i \in Nat, NEW e, NEW d, NEW inc, NEW sk,
         Together(p, c, row, i, e, d, inc, sk),
         NEW m, NEW cbp \in BOOLEAN, IsWritable(c, m, cbp), NEW mquant \in Quantisers(c),
         NEW codes, ReadsCodes(c, codes)
  PROVE  LET w == Written(c, m, cbp, mquant, e, inc)
             first == d.at + 1
             last == d.at + w.MBAinc
             now == IF last > first THEN DecoderAfterSkipped(c, d.s) ELSE d.s
             read == Shown(c, w, now, codes)
             after == DecoderAfter(c, w, read, now)
             hasCoefficients == w.type \cap {MB_INTRA, MB_PATTERN} # {}
         IN /\ IsReadable(c, w) /\ last = i
            /\ after = AfterWritten(c, m, cbp, mquant, e) /\ GoodMemory(c, after)
            /\ ShownBetween(p, c, row, first, last, d.s, now) = Range(sk)
            /\ ImageIn(p, c, row, last, read, hasCoefficients, Requantised(now, after.mquant))
               = ImageIn(p, c, row, i, m, cbp, Requantised(e, mquant))
<1> DEFINE s == d.s
           at == d.at
           t == DecoderAfterSkipped(c, s)
           w == Written(c, m, cbp, mquant, e, inc)
           first == at + 1
           last == at + w.MBAinc
           now == IF last > first THEN t ELSE s
           Image(x) == ImageIn(p, c, row, x, ShownSkipped(c, IF x = first THEN s ELSE now), FALSE, now)
<1>1. /\ GoodMemory(c, s) /\ at \in -1 .. (i - 1) /\ inc = i - at
      /\ e = IF at = i - 1 THEN s ELSE t
      /\ Range(sk) = {SkippedAt(p, c, row, x, s) : x \in (at + 1) .. (i - 1)}
  BY DEF Together
<1>2. w.MBAinc = inc
  BY WrittenIs
<1>3. last = i /\ (last > first <=> at # i - 1)
  BY <1>1, <1>2
<1>4. now = e
  BY <1>1, <1>3
<1>5. GoodMemory(c, e)
  BY TogetherIsGood
<1>6. ShownBetween(p, c, row, first, last, s, now) = Range(sk)
  <2>1. ShownSkipped(c, t) = ShownSkipped(c, s)
    BY <1>1, DecoderAfterSkippedIs
  <2>2. now \in {s, t}
    OBVIOUS
  <2>4. MB_INTRA \notin ShownSkipped(c, s).mb_type
    BY <1>1, ShownSkippedIs, NamesDiffer DEF GoodMemory
  <2> HIDE DEF now, s, t, first, last
  <2>3. \A x : Image(x) = SkippedAt(p, c, row, x, s)
    <3> TAKE x
    <3>1. Image(x) = ImageIn(p, c, row, x, ShownSkipped(c, s), FALSE, now)
      BY <2>1, <2>2
    <3> HIDE DEF Image
    <3> QED BY <2>4, <3>1 DEF SkippedAt, ImageIn
  <2>5. ShownBetween(p, c, row, first, last, s, now) = {Image(x) : x \in first .. (last - 1)}
    BY DEF ShownBetween
  <2> HIDE DEF Image
  <2> QED BY <1>1, <1>3, <2>3, <2>5 DEF first
<1>7. LET n == Shown(c, w, e, codes)
          after == DecoderAfter(c, w, n, e)
          hasCoefficients == w.type \cap {MB_INTRA, MB_PATTERN} # {}
      IN /\ IsReadable(c, w)
         /\ after = AfterWritten(c, m, cbp, mquant, e) /\ GoodMemory(c, after)
         /\ ImageIn(p, c, row, i, n, hasCoefficients, Requantised(e, after.mquant))
            = ImageIn(p, c, row, i, m, cbp, Requantised(e, mquant))
  BY <1>5, WrittenIsRead
<1> HIDE DEF now, w, last
<1>8. LET n == Shown(c, w, now, codes)
          after == DecoderAfter(c, w, n, now)
          hasCoefficients == w.type \cap {MB_INTRA, MB_PATTERN} # {}
      IN /\ IsReadable(c, w)
         /\ after = AfterWritten(c, m, cbp, mquant, e) /\ GoodMemory(c, after)
         /\ ImageIn(p, c, row, last, n, hasCoefficients, Requantised(now, after.mquant))
            = ImageIn(p, c, row, i, m, cbp, Requantised(e, mquant))
  BY <1>3, <1>4, <1>7
<1> QED BY <1>3, <1>6, <1>8 DEF now, w, last

(***************************************************************************)
(* Encoder and decoder stay together through every picture.                *)
(***************************************************************************)
CodingOK ==
  stage = "coding" =>
    /\ k \in 0 .. (mb_width(parms) * mb_height2(parms))
    /\ enc.mquant \in Quantisers(pict)
    /\ Column = 0 => skipped = <<>>
    /\ Column # 0 => Together(parms, pict, Row, Column, enc, dec, MBAinc, skipped)

FollowInv ==
  /\ stage = "given" => follows
  /\ IsFollowable(parms) => follows /\ CodingOK

(* The macroblocks of a picture, in the order they are coded.              *)
LEMMA Remainder ==
  ASSUME NEW m \in Nat \ {0}, NEW q \in Int, NEW r \in 0 .. m - 1
  PROVE  (m * q + r) % m = r /\ (m * q + r) \div m = q
<1>1. (m * q + r) % m = r
  BY SMTT(30)
<1>2. (m * q + r) \div m = q
  BY SMTT(30)
<1> QED BY <1>1, <1>2

LEMMA MacroblockIs ==
  ASSUME NEW w \in Nat \ {0}, NEW h \in Nat, NEW n \in Nat, n < w * h
  PROVE  /\ n % w \in 0 .. (w - 1) /\ n \div w \in 0 .. (h - 1)
         /\ n + 1 \in 0 .. (w * h)
         /\ n % w = w - 1 => (n + 1) % w = 0
         /\ n % w # w - 1 => (n + 1) % w = (n % w) + 1 /\ (n + 1) \div w = n \div w
<1> DEFINE q == n \div w
           r == n % w
<1>1. q \in Int /\ r \in 0 .. w - 1 /\ n = w * q + r
  BY Division
<1>2. w * h \in Nat
  OBVIOUS
<1>3. q >= 0
  <2>1. SUFFICES ASSUME q <= -1 PROVE FALSE
    BY <1>1
  <2> HIDE DEF q, r
  <2>2. w * q <= -w
    BY <1>1, <2>1
  <2> QED BY <1>1, <2>2
<1>4. q < h
  <2>1. SUFFICES ASSUME q >= h PROVE FALSE
    BY <1>1
  <2> HIDE DEF q, r
  <2>2. w * q >= w * h
    BY <1>1, <2>1
  <2> QED BY <1>1, <1>2, <2>2
<1> HIDE DEF q, r
<1>5. n + 1 \in 0 .. (w * h)
  BY <1>2
<1>6. ASSUME r = w - 1
      PROVE  (n + 1) % w = 0
  <2>1. n + 1 = w * (q + 1) + 0 /\ q + 1 \in Int /\ 0 \in 0 .. w - 1
    BY <1>1, <1>6
  <2>2. (w * (q + 1) + 0) % w = 0
    BY <2>1, Remainder
  <2> QED BY <2>1, <2>2
<1>7. ASSUME r # w - 1
      PROVE  (n + 1) % w = r + 1 /\ (n + 1) \div w = q
  <2>1. n + 1 = w * q + (r + 1) /\ r + 1 \in 0 .. w - 1
    BY <1>1, <1>7
  <2>2. (w * q + (r + 1)) % w = r + 1 /\ (w * q + (r + 1)) \div w = q
    BY <1>1, <2>1, Remainder
  <2> QED BY <2>1, <2>2
<1> QED BY <1>1, <1>3, <1>4, <1>5, <1>6, <1>7 DEF q, r

LEMMA FollowInvInit == Init => FollowInv
  BY DEF Init, FollowInv, CodingOK

(* A picture a decoder can follow.                                         *)
LEMMA CodingIsFollowable ==
  ASSUME Inv, stage = "coding", IsFollowable(parms)
  PROVE  /\ pict.struct # FRAME_PICTURE => ~pict.frame_pred_dct
         /\ \A d \in {Forw, Back} : Uncoded(pict, d) \/ CodeFits(pict, d)
         /\ ReadsCodes(pict, CodesRead(parms, pict))
<1>1. /\ GoodParms(parms) /\ GoodMotions(parms) /\ GoodPict(parms, pict)
      /\ \A d \in {Forw, Back} : Uncoded(pict, d) \/ (CodeFits(pict, d) /\ IsUsed(parms, pict, d))
      /\ \E t \in PictTypes : pict.frame_pred_dct = parms.frame_pred_dct_tab[t]
  BY CodingIsGood
<1>2. ASSUME pict.struct # FRAME_PICTURE
      PROVE  ~pict.frame_pred_dct
  <2>1. parms.fieldpic
    BY <1>1, <1>2 DEF GoodPict, GoodParms
  <2>2. \A t \in PictTypes : ~parms.frame_pred_dct_tab[t]
    BY <2>1 DEF IsFollowable
  <2> QED BY <1>1, <2>2
<1>3. ReadsCodes(pict, CodesRead(parms, pict))
  BY <1>1, CodesAreRead DEF ReadsCodes
<1> QED BY <1>1, <1>2, <1>3

LEMMA AtMacroblock ==
  ASSUME Inv, stage = "coding", IsFollowable(parms), CodingOK
  PROVE  Together(parms, pict, Row, Column, EncoderAt, DecoderAt, MBAincAt, skipped)
<1>1. CASE Column = 0
  <2> DEFINE quant == enc.mquant
             code == quantiser_scale_code(pict.q_scale_type, quant)
             d == [at |-> -1, s |-> SliceStart(QuantiserRead(pict.q_scale_type, code))]
  <2>1. quant \in Quantisers(pict) /\ skipped = <<>>
    BY <1>1 DEF CodingOK
  <2>2. QuantiserRead(pict.q_scale_type, code) = quant
    BY <2>1, QuantiserIsRead
  <2>3. d.at = -1 /\ d.s = SliceStart(quant)
    BY <2>2
  <2>4. EncoderAt = SliceStart(quant) /\ DecoderAt = d /\ MBAincAt = 1
    BY <1>1 DEF EncoderAt, DecoderAt, MBAincAt
  <2> HIDE DEF d, quant
  <2>5. Together(parms, pict, Row, 0, SliceStart(quant), d, 1, <<>>)
    BY <2>1, <2>3, CodingIsFollowable, StartsTogether
  <2> QED BY <1>1, <2>1, <2>4, <2>5
<1>2. CASE Column # 0
  BY <1>2 DEF CodingOK, EncoderAt, DecoderAt, MBAincAt
<1> QED BY <1>1, <1>2

(* What the macroblock being coded may be.                                 *)
LEMMA MacroblockIsGood ==
  ASSUME Inv, stage = "coding", CodingOK, k < mb_width(parms) * mb_height2(parms),
         NEW m \in motion_estimation(parms, pict, 16 * Column, 16 * Row), NEW q \in Quantised(m)
  PROVE  /\ Column \in 0 .. (mb_width(parms) - 1)
         /\ k + 1 \in 0 .. (mb_width(parms) * mb_height2(parms))
         /\ Column = mb_width(parms) - 1 => (k + 1) % mb_width(parms) = 0
         /\ Column # mb_width(parms) - 1 =>
              (k + 1) % mb_width(parms) = Column + 1 /\ (k + 1) \div mb_width(parms) = Row
         /\ q[1] \in BOOLEAN /\ q[2] \in Quantisers(pict)
         /\ IsWritable(pict, m, q[1]) /\ (~q[1] => IsDecision(pict, m))
<1>1. GoodParms(parms) /\ GoodPict(parms, pict)
  BY CodingIsGood
<1> DEFINE w == mb_width(parms)
           h == mb_height2(parms)
<1>2. w \in Nat \ {0} /\ h \in Nat
  <2>1. mb_height(parms) \in Nat \ {0} /\ parms.fieldpic \in BOOLEAN /\ w \in Nat \ {0}
    BY <1>1 DEF GoodParms
  <2> QED BY <2>1 DEF mb_height2
<1>3. k \in Nat /\ k < w * h
  <2>1. w * h \in Nat
    BY <1>2
  <2> HIDE DEF w, h
  <2>2. k \in 0 .. (w * h)
    BY DEF CodingOK, w, h
  <2> QED BY <2>1, <2>2 DEF w, h
<1>4. Column = k % w /\ Row = k \div w
  BY DEF Column, Row
<1> HIDE DEF w, h
<1>5. /\ Column \in 0 .. (w - 1) /\ Row \in 0 .. (h - 1) /\ k + 1 \in 0 .. (w * h)
      /\ Column = w - 1 => (k + 1) % w = 0
      /\ Column # w - 1 => (k + 1) % w = Column + 1 /\ (k + 1) \div w = Row
  BY <1>2, <1>3, <1>4, MacroblockIs
<1>6. ASSUME MB_INTRA \notin m.mb_type
      PROVE  IsDecision(pict, m)
  <2> DEFINE at == <<16 * Column, 16 * Row>>
  <2>1. at \in MacroblocksOf(parms) /\ at[1] = 16 * Column /\ at[2] = 16 * Row
    BY <1>5 DEF MacroblocksOf, w, h
  <2> HIDE DEF at
  <2>2. Reaches(pict, m)
    BY <1>6, <2>1, DecisionsAreGood
  <2> QED BY <1>1, <1>6, <2>2, DecisionIs
<1>7. \/ MB_INTRA \notin m.mb_type
      \/ m.mb_type = {MB_INTRA} /\ q[1]
  <2>1. MB_INTRA \in m.mb_type => m.mb_type = {MB_INTRA}
    BY <1>1, DirectionsAre, NamesDiffer
  <2>2. MB_INTRA \in m.mb_type => q[1]
    BY DEF Quantised
  <2> QED BY <2>1, <2>2
<1>8. q[1] \in BOOLEAN /\ q[2] \in Quantisers(pict)
  <2> DEFINE Q == Quantisers(pict)
             quant == enc.mquant
  <2>1. quant \in Q
    BY DEF CodingOK
  <2>2. q \in ({TRUE} \X Q) \cup {<<FALSE, quant>>}
    BY DEF Quantised
  <2> HIDE DEF Q, quant
  <2>3. q \in {TRUE} \X Q => q[1] \in BOOLEAN /\ q[2] \in Q
    OBVIOUS
  <2>4. q = <<FALSE, quant>> => q[1] \in BOOLEAN /\ q[2] \in Q
    BY <2>1
  <2>5. q[1] \in BOOLEAN /\ q[2] \in Q
    BY <2>2, <2>3, <2>4
  <2> QED BY <2>5 DEF Q
<1>9. IsWritable(pict, m, q[1]) /\ (~q[1] => IsDecision(pict, m))
  BY <1>1, <1>6, <1>7 DEF IsWritable, GoodPict
<1> QED BY <1>5, <1>8, <1>9 DEF w, h

LEMMA SkipFollows ==
  ASSUME Inv, stage = "coding", IsFollowable(parms), CodingOK, follows,
         k < mb_width(parms) * mb_height2(parms),
         NEW m \in motion_estimation(parms, pict, 16 * Column, 16 * Row), NEW q \in Quantised(m),
         IsSkipped(parms, pict, Column, m, q[1], EncoderAt), Skip(m),
         k' = k + 1, UNCHANGED <<stage, parms, isCoded, sequence, pict>>
  PROVE  follows' /\ CodingOK'
<1> DEFINE w == mb_width(parms)
           image == ImageIn(parms, pict, Row, Column, m, FALSE, EncoderAt)
<1>1. /\ Column \in 0 .. (w - 1) /\ k + 1 \in 0 .. (w * mb_height2(parms))
      /\ Column # w - 1 => (k + 1) % w = Column + 1 /\ (k + 1) \div w = Row
      /\ ~q[1] => IsDecision(pict, m)
  BY MacroblockIsGood
<1>2. Column \notin {0, w - 1} /\ ~q[1]
  BY DEF IsSkipped
<1>3. Column' = Column + 1 /\ Row' = Row
  BY <1>1, <1>2 DEF Column, Row
<1>4. EncoderAt = enc /\ DecoderAt = dec /\ MBAincAt = MBAinc
  BY <1>2 DEF EncoderAt, DecoderAt, MBAincAt
<1>5. /\ enc' = AfterSkipped(pict, EncoderAt) /\ MBAinc' = MBAincAt + 1
      /\ skipped' = Append(skipped, image) /\ dec' = dec /\ follows' = follows
  BY DEF Skip, ImageOf, ImageIn
<1>6. Together(parms, pict, Row, Column, EncoderAt, DecoderAt, MBAincAt, skipped)
  BY AtMacroblock
<1>7. Column \in Nat
  BY <1>1
<1> HIDE DEF image
<1>8. Together(parms, pict, Row, Column + 1, enc', dec', MBAinc', skipped')
  <2>1. Together(parms, pict, Row, Column + 1, AfterSkipped(pict, EncoderAt), DecoderAt, MBAincAt + 1,
                 Append(skipped, ImageIn(parms, pict, Row, Column, m, FALSE, EncoderAt)))
    BY <1>1, <1>2, <1>6, <1>7, CodingIsFollowable, SkipsTogether
  <2> QED BY <1>4, <1>5, <2>1 DEF image
<1>9. enc'.mquant \in Quantisers(pict)
  BY <1>8, CodingIsFollowable, TogetherIsGood DEF GoodMemory
<1>10. Column + 1 # 0
  BY <1>7
<1>11. CodingOK'
  <2>1. Together(parms, pict, Row, Column, enc, dec, MBAinc, skipped)'
    BY <1>3, <1>8
  <2> QED BY <1>1, <1>3, <1>8, <1>9, <1>10 DEF CodingOK
<1> QED BY <1>5, <1>11

LEMMA WriteFollows ==
  ASSUME Inv, stage = "coding", IsFollowable(parms), CodingOK, follows,
         k < mb_width(parms) * mb_height2(parms),
         NEW m \in motion_estimation(parms, pict, 16 * Column, 16 * Row), NEW q \in Quantised(m),
         Write(m, q[1], q[2]),
         k' = k + 1, UNCHANGED <<stage, parms, isCoded, sequence, pict>>
  PROVE  follows' /\ CodingOK'
<1> DEFINE cbp == q[1]
           mquant == q[2]
           codes == CodesRead(parms, pict)
           e == EncoderAt
           d == DecoderAt
           inc == MBAincAt
           i == Column
           meant == Range(skipped) \cup {ImageOf(i, m, cbp, [e EXCEPT !.mquant = mquant])}
           w == Written(pict, m, cbp, mquant, e, inc)
           first == d.at + 1
           last == d.at + w.MBAinc
           now == IF last > first THEN DecoderAfterSkipped(pict, d.s) ELSE d.s
           read == Shown(pict, w, now, codes)
           after == DecoderAfter(pict, w, read, now)
           hasCoefficients == w.type \cap {MB_INTRA, MB_PATTERN} # {}
           between == {ImageOf(x, ShownSkipped(pict, IF x = first THEN d.s ELSE now), FALSE, now) :
                         x \in first .. (last - 1)}
           here == ImageOf(last, read, hasCoefficients, [now EXCEPT !.mquant = after.mquant])
<1>1. /\ i \in 0 .. (mb_width(parms) - 1)
      /\ k + 1 \in 0 .. (mb_width(parms) * mb_height2(parms))
      /\ i = mb_width(parms) - 1 => (k + 1) % mb_width(parms) = 0
      /\ i # mb_width(parms) - 1 =>
           (k + 1) % mb_width(parms) = i + 1 /\ (k + 1) \div mb_width(parms) = Row
      /\ cbp \in BOOLEAN /\ mquant \in Quantisers(pict) /\ IsWritable(pict, m, cbp)
  BY MacroblockIsGood
<1>2. /\ enc' = AfterWritten(pict, m, cbp, mquant, e) /\ MBAinc' = 1 /\ skipped' = <<>>
      /\ DecoderReads(w, meant)
  BY DEF Write
<1>3. /\ dec' = [at |-> last, s |-> after]
      /\ follows' = (follows /\ IsReadable(pict, w) /\ meant = between \cup {here})
  <2> HIDE DEF w, meant
  <2> QED BY <1>2 DEF DecoderReads
<1>4. Together(parms, pict, Row, i, e, d, inc, skipped)
  BY AtMacroblock
<1>5. i \in Nat
  BY <1>1
<1>6. /\ pict.struct # FRAME_PICTURE => ~pict.frame_pred_dct
      /\ \A x \in {Forw, Back} : Uncoded(pict, x) \/ CodeFits(pict, x)
      /\ ReadsCodes(pict, codes)
  BY CodingIsFollowable
<1>7. /\ IsReadable(pict, w) /\ last = i
      /\ after = AfterWritten(pict, m, cbp, mquant, e) /\ GoodMemory(pict, after)
      /\ ShownBetween(parms, pict, Row, first, last, d.s, now) = Range(skipped)
      /\ ImageIn(parms, pict, Row, last, read, hasCoefficients, Requantised(now, after.mquant))
         = ImageIn(parms, pict, Row, i, m, cbp, Requantised(e, mquant))
  <2> HIDE DEF cbp, mquant, codes, e, d, inc, i
  <2> QED BY <1>1, <1>4, <1>5, <1>6, WritesTogether
<1>8. meant = between \cup {here}
  <2> HIDE DEF cbp, mquant, codes, e, d, inc, i, w, first, last, now, read, after, hasCoefficients
  <2>1. ImageOf(i, m, cbp, [e EXCEPT !.mquant = mquant])
        = ImageIn(parms, pict, Row, i, m, cbp, Requantised(e, mquant))
    BY DEF ImageOf, ImageIn, Requantised
  <2>2. here = ImageIn(parms, pict, Row, last, read, hasCoefficients, Requantised(now, after.mquant))
    BY DEF ImageOf, ImageIn, Requantised
  <2>3. between = ShownBetween(parms, pict, Row, first, last, d.s, now)
    BY DEF ImageOf, ImageIn, ShownBetween
  <2> HIDE DEF between, here
  <2> QED BY <1>7, <2>1, <2>2, <2>3
<1> HIDE DEF cbp, mquant, codes, e, d, inc, w, first, last, now, read, after, hasCoefficients, between, here, meant
<1>9. follows'
  BY <1>3, <1>7, <1>8
<1>10. enc' = after /\ dec' = [at |-> i, s |-> after] /\ GoodMemory(pict, after)
  BY <1>2, <1>3, <1>7
<1>11. CASE i = mb_width(parms) - 1
  <2>1. Column' = 0
    BY <1>1, <1>11 DEF Column
  <2>2. enc'.mquant \in Quantisers(pict)
    BY <1>10 DEF GoodMemory
  <2> QED BY <1>1, <1>2, <1>9, <2>1, <2>2 DEF CodingOK
<1>12. CASE i # mb_width(parms) - 1
  <2>1. Column' = i + 1 /\ Row' = Row
    BY <1>1, <1>12 DEF Column, Row
  <2>2. enc'.mquant \in Quantisers(pict)
    BY <1>10 DEF GoodMemory
  <2>3. dec'.at = i /\ dec'.s = enc' /\ GoodMemory(pict, dec'.s)
    BY <1>10
  <2>4. i \in -1 .. ((i + 1) - 1) /\ 1 = (i + 1) - i /\ i = (i + 1) - 1 /\ (i + 1) .. ((i + 1) - 1) = {} /\ i + 1 # 0
    BY <1>5
  <2>5. Range(<<>>) = {} /\ <<>> \in Seq({})
    BY DEF Range
  <2> HIDE DEF i
  <2>6. Together(parms, pict, Row, i + 1, enc', dec', 1, <<>>)
    BY <2>3, <2>4, <2>5 DEF Together
  <2>7. Together(parms, pict, Row, Column, enc, dec, MBAinc, skipped)'
    BY <1>2, <2>1, <2>6
  <2> QED BY <1>1, <1>9, <2>1, <2>2, <2>4, <2>7, <1>2 DEF CodingOK
<1> QED BY <1>11, <1>12

LEMMA BeginsFollows ==
  ASSUME Inv, stage \in {"between", "second"}, NEW c, Begins(c)
  PROVE  CodingOK'
<1>1. PICK quant \in Quantisers(c) : enc' = SliceStart(quant)
  BY DEF Begins
<1>2. pict' = c /\ k' = 0 /\ skipped' = <<>> /\ parms' = parms
  BY DEF Begins
<1>3. enc'.mquant = quant
  BY <1>1 DEF SliceStart
<1>4. GoodParms(parms)
  <2>1. PICK p \in Parameters : IsAccepted(p) /\ parms = Adjusted(p)
    BY DEF Inv, ParmsOK
  <2> QED BY <2>1, ParametersAssumption, AcceptedParms
<1> DEFINE w == mb_width(parms)
           h == mb_height2(parms)
<1>5. w \in Nat \ {0} /\ h \in Nat
  <2>1. mb_height(parms) \in Nat \ {0} /\ parms.fieldpic \in BOOLEAN /\ w \in Nat \ {0}
    BY <1>4 DEF GoodParms
  <2> QED BY <2>1 DEF mb_height2
<1> HIDE DEF w, h
<1>6. 0 % w = 0 /\ 0 \in 0 .. (w * h)
  <2>1. w * h \in Nat
    BY <1>5
  <2>2. 0 = w * 0 + 0 /\ 0 \in Int /\ 0 \in 0 .. w - 1
    BY <1>5
  <2>3. (w * 0 + 0) % w = 0
    BY <1>5, <2>2, Remainder
  <2> QED BY <2>1, <2>2, <2>3
<1>7. k' \in 0 .. (mb_width(parms') * mb_height2(parms')) /\ Column' = 0
  BY <1>2, <1>6 DEF Column, w, h
<1> QED BY <1>1, <1>2, <1>3, <1>7 DEF CodingOK

LEMMA FollowInvStep == Inv /\ FollowInv /\ [Next]_vars => FollowInv'
<1> SUFFICES ASSUME Inv, FollowInv, [Next]_vars PROVE FollowInv'
  OBVIOUS
<1>1. CASE readparmfile
  <2>1. stage = "given" /\ stage' \in {"accepted", "refused"} /\ follows' = follows
    BY <1>1 DEF readparmfile, picture
  <2> QED BY <2>1 DEF FollowInv, CodingOK
<1>2. CASE SimpegWrite_putseq_begin
  <2>1. stage' = "between" /\ follows' = follows /\ parms' = parms
    BY <1>2 DEF SimpegWrite_putseq_begin, picture
  <2> QED BY <2>1 DEF FollowInv, CodingOK
<1>3. ASSUME NEW c, stage \in {"between", "second"}, Begins(c)
      PROVE  FollowInv'
  <2>1. stage' = "coding" /\ follows' = follows /\ parms' = parms
    BY <1>3 DEF Begins
  <2>2. CodingOK'
    BY <1>3, BeginsFollows
  <2> QED BY <2>1, <2>2 DEF FollowInv
<1>4. CASE putseq_encode_bitmap
  BY <1>3, <1>4 DEF putseq_encode_bitmap
<1>5. CASE second_field
  BY <1>3, <1>5 DEF second_field
<1>6. CASE putpict
  <2>1. /\ stage = "coding" /\ k < mb_width(parms) * mb_height2(parms)
        /\ k' = k + 1 /\ UNCHANGED <<stage, parms, isCoded, sequence, pict>>
    BY <1>6 DEF putpict
  <2>2. PICK m \in motion_estimation(parms, pict, 16 * Column, 16 * Row) :
          \E q \in Quantised(m) :
            IF IsSkipped(parms, pict, Column, m, q[1], EncoderAt) THEN Skip(m) ELSE Write(m, q[1], q[2])
    BY <1>6 DEF putpict
  <2>3. PICK q \in Quantised(m) :
          IF IsSkipped(parms, pict, Column, m, q[1], EncoderAt) THEN Skip(m) ELSE Write(m, q[1], q[2])
    BY <2>2
  <2>4. ASSUME IsFollowable(parms)
        PROVE  follows' /\ CodingOK'
    <3>1. follows /\ CodingOK
      BY <2>4 DEF FollowInv
    <3>2. CASE IsSkipped(parms, pict, Column, m, q[1], EncoderAt)
      BY <2>1, <2>3, <2>4, <3>1, <3>2, SkipFollows
    <3>3. CASE ~IsSkipped(parms, pict, Column, m, q[1], EncoderAt)
      BY <2>1, <2>3, <2>4, <3>1, <3>3, WriteFollows
    <3> QED BY <3>2, <3>3
  <2> QED BY <2>1, <2>4 DEF FollowInv
<1>7. CASE end_of_picture
  <2>1. stage' \in {"second", "between"} /\ follows' = follows /\ parms' = parms
    BY <1>7 DEF end_of_picture
  <2> QED BY <2>1 DEF FollowInv, CodingOK
<1>8. CASE UNCHANGED vars
  BY <1>8 DEF vars, FollowInv, CodingOK, Column, Row
<1> QED BY <1>1, <1>2, <1>4, <1>5, <1>6, <1>7, <1>8 DEF Next

(* In every picture of parameters a decoder can follow, whatever motion    *)
(* estimation decides, quantisation leaves and rate control asks for: what *)
(* the decoder shows of each macroblock, also of those the encoder left    *)
(* out, are the very blocks, the quantiser and the DC predictions the      *)
(* encoder meant, every macroblock written has a code, and no slice ends   *)
(* in skipped ones.                                                        *)
THEOREM DecoderAlwaysFollows == Spec => []DecoderFollows
<1>1. FollowInv => DecoderFollows
  BY DEF FollowInv, CodingOK, DecoderFollows
<1> QED BY <1>1, Invariant, FollowInvInit, FollowInvStep, PTL DEF Spec

(***************************************************************************)
(* Headers are read as they were written.                                  *)
(***************************************************************************)
LEMMA PowersOfFields ==
  /\ 2 ^ 3 = 8 /\ 2 ^ 4 = 16 /\ 2 ^ 5 = 32 /\ 2 ^ 6 = 64 /\ 2 ^ 8 = 256 /\ 2 ^ 10 = 1024
  /\ 2 ^ 12 = 4096 /\ 2 ^ 18 = 262144 /\ 2 ^ 2 = 4 /\ 2 ^ 30 = 1073741824
  OBVIOUS

(* A remainder in two parts.                                               *)
LEMMA PartsOfRemainder ==
  ASSUME NEW a \in Int, NEW m \in Nat \ {0}, NEW n \in Nat \ {0}
  PROVE  a % (n * m) = ((a \div m) % n) * m + (a % m)
<1> DEFINE b == a \div m
           r == a % m
           c == b \div n
           s == b % n
<1>1. b \in Int /\ r \in 0 .. m - 1 /\ a = m * b + r
  BY Division
<1>2. c \in Int /\ s \in 0 .. n - 1 /\ b = n * c + s
  BY <1>1, Division
<1> HIDE DEF b, r, c, s
<1>3. n * m \in Nat \ {0}
  BY SMTT(30)
<1>4. s * m + r \in 0 .. (n * m) - 1
  <2>1. s * m <= (n - 1) * m
    BY <1>2
  <2>2. (n - 1) * m = n * m - m
    OBVIOUS
  <2>3. s * m \in Nat
    BY <1>2
  <2> QED BY <1>1, <1>3, <2>1, <2>2, <2>3
<1>5. a = (n * m) * c + (s * m + r)
  <2>1. m * (n * c + s) = (n * m) * c + s * m
    BY <1>2
  <2> QED BY <1>1, <1>2, <2>1
<1>6. ((n * m) * c + (s * m + r)) % (n * m) = s * m + r
  <2> DEFINE nm == n * m
             rest == s * m + r
  <2> HIDE DEF nm, rest
  <2>1. nm \in Nat \ {0} /\ rest \in 0 .. nm - 1 /\ c \in Int
    BY <1>2, <1>3, <1>4 DEF nm, rest
  <2>2. (nm * c + rest) % nm = rest
    BY <2>1, Remainder
  <2> QED BY <2>2 DEF nm, rest
<1>7. a % (n * m) = s * m + r
  BY <1>5, <1>6
<1> QED BY <1>7 DEF b, r, s

LEMMA RatesAre ==
  ASSUME NEW code \in 1 .. 8
  PROVE  fps(code) \in 24 .. 60
<1>1. code \in {1, 2, 3, 4, 5, 6, 7, 8}
  OBVIOUS
<1> QED BY <1>1 DEF fps

(* The time code of any frame tells which one of a day it is.              *)
LEMMA TimeIsRead ==
  ASSUME NEW p, p.frame_rate_code \in 1 .. 8, NEW frame \in Nat
  PROVE  LET n == fps(p.frame_rate_code)
             t == frametotc(p, frame)
         IN frame % (86400 * n) = ((t.hour * 60 + t.minute) * 60 + t.sec) * n + t.pict
<1> DEFINE n == fps(p.frame_rate_code)
           t == frametotc(p, frame)
           s == frame \div n
<1>1. n \in 24 .. 60
  BY RatesAre
<1>2. /\ t.hour = ((s \div 3600) % 24) % 32 /\ t.minute = ((s \div 60) % 60) % 64
      /\ t.sec = (s % 60) % 64 /\ t.pict = (frame % n) % 64
  BY PowersOfFields DEF frametotc, putbits
<1> HIDE DEF n, t
<1>3. s \in Int /\ frame % n \in 0 .. n - 1
  BY <1>1, Division
<1>4. frame % (86400 * n) = (s % 86400) * n + (frame % n)
  <2> DEFINE day == 86400
  <2>1. day \in Nat \ {0} /\ n \in Nat \ {0} /\ frame \in Int
    BY <1>1
  <2> HIDE DEF day
  <2>2. frame % (day * n) = (s % day) * n + (frame % n)
    BY <2>1, PartsOfRemainder
  <2> QED BY <2>2 DEF day
<1> HIDE DEF s
<1>5. t.pict = frame % n
  <2> DEFINE r == frame % n
  <2>1. r \in 0 .. 59
    BY <1>1, <1>3
  <2> HIDE DEF r
  <2>2. r % 64 = r
    BY <2>1
  <2> QED BY <1>2, <2>2 DEF r
<1>6. s % 86400 = (t.hour * 60 + t.minute) * 60 + t.sec
  <2>1. t.hour = (s \div 3600) % 24 /\ t.minute = (s \div 60) % 60 /\ t.sec = s % 60
    BY <1>2, <1>3
  <2> QED BY <1>3, <2>1
<1> QED BY <1>4, <1>5, <1>6 DEF n, t

(* The code of a slice, where it has one, tells its row.                   *)
LEMMA SliceIsRead ==
  ASSUME NEW p, p.vertical_size \in Nat, p.vertical_size <= 16383,
         mb_height2(p) <= 175 \/ (~p.mpeg1 /\ p.vertical_size > 2800),
         NEW row \in 0 .. (mb_height2(p) - 1)
  PROVE  LET s == slice(p, row)
         IN s.start_code \in 1 .. 175 /\ row = s.start_code - 1 + 128 * s.extension
<1>1. mb_height2(p) \in Nat /\ mb_height2(p) <= 1024
  <2> DEFINE v == p.vertical_size
             a == (v + 15) \div 16
             b == 2 * ((v + 31) \div 32)
  <2>1. v \in Nat /\ v <= 16383
    OBVIOUS
  <2> HIDE DEF v
  <2>4. a \in Nat /\ a <= 1024 /\ (v + 31) \div 32 \in 0 .. 512
    BY <2>1
  <2>5. b \in Nat /\ b <= 1024
    BY <2>4
  <2>2. mb_height(p) \in {a, b}
    BY DEF mb_height, v
  <2> HIDE DEF a, b
  <2>3. mb_height2(p) \in {a, b, a \div 2, b \div 2}
    BY <2>2 DEF mb_height2
  <2> QED BY <2>3, <2>4, <2>5
<1>2. CASE p.mpeg1 \/ p.vertical_size <= 2800
  <2>1. slice(p, row) = [start_code |-> 1 + row, extension |-> 0]
    BY <1>2 DEF slice
  <2>2. mb_height2(p) <= 175
    BY <1>1, <1>2
  <2> QED BY <1>1, <2>1, <2>2
<1>3. CASE ~(p.mpeg1 \/ p.vertical_size <= 2800)
  <2>1. slice(p, row) = [start_code |-> 1 + (row % 128), extension |-> (row \div 128) % 8]
    BY <1>3, PowersOfFields DEF slice, putbits
  <2>2. row \in Nat /\ row <= 1023
    BY <1>1
  <2> DEFINE a == row \div 128
             b == row % 128
  <2>3. a \in Int /\ b \in 0 .. 127 /\ row = 128 * a + b
    BY <2>2
  <2> HIDE DEF a, b
  <2>4. a % 8 = a
    BY <2>2, <2>3
  <2>5. slice(p, row) = [start_code |-> 1 + b, extension |-> a]
    BY <2>1, <2>4 DEF a, b
  <2>6. slice(p, row).start_code = 1 + b /\ slice(p, row).extension = a
    BY <2>5
  <2>7. 1 + b \in 1 .. 175 /\ row = (1 + b) - 1 + 128 * a
    BY <2>3
  <2> QED BY <2>6, <2>7
<1> QED BY <1>2, <1>3

(***************************************************************************)
(* What becomes of each parameter.                                         *)
(***************************************************************************)
IsRecord(q) == q = [n \in Names |-> q[n]]

OfScansNames == {"prog_frame", "fieldpic", "repeatfirst", "frame_pred_dct_tab", "topfirst"}
OfMpeg1Names == {"constrparms", "prog_seq", "chroma_format", "dc_prec", "qscale_tab", "intravlc_tab"}

(* q is what OfScans() makes of p, where it looks.                         *)
ScansOf(q, p) ==
  /\ q.prog_frame = (p.prog_frame \/ q.prog_seq)
  /\ q.fieldpic = (p.fieldpic /\ ~q.prog_frame)
  /\ q.repeatfirst = (p.repeatfirst /\ q.prog_frame)
  /\ q.frame_pred_dct_tab = IF q.prog_frame THEN Always(TRUE) ELSE p.frame_pred_dct_tab
  /\ q.topfirst = (p.topfirst /\ (q.prog_seq => p.repeatfirst /\ q.prog_frame))

LEMMA ScansAre ==
  ASSUME NEW p, IsRecord(p)
  PROVE  LET q == OfScans(p) IN
         IsRecord(q) /\ ScansOf(q, p) /\ \A n \in Names \ OfScansNames : q[n] = p[n]
<1> DEFINE r == [p EXCEPT !.prog_frame = @ \/ p.prog_seq]
           q == OfScans(p)
<1>0. DOMAIN p = Names
  BY DEF IsRecord
<1>1. /\ DOMAIN r = Names /\ r.prog_frame = (p.prog_frame \/ p.prog_seq)
      /\ \A n \in Names \ {"prog_frame"} : r[n] = p[n]
  BY <1>0 DEF Names
<1>2. q = [r EXCEPT !.fieldpic = @ /\ ~r.prog_frame,
                    !.repeatfirst = @ /\ r.prog_frame,
                    !.frame_pred_dct_tab = IF r.prog_frame THEN Always(TRUE) ELSE @,
                    !.topfirst = @ /\ (r.prog_seq => p.repeatfirst /\ r.prog_frame)]
  BY DEF OfScans
<1> HIDE DEF r, q
<1>3. /\ r.fieldpic = p.fieldpic /\ r.repeatfirst = p.repeatfirst /\ r.topfirst = p.topfirst
      /\ r.frame_pred_dct_tab = p.frame_pred_dct_tab /\ r.prog_seq = p.prog_seq
  BY <1>1 DEF Names
<1>4. /\ q.fieldpic = (r.fieldpic /\ ~r.prog_frame)
      /\ q.repeatfirst = (r.repeatfirst /\ r.prog_frame)
      /\ q.frame_pred_dct_tab = (IF r.prog_frame THEN Always(TRUE) ELSE r.frame_pred_dct_tab)
      /\ q.topfirst = (r.topfirst /\ (r.prog_seq => p.repeatfirst /\ r.prog_frame))
      /\ q.prog_frame = r.prog_frame /\ q.prog_seq = r.prog_seq
      /\ \A n \in Names \ OfScansNames : q[n] = r[n]
  BY <1>1, <1>2 DEF Names, OfScansNames
<1>5. IsRecord(q)
  BY <1>1, <1>2 DEF IsRecord, Names
<1>6. \A n \in Names \ OfScansNames : q[n] = p[n]
  BY <1>1, <1>4 DEF OfScansNames
<1>7. ScansOf(q, p)
  BY <1>1, <1>3, <1>4 DEF ScansOf
<1> QED BY <1>5, <1>6, <1>7 DEF q

(* The same of OfMpeg1(), or what is done for MPEG-2.                      *)
VersionOf(q, p) ==
  IF p.mpeg1
    THEN /\ q.constrparms = (p.constrparms /\ IsConstrained(p)) /\ q.prog_seq = TRUE
         /\ q.chroma_format = CHROMA420 /\ q.dc_prec = 0
         /\ q.qscale_tab = Always(FALSE) /\ q.intravlc_tab = Always(FALSE)
    ELSE /\ q.constrparms = FALSE
         /\ \A n \in OfMpeg1Names \ {"constrparms"} : q[n] = p[n]

OfVersion(p) == IF p.mpeg1 THEN OfMpeg1(p) ELSE [p EXCEPT !.constrparms = FALSE]

LEMMA VersionIs ==
  ASSUME NEW p, IsRecord(p)
  PROVE  LET q == OfVersion(p) IN
         IsRecord(q) /\ VersionOf(q, p) /\ \A n \in Names \ OfMpeg1Names : q[n] = p[n]
<1> DEFINE q == OfVersion(p)
<1>0. DOMAIN p = Names
  BY DEF IsRecord
<1>1. CASE p.mpeg1
  <2>1. q = [p EXCEPT !.constrparms = @ /\ IsConstrained(p), !.prog_seq = TRUE,
                      !.chroma_format = CHROMA420, !.dc_prec = 0,
                      !.qscale_tab = Always(FALSE), !.intravlc_tab = Always(FALSE)]
    BY <1>1 DEF OfVersion, OfMpeg1
  <2> HIDE DEF q
  <2>2. IsRecord(q)
    BY <1>0, <2>1 DEF IsRecord, Names
  <2>3. \A n \in Names \ OfMpeg1Names : q[n] = p[n]
    BY <1>0, <2>1 DEF Names, OfMpeg1Names
  <2>4. /\ q.constrparms = (p.constrparms /\ IsConstrained(p)) /\ q.prog_seq = TRUE
        /\ q.chroma_format = CHROMA420 /\ q.dc_prec = 0
        /\ q.qscale_tab = Always(FALSE) /\ q.intravlc_tab = Always(FALSE)
    BY <1>0, <2>1 DEF Names
  <2> QED BY <1>1, <2>2, <2>3, <2>4 DEF VersionOf, q
<1>2. CASE ~p.mpeg1
  <2>1. q = [p EXCEPT !.constrparms = FALSE]
    BY <1>2 DEF OfVersion
  <2> HIDE DEF q
  <2>2. IsRecord(q)
    BY <1>0, <2>1 DEF IsRecord, Names
  <2>3. \A n \in Names \ {"constrparms"} : q[n] = p[n]
    BY <1>0, <2>1 DEF Names
  <2>4. q.constrparms = FALSE
    BY <1>0, <2>1 DEF Names
  <2> QED BY <1>2, <2>2, <2>3, <2>4 DEF VersionOf, OfMpeg1Names, Names, q
<1> QED BY <1>1, <1>2

ReducedMotion(p) ==
  [i \in 0 .. (p.M - 1) |->
     [d \in {Forw, Back} |-> IF <<i, d>> \in Uses(p) THEN ReducedWindow(p.motion_data[i][d])
                             ELSE p.motion_data[i][d]]]

LEMMA WindowsAre ==
  ASSUME NEW p, IsRecord(p)
  PROVE  LET q == OfWindows(p) IN
         /\ IsRecord(q) /\ q.motion_data = ReducedMotion(p)
         /\ \A n \in Names \ {"motion_data"} : q[n] = p[n]
<1> DEFINE q == OfWindows(p)
<1>0. DOMAIN p = Names
  BY DEF IsRecord
<1>1. q = [p EXCEPT !.motion_data = ReducedMotion(p)]
  BY <1>0 DEF OfWindows, ReducedMotion, Names
<1> HIDE DEF q
<1> QED BY <1>0, <1>1 DEF IsRecord, Names, q

LEMMA AdjustedAre ==
  ASSUME NEW p, IsRecord(p)
  PROVE  LET q == Adjusted(p) IN
         /\ IsRecord(q) /\ VersionOf(q, p) /\ ScansOf(q, p)
         /\ q.motion_data = ReducedMotion(p)
         /\ \A n \in Names \ (OfScansNames \cup OfMpeg1Names \cup {"motion_data"}) : q[n] = p[n]
<1> DEFINE v == OfVersion(p)
           s == OfScans(v)
           q == OfWindows(s)
<1>1. IsRecord(v) /\ VersionOf(v, p) /\ \A n \in Names \ OfMpeg1Names : v[n] = p[n]
  BY VersionIs
<1>2. IsRecord(s) /\ ScansOf(s, v) /\ \A n \in Names \ OfScansNames : s[n] = v[n]
  <2> HIDE DEF v
  <2> QED BY <1>1, ScansAre
<1>3. /\ IsRecord(q) /\ q.motion_data = ReducedMotion(s)
      /\ \A n \in Names \ {"motion_data"} : q[n] = s[n]
  <2> HIDE DEF s
  <2> QED BY <1>2, WindowsAre
<1>4. q = Adjusted(p)
  BY DEF Adjusted, OfVersion
<1> HIDE DEF v, s, q
<1>5. \A n \in Names \ (OfScansNames \cup OfMpeg1Names \cup {"motion_data"}) : q[n] = p[n]
  BY <1>1, <1>2, <1>3
<1>6. VersionOf(q, p)
  <2>1. \A n \in OfMpeg1Names : q[n] = v[n]
    BY <1>2, <1>3 DEF OfMpeg1Names, OfScansNames, Names
  <2> QED BY <1>1, <2>1 DEF VersionOf, OfMpeg1Names
<1>7. ScansOf(q, p)
  <2>1. \A n \in OfScansNames \cup {"prog_seq"} : q[n] = s[n]
    BY <1>3 DEF OfScansNames, Names
  <2>2. \A n \in OfScansNames : v[n] = p[n]
    BY <1>1 DEF OfScansNames, Names, OfMpeg1Names
  <2> QED BY <1>2, <2>1, <2>2 DEF ScansOf, OfScansNames
<1>8. ReducedMotion(s) = ReducedMotion(p)
  <2>1. s.M = p.M /\ s.motion_data = p.motion_data
    BY <1>1, <1>2 DEF OfScansNames, OfMpeg1Names, Names
  <2>2. Uses(s) = Uses(p)
    BY <2>1 DEF Uses
  <2> QED BY <2>1, <2>2 DEF ReducedMotion
<1> QED BY <1>3, <1>4, <1>5, <1>6, <1>7, <1>8

LEMMA SameRecord ==
  ASSUME NEW q, NEW r, IsRecord(q), IsRecord(r), \A n \in Names : q[n] = r[n]
  PROVE  q = r
<1>1. [n \in Names |-> q[n]] = [n \in Names |-> r[n]]
  OBVIOUS
<1> QED BY <1>1 DEF IsRecord

(* Parameters that are as adjusted already stay as they are.               *)
LEMMA NothingToAdjust ==
  ASSUME NEW q, IsRecord(q), VersionOf(q, q), ScansOf(q, q), q.motion_data = ReducedMotion(q)
  PROVE  Adjusted(q) = q
<1> DEFINE r == Adjusted(q)
<1>1. /\ IsRecord(r) /\ VersionOf(r, q) /\ ScansOf(r, q) /\ r.motion_data = ReducedMotion(q)
      /\ \A n \in Names \ (OfScansNames \cup OfMpeg1Names \cup {"motion_data"}) : r[n] = q[n]
  BY AdjustedAre
<1> HIDE DEF r
<1>2. \A n \in OfMpeg1Names : r[n] = q[n]
  BY <1>1 DEF VersionOf, OfMpeg1Names
<1>3. \A n \in OfScansNames : r[n] = q[n]
  <2>1. r.prog_seq = q.prog_seq
    BY <1>2 DEF OfMpeg1Names
  <2>2. r.prog_frame = q.prog_frame
    BY <1>1, <2>1 DEF ScansOf
  <2> QED BY <1>1, <2>1, <2>2 DEF ScansOf, OfScansNames
<1>4. \A n \in Names : r[n] = q[n]
  BY <1>1, <1>2, <1>3
<1> QED BY <1>1, <1>4, SameRecord DEF r

LEMMA ReducedIs ==
  ASSUME NEW code, NEW s
  PROVE  ReducedWindow([code |-> code, s |-> s])
         = [code |-> code, s |-> [axis \in {1, 2} |-> Least(s[axis], 4 * 2 ^ code[axis] - 1)]]
<1> DEFINE m == [code |-> code, s |-> s]
           t == [axis \in {1, 2} |-> Least(m.s[axis], 4 * 2 ^ m.code[axis] - 1)]
<1>1. ReducedWindow(m) = [m EXCEPT !.s = t]
  BY DEF ReducedWindow
<1>2. t = [axis \in {1, 2} |-> Least(s[axis], 4 * 2 ^ code[axis] - 1)]
  OBVIOUS
<1> HIDE DEF t
<1>3. [m EXCEPT !.s = t] = [code |-> code, s |-> t]
  OBVIOUS
<1> QED BY <1>1, <1>2, <1>3

LEMMA ReducedTwice ==
  ASSUME NEW m \in MotionData
  PROVE  ReducedWindow(ReducedWindow(m)) = ReducedWindow(m)
<1> DEFINE most(axis) == 4 * 2 ^ m.code[axis] - 1
           s == [axis \in {1, 2} |-> Least(m.s[axis], most(axis))]
<1>1. m = [code |-> m.code, s |-> m.s]
  BY DEF MotionData
<1>2. ReducedWindow(m) = [code |-> m.code, s |-> s]
  BY <1>1, ReducedIs
<1>3. \A axis \in {1, 2} : Least(s[axis], most(axis)) = s[axis]
  <2> HIDE DEF most
  <2> QED BY DEF Least
<1>4. [axis \in {1, 2} |-> Least(s[axis], most(axis))] = s
  BY <1>3
<1> HIDE DEF s
<1>5. ReducedWindow([code |-> m.code, s |-> s]) = [code |-> m.code, s |-> s]
  BY <1>4, ReducedIs
<1> QED BY <1>2, <1>5

LEMMA ParametersAre ==
  ASSUME NEW p, IsParameters(p)
  PROVE  /\ IsRecord(p)
         /\ p.mpeg1 \in BOOLEAN /\ p.constrparms \in BOOLEAN /\ p.fieldpic \in BOOLEAN
         /\ p.N \in Int /\ p.M \in Int /\ p.horizontal_size \in Int /\ p.vertical_size \in Int
         /\ p.bit_rate \in Int /\ p.vbv_buffer_size \in Int /\ p.frame_rate_code \in Int
         /\ \A u \in Uses(p) : p.motion_data[u[1]][u[2]] \in MotionData
<1>1. IsRecord(p)
  BY DEF IsParameters, IsRecord, Names
<1>2. \A u \in Uses(p) : p.motion_data[u[1]][u[2]] \in MotionData
  BY DEF IsParameters, Uses
<1> QED BY <1>1, <1>2 DEF IsParameters

(* What a file gives that is left as it is, and what may only be lost.     *)
Keeps(q, p) ==
  /\ q.mpeg1 = p.mpeg1 /\ q.N = p.N /\ q.M = p.M
  /\ q.horizontal_size = p.horizontal_size /\ q.vertical_size = p.vertical_size
  /\ q.aspectratio = p.aspectratio /\ q.frame_rate_code = p.frame_rate_code
  /\ q.bit_rate = p.bit_rate /\ q.vbv_buffer_size = p.vbv_buffer_size
  /\ q.profile = p.profile /\ q.level = p.level

LEMMA AdjustedKeeps ==
  ASSUME NEW p, IsRecord(p)
  PROVE  Keeps(Adjusted(p), p)
<1> DEFINE q == Adjusted(p)
<1>1. \A n \in Names \ (OfScansNames \cup OfMpeg1Names \cup {"motion_data"}) : q[n] = p[n]
  BY AdjustedAre
<1> HIDE DEF q
<1>2. /\ q["mpeg1"] = p["mpeg1"] /\ q["N"] = p["N"] /\ q["M"] = p["M"]
      /\ q["horizontal_size"] = p["horizontal_size"] /\ q["vertical_size"] = p["vertical_size"]
      /\ q["aspectratio"] = p["aspectratio"] /\ q["frame_rate_code"] = p["frame_rate_code"]
      /\ q["bit_rate"] = p["bit_rate"] /\ q["vbv_buffer_size"] = p["vbv_buffer_size"]
      /\ q["profile"] = p["profile"] /\ q["level"] = p["level"]
  BY <1>1 DEF Names, OfScansNames, OfMpeg1Names
<1> QED BY <1>2 DEF Keeps, q

LEMMA AdjustedMotion ==
  ASSUME NEW p, IsParameters(p)
  PROVE  LET q == Adjusted(p) IN
         /\ Uses(q) = Uses(p)
         /\ \A u \in Uses(p) :
              LET m == q.motion_data[u[1]][u[2]]
                  given == p.motion_data[u[1]][u[2]]
              IN m = ReducedWindow(given)
                 /\ m.code = given.code
                 /\ \A axis \in {1, 2} : m.s[axis] = Least(given.s[axis], 4 * 2 ^ given.code[axis] - 1)
<1> DEFINE q == Adjusted(p)
<1>1. q.motion_data = ReducedMotion(p) /\ Keeps(q, p)
  BY ParametersAre, AdjustedAre, AdjustedKeeps
<1>2. Uses(q) = Uses(p)
  BY <1>1 DEF Uses, Keeps
<1> HIDE DEF q
<1>3. ASSUME NEW u \in Uses(p)
      PROVE  LET m == q.motion_data[u[1]][u[2]]
                 given == p.motion_data[u[1]][u[2]]
             IN m = ReducedWindow(given)
                /\ m.code = given.code
                /\ \A axis \in {1, 2} : m.s[axis] = Least(given.s[axis], 4 * 2 ^ given.code[axis] - 1)
  <2> DEFINE given == p.motion_data[u[1]][u[2]]
             s == [axis \in {1, 2} |-> Least(given.s[axis], 4 * 2 ^ given.code[axis] - 1)]
             m == q.motion_data[u[1]][u[2]]
  <2>1. u[1] \in 0 .. (p.M - 1) /\ u[2] \in {Forw, Back} /\ <<u[1], u[2]>> \in Uses(p)
    BY DEF Uses
  <2>2. m = ReducedWindow(given)
    BY <1>1, <2>1 DEF ReducedMotion
  <2>3. given \in MotionData
    BY ParametersAre
  <2>4. given = [code |-> given.code, s |-> given.s] /\ given.code \in Int \X Int
    BY <2>3 DEF MotionData
  <2>5. ReducedWindow(given) = [code |-> given.code, s |-> s]
    BY <2>4, ReducedIs
  <2> HIDE DEF m, s
  <2>6. m.code = given.code /\ m.s = s
    BY <2>2, <2>5
  <2>7. \A axis \in {1, 2} : m.s[axis] = Least(given.s[axis], 4 * 2 ^ given.code[axis] - 1)
    BY <2>6 DEF s
  <2> QED BY <2>2, <2>6, <2>7 DEF m
<1> QED BY <1>2, <1>3 DEF q

(* What parameters are constrained in: frames and f_codes.                 *)
SmallFrames(h, v, code) ==
  LET mbs == ((h + 15) \div 16) * ((v + 15) \div 16)
  IN h <= 768 /\ v <= 576 /\ mbs <= 396 /\ ~Exceeds(mbs, code, 396 * 25) /\ code <= 5
LowCodes(p) == \A u \in Uses(p), axis \in {1, 2} : p.motion_data[u[1]][u[2]].code[axis] <= 4

LEMMA ConstrainedIs ==
  ASSUME NEW p
  PROVE  IsConstrained(p)
         = (SmallFrames(p.horizontal_size, p.vertical_size, p.frame_rate_code) /\ LowCodes(p))
<1>1. ASSUME IsConstrained(p)
      PROVE  SmallFrames(p.horizontal_size, p.vertical_size, p.frame_rate_code)
  BY <1>1 DEF IsConstrained, SmallFrames
<1>2. ASSUME IsConstrained(p)
      PROVE  LowCodes(p)
  BY <1>2 DEF IsConstrained, LowCodes
<1>3. ASSUME SmallFrames(p.horizontal_size, p.vertical_size, p.frame_rate_code), LowCodes(p)
      PROVE  IsConstrained(p)
  BY <1>3 DEF IsConstrained, SmallFrames, LowCodes
<1>4. IsConstrained(p) \in BOOLEAN
  BY DEF IsConstrained
<1> QED BY <1>1, <1>2, <1>3, <1>4

LEMMA AdjustedTwice ==
  ASSUME NEW p, IsParameters(p)
  PROVE  Adjusted(Adjusted(p)) = Adjusted(p)
<1> DEFINE q == Adjusted(p)
<1>1. /\ IsRecord(q) /\ VersionOf(q, p) /\ ScansOf(q, p) /\ q.motion_data = ReducedMotion(p)
      /\ Keeps(q, p)
  BY ParametersAre, AdjustedAre, AdjustedKeeps
<1>2. /\ Uses(q) = Uses(p)
      /\ \A u \in Uses(p) :
           /\ q.motion_data[u[1]][u[2]] = ReducedWindow(p.motion_data[u[1]][u[2]])
           /\ q.motion_data[u[1]][u[2]].code = p.motion_data[u[1]][u[2]].code
  BY AdjustedMotion
<1> HIDE DEF q
<1>3. VersionOf(q, q)
  <2>1. IsConstrained(q) = IsConstrained(p)
    <3>1. /\ q.horizontal_size = p.horizontal_size /\ q.vertical_size = p.vertical_size
          /\ q.frame_rate_code = p.frame_rate_code
      BY <1>1 DEF Keeps
    <3>2. LowCodes(q) = LowCodes(p)
      <4>1. LowCodes(p) => LowCodes(q)
        BY <1>2 DEF LowCodes
      <4>2. LowCodes(q) => LowCodes(p)
        BY <1>2 DEF LowCodes
      <4> QED BY <4>1, <4>2 DEF LowCodes
    <3>3. /\ IsConstrained(p) = (SmallFrames(p.horizontal_size, p.vertical_size, p.frame_rate_code) /\ LowCodes(p))
          /\ IsConstrained(q) = (SmallFrames(q.horizontal_size, q.vertical_size, q.frame_rate_code) /\ LowCodes(q))
      BY ConstrainedIs
    <3> QED BY <3>1, <3>2, <3>3
  <2> QED BY <1>1, <2>1 DEF VersionOf, Keeps
<1>4. ScansOf(q, q)
  BY <1>1 DEF ScansOf
<1>5. q.motion_data = ReducedMotion(q)
  <2>1. ASSUME NEW i \in 0 .. (p.M - 1), NEW d \in {Forw, Back}
        PROVE  q.motion_data[i][d] = IF <<i, d>> \in Uses(q) THEN ReducedWindow(q.motion_data[i][d])
                                     ELSE q.motion_data[i][d]
    <3>1. CASE <<i, d>> \in Uses(p)
      <4> DEFINE given == p.motion_data[i][d]
      <4>1. q.motion_data[i][d] = ReducedWindow(given)
        BY <1>1, <3>1 DEF ReducedMotion
      <4>2. given \in MotionData
        <5>1. <<i, d>>[1] = i /\ <<i, d>>[2] = d
          OBVIOUS
        <5> QED BY <3>1, <5>1, ParametersAre
      <4>3. ReducedWindow(ReducedWindow(given)) = ReducedWindow(given)
        BY <4>2, ReducedTwice
      <4> QED BY <1>2, <3>1, <4>1, <4>3
    <3>2. CASE <<i, d>> \notin Uses(p)
      BY <1>2, <3>2
    <3> QED BY <3>1, <3>2
  <2>2. q.motion_data = [i \in 0 .. (p.M - 1) |-> [d \in {Forw, Back} |-> q.motion_data[i][d]]]
    BY <1>1 DEF ReducedMotion
  <2>3. q.M = p.M
    BY <1>1 DEF Keeps
  <2> DEFINE old(i, d) == q.motion_data[i][d]
             new(i, d) == IF <<i, d>> \in Uses(q) THEN ReducedWindow(q.motion_data[i][d])
                          ELSE q.motion_data[i][d]
  <2>4. \A i \in 0 .. (p.M - 1), d \in {Forw, Back} : old(i, d) = new(i, d)
    BY <2>1
  <2>5. q.motion_data = [i \in 0 .. (p.M - 1) |-> [d \in {Forw, Back} |-> old(i, d)]]
    BY <2>2
  <2>6. ReducedMotion(q) = [i \in 0 .. (p.M - 1) |-> [d \in {Forw, Back} |-> new(i, d)]]
    BY <2>3 DEF ReducedMotion
  <2> HIDE DEF old, new
  <2> QED BY <2>4, <2>5, <2>6
<1> QED BY <1>1, <1>3, <1>4, <1>5, NothingToAdjust DEF q

(* The checks, in groups.                                                  *)
SizesInRange(p) ==
  \A size \in {p.horizontal_size, p.vertical_size} :
    /\ size >= 1 /\ size <= 16383 /\ size % 4096 # 0
    /\ p.mpeg1 => size <= 4095
FitsChrominance(p) ==
  /\ p.chroma_format # CHROMA444 => p.horizontal_size % 2 = 0
  /\ p.chroma_format = CHROMA420 => p.vertical_size % 2 = 0
  /\ p.fieldpic => p.vertical_size % (IF p.chroma_format = CHROMA420 THEN 4 ELSE 2) = 0
  /\ p.chroma_format \in CHROMA420..CHROMA444
  /\ p.dc_prec \in 0..3
RatesInRange(p) ==
  /\ p.aspectratio \in 1..(IF p.mpeg1 THEN 14 ELSE 4)
  /\ p.frame_rate_code \in 1..8
  /\ p.bit_rate > 0 /\ p.bit_rate <= 2 * (2 ^ 30 - 1)
  /\ p.mpeg1 => p.bit_rate <= 2 * (2 ^ 18 - 1)
  /\ p.vbv_buffer_size \in 1..(2 ^ 18 - 1)
  /\ p.mpeg1 => p.vbv_buffer_size < 1024

MotionInRange(p) == \A u \in Uses(p) : HasRange(p, p.motion_data[u[1]][u[2]])

LEMMA RangeChecksAre ==
  ASSUME NEW p
  PROVE  simpeg_encode_range_checks(p)
         <=> SizesInRange(p) /\ FitsChrominance(p) /\ RatesInRange(p) /\ MotionInRange(p)
<1>1. ASSUME simpeg_encode_range_checks(p)
      PROVE  SizesInRange(p)
  BY <1>1 DEF simpeg_encode_range_checks, SizesInRange
<1>2. ASSUME simpeg_encode_range_checks(p)
      PROVE  FitsChrominance(p)
  BY <1>2 DEF simpeg_encode_range_checks, FitsChrominance
<1>3. ASSUME simpeg_encode_range_checks(p)
      PROVE  RatesInRange(p)
  BY <1>3 DEF simpeg_encode_range_checks, RatesInRange
<1>4. ASSUME simpeg_encode_range_checks(p)
      PROVE  MotionInRange(p)
  BY <1>4 DEF simpeg_encode_range_checks, MotionInRange
<1>5. ASSUME SizesInRange(p), FitsChrominance(p), RatesInRange(p), MotionInRange(p)
      PROVE  simpeg_encode_range_checks(p)
  BY <1>5 DEF simpeg_encode_range_checks, SizesInRange, FitsChrominance, RatesInRange, MotionInRange
<1> QED BY <1>1, <1>2, <1>3, <1>4, <1>5

(* The checks let adjusted parameters through again.                       *)
LEMMA RangesAgain ==
  ASSUME NEW p, IsParameters(p), simpeg_encode_range_checks(p), IsStable(Adjusted(p))
  PROVE  simpeg_encode_range_checks(Adjusted(p))
<1> DEFINE q == Adjusted(p)
<1>1. VersionOf(q, p) /\ ScansOf(q, p) /\ Keeps(q, p)
  BY ParametersAre, AdjustedAre, AdjustedKeeps
<1>2. /\ Uses(q) = Uses(p)
      /\ \A u \in Uses(p) :
           LET m == q.motion_data[u[1]][u[2]]
               given == p.motion_data[u[1]][u[2]]
           IN m.code = given.code
              /\ \A axis \in {1, 2} : m.s[axis] = Least(given.s[axis], 4 * 2 ^ given.code[axis] - 1)
  BY AdjustedMotion
<1>3. p.mpeg1 \in BOOLEAN /\ p.fieldpic \in BOOLEAN
  BY ParametersAre
<1> HIDE DEF q
<1>4. ASSUME NEW u \in Uses(p)
      PROVE  HasRange(q, q.motion_data[u[1]][u[2]])
  <2> DEFINE m == q.motion_data[u[1]][u[2]]
             given == p.motion_data[u[1]][u[2]]
  <2>1. HasRange(p, given)
    BY DEF simpeg_encode_range_checks
  <2>2. m.code = given.code /\ \A axis \in {1, 2} : m.s[axis] = Least(given.s[axis], 4 * 2 ^ given.code[axis] - 1)
    BY <1>2
  <2> HIDE DEF m, given
  <2>3. ASSUME NEW axis \in {1, 2}
        PROVE  m.code[axis] \in 1 .. (IF q.mpeg1 THEN 7 ELSE 9) /\ m.s[axis] > 0
    <3> DEFINE code == given.code[axis]
    <3>1. code \in 1 .. (IF p.mpeg1 THEN 7 ELSE 9) /\ given.s[axis] > 0
      BY <2>1 DEF HasRange
    <3>2. code \in 1 .. 9
      BY <2>1, InRange
    <3> HIDE DEF code
    <3>3. 2 ^ code \in Nat /\ 2 ^ code >= 2
      <4>1. 2 ^ (code - 1) \in Nat \ {0} /\ 2 ^ code = 2 * 2 ^ (code - 1)
        BY <3>2, PowersAre
      <4> QED BY <4>1
    <3>4. Least(given.s[axis], 4 * 2 ^ code - 1) > 0
      BY <3>1, <3>3 DEF Least
    <3>5. q.mpeg1 = p.mpeg1
      BY <1>1 DEF Keeps
    <3> QED BY <2>2, <3>1, <3>4, <3>5 DEF code
  <2> QED BY <2>3 DEF HasRange, m
<1>5. MotionInRange(q)
  BY <1>2, <1>4 DEF MotionInRange
<1>0. q.vertical_size = p.vertical_size /\ q.horizontal_size = p.horizontal_size
  BY <1>1 DEF Keeps
<1>8. SizesInRange(q)
  <2>1. SizesInRange(p) /\ q.mpeg1 = p.mpeg1
    BY <1>1, RangeChecksAre DEF Keeps
  <2> QED BY <1>0, <2>1 DEF SizesInRange
<1>9. RatesInRange(q)
  <2>1. RatesInRange(p)
    BY RangeChecksAre
  <2>2. /\ q.mpeg1 = p.mpeg1 /\ q.aspectratio = p.aspectratio /\ q.frame_rate_code = p.frame_rate_code
        /\ q.bit_rate = p.bit_rate /\ q.vbv_buffer_size = p.vbv_buffer_size
    BY <1>1 DEF Keeps
  <2> QED BY <2>1, <2>2 DEF RatesInRange
<1>10. FitsChrominance(p)
  BY RangeChecksAre
<1>6. ASSUME p.mpeg1
      PROVE  FitsChrominance(q)
  <2>1. q.chroma_format = CHROMA420 /\ q.dc_prec = 0 /\ ~q.fieldpic
    BY <1>1, <1>6 DEF VersionOf, ScansOf
  <2>2. q.horizontal_size % 2 = 0 /\ q.vertical_size % 2 = 0
    BY <1>1, <1>6 DEF IsStable, Keeps, q
  <2> QED BY <2>1, <2>2 DEF FitsChrominance, CHROMA420, CHROMA444
<1>7. ASSUME ~p.mpeg1
      PROVE  FitsChrominance(q)
  <2>1. q.chroma_format = p.chroma_format /\ q.dc_prec = p.dc_prec /\ (q.fieldpic => p.fieldpic)
    BY <1>1, <1>3, <1>7 DEF VersionOf, ScansOf, OfMpeg1Names
  <2> QED BY <1>0, <1>10, <2>1, Zenon DEF FitsChrominance
<1>11. simpeg_encode_range_checks(q)
  BY <1>3, <1>5, <1>6, <1>7, <1>8, <1>9, RangeChecksAre
<1> QED BY <1>11 DEF q

(* What a profile and its level allow, but for the motion data.            *)
LevelOK(p) ==
  LET max == maxval_tab(p.level) IN
  /\ <<p.profile, p.level>> \in profile_level_defined
  /\ p.profile = SP => p.M = 1
  /\ p.profile # HP => p.chroma_format = CHROMA420
  /\ p.profile = HP => p.chroma_format # CHROMA444
  /\ (p.profile >= MP /\ p.repeatfirst) =>
       /\ p.frame_rate_code > 2
       /\ p.prog_seq => p.frame_rate_code > 6
  /\ p.profile # HP => p.dc_prec # 3
  /\ p.level >= ML => p.frame_rate_code <= 5
  /\ p.horizontal_size <= max.hor_size
  /\ p.vertical_size <= max.vert_size
  /\ ~Exceeds(p.horizontal_size * p.vertical_size, p.frame_rate_code, max.sample_rate)
  /\ p.bit_rate <= 5000 * max.bit_rate
  /\ p.vbv_buffer_size <= max.vbv_buffer_size

MotionOK(p) ==
  \A u \in Uses(p), axis \in {1, 2} :
    p.motion_data[u[1]][u[2]].code[axis] <= maxval_tab(p.level).code[axis]

LEMMA LevelChecksAre ==
  ASSUME NEW p
  PROVE  simpeg_encode_profile_and_level_checks(p)
         <=> p.profile \in 0..15 /\ p.level \in 0..15 /\ (p.profile < 8 => LevelOK(p) /\ MotionOK(p))
<1>1. ASSUME simpeg_encode_profile_and_level_checks(p), p.profile < 8
      PROVE  LevelOK(p)
  BY <1>1 DEF simpeg_encode_profile_and_level_checks, LevelOK
<1>2. ASSUME simpeg_encode_profile_and_level_checks(p), p.profile < 8
      PROVE  MotionOK(p)
  BY <1>2 DEF simpeg_encode_profile_and_level_checks, MotionOK
<1>3. ASSUME simpeg_encode_profile_and_level_checks(p)
      PROVE  p.profile \in 0..15 /\ p.level \in 0..15
  BY <1>3 DEF simpeg_encode_profile_and_level_checks
<1>4. ASSUME p.profile \in 0..15, p.level \in 0..15, p.profile < 8 => LevelOK(p) /\ MotionOK(p)
      PROVE  simpeg_encode_profile_and_level_checks(p)
  BY <1>4 DEF simpeg_encode_profile_and_level_checks, LevelOK, MotionOK
<1> QED BY <1>1, <1>2, <1>3, <1>4

LEMMA AcceptedAgain ==
  ASSUME NEW p, IsParameters(p), IsAccepted(p), IsStable(Adjusted(p))
  PROVE  IsAccepted(Adjusted(p))
<1> DEFINE q == Adjusted(p)
<1>1. VersionOf(q, p) /\ ScansOf(q, p) /\ Keeps(q, p)
  BY ParametersAre, AdjustedAre, AdjustedKeeps
<1>2. simpeg_encode_range_checks(q)
  BY RangesAgain DEF IsAccepted
<1>3. /\ Uses(q) = Uses(p)
      /\ \A u \in Uses(p) : q.motion_data[u[1]][u[2]].code = p.motion_data[u[1]][u[2]].code
  BY AdjustedMotion
<1> HIDE DEF q
<1>4. ASSUME ~p.mpeg1
      PROVE  simpeg_encode_profile_and_level_checks(q)
  <2>1. simpeg_encode_profile_and_level_checks(p)
    BY <1>4 DEF IsAccepted
  <2>2. /\ q.chroma_format = p.chroma_format /\ q.dc_prec = p.dc_prec /\ q.prog_seq = p.prog_seq
        /\ q.repeatfirst => p.repeatfirst
    BY <1>1, <1>4 DEF VersionOf, ScansOf, OfMpeg1Names
  <2>3. /\ q.profile = p.profile /\ q.level = p.level /\ q.M = p.M /\ q.frame_rate_code = p.frame_rate_code
        /\ q.horizontal_size = p.horizontal_size /\ q.vertical_size = p.vertical_size
        /\ q.bit_rate = p.bit_rate /\ q.vbv_buffer_size = p.vbv_buffer_size
    BY <1>1 DEF Keeps
  <2>4. p.profile \in 0..15 /\ p.level \in 0..15 /\ (p.profile < 8 => LevelOK(p) /\ MotionOK(p))
    BY <2>1, LevelChecksAre
  <2>5. LevelOK(p) => LevelOK(q)
    BY <2>2, <2>3 DEF LevelOK
  <2>6. MotionOK(p) => MotionOK(q)
    BY <1>3, <2>3 DEF MotionOK
  <2> QED BY <2>3, <2>4, <2>5, <2>6, LevelChecksAre
<1>5. p.N >= 1 /\ p.M >= 1 /\ p.N % p.M = 0
  BY DEF IsAccepted
<1> QED BY <1>1, <1>2, <1>4, <1>5 DEF IsAccepted, Keeps, q

(* What the checks leave of the numbers the sequence header has.           *)
LEMMA NumbersFit ==
  ASSUME NEW p, IsParameters(p), IsAccepted(p)
  PROVE  /\ p.horizontal_size \in Nat /\ p.horizontal_size < 16384
         /\ p.vertical_size \in Nat /\ p.vertical_size < 16384
         /\ bit_rate_value(p) \in Nat /\ bit_rate_value(p) < 1073741824
         /\ p.vbv_buffer_size \in Nat /\ p.vbv_buffer_size < 262144
         /\ p.frame_rate_code \in 1 .. 8 /\ p.chroma_format \in 1 .. 3
         /\ p.mpeg1 =>
              /\ p.horizontal_size < 4096 /\ p.vertical_size < 4096
              /\ bit_rate_value(p) < 262144 /\ p.vbv_buffer_size < 1024
<1>1. SizesInRange(p) /\ FitsChrominance(p) /\ RatesInRange(p)
  BY RangeChecksAre DEF IsAccepted
<1>2. /\ p.horizontal_size \in Int /\ p.vertical_size \in Int /\ p.bit_rate \in Int
      /\ p.vbv_buffer_size \in Int
  BY ParametersAre
<1>3. /\ p.horizontal_size >= 1 /\ p.horizontal_size <= 16383
      /\ p.vertical_size >= 1 /\ p.vertical_size <= 16383
      /\ p.mpeg1 => p.horizontal_size <= 4095 /\ p.vertical_size <= 4095
  BY <1>1 DEF SizesInRange
<1>4. /\ p.frame_rate_code \in 1 .. 8 /\ p.bit_rate > 0 /\ p.bit_rate <= 2 * (1073741824 - 1)
      /\ p.mpeg1 => p.bit_rate <= 2 * (262144 - 1)
      /\ p.mpeg1 => p.vbv_buffer_size < 1024
  BY <1>1, PowersOfFields DEF RatesInRange
<1>5. p.vbv_buffer_size >= 1 /\ p.vbv_buffer_size <= 262143
  <2> DEFINE most == 2 ^ 18 - 1
  <2>1. most \in Int /\ most = 262143
    BY PowersOfFields
  <2>2. p.vbv_buffer_size \in 1 .. most
    BY <1>1 DEF RatesInRange
  <2> HIDE DEF most
  <2>3. p.vbv_buffer_size >= 1 /\ p.vbv_buffer_size <= most
    <3>1. most \in Int
      BY <2>1
    <3> QED BY <2>2, <3>1
  <2> QED BY <2>1, <2>3
<1>6. p.chroma_format \in 1 .. 3
  BY <1>1 DEF FitsChrominance, CHROMA420, CHROMA444
<1>7. /\ bit_rate_value(p) \in Nat /\ bit_rate_value(p) < 1073741824
      /\ p.mpeg1 => bit_rate_value(p) < 262144
  <2> DEFINE rate == p.bit_rate
             half == (rate + 1) \div 2
  <2>1. rate \in Int /\ rate > 0
    BY <1>2, <1>4
  <2> HIDE DEF rate
  <2>2. half \in Int /\ 2 * half <= rate + 1 /\ rate + 1 < 2 * half + 2
    BY <2>1
  <2>3. bit_rate_value(p) = half
    BY DEF bit_rate_value, rate
  <2> HIDE DEF half
  <2>4. half \in Nat
    BY <2>1, <2>2
  <2>5. half < 1073741824 /\ (p.mpeg1 => half < 262144)
    BY <1>4, <2>1, <2>2 DEF rate
  <2> QED BY <2>3, <2>4, <2>5
<1> QED BY <1>2, <1>3, <1>4, <1>5, <1>6, <1>7

(* What a decoder reads of the sequence is what it was made from.          *)
LEMMA SequenceIsRead ==
  ASSUME NEW p, IsParameters(p), IsAccepted(p), parms = Adjusted(p), stage = "between", SequenceOK
  PROVE  SequenceReadsBack
<1> DEFINE q == parms
<1>1. VersionOf(q, p) /\ ScansOf(q, p) /\ Keeps(q, p)
  BY ParametersAre, AdjustedAre, AdjustedKeeps
<1>2. p.mpeg1 \in BOOLEAN
  BY ParametersAre
<1>3. /\ q.mpeg1 = p.mpeg1 /\ q.horizontal_size = p.horizontal_size /\ q.vertical_size = p.vertical_size
      /\ bit_rate_value(q) = bit_rate_value(p) /\ q.vbv_buffer_size = p.vbv_buffer_size
  BY <1>1 DEF Keeps, bit_rate_value
<1>4. /\ q.horizontal_size \in Nat /\ q.horizontal_size < 16384
      /\ q.vertical_size \in Nat /\ q.vertical_size < 16384
      /\ bit_rate_value(q) \in Nat /\ bit_rate_value(q) < 1073741824
      /\ q.vbv_buffer_size \in Nat /\ q.vbv_buffer_size < 262144
      /\ q.mpeg1 =>
           /\ q.horizontal_size < 4096 /\ q.vertical_size < 4096
           /\ bit_rate_value(q) < 262144 /\ q.vbv_buffer_size < 1024
  BY <1>3, NumbersFit
<1>5. sequence[1] = simpeg_encode_putseqhdr(q)
      /\ (~q.mpeg1 => sequence[2] = simpeg_encode_putseqext(q))
  <2> DEFINE first == simpeg_encode_putseqhdr(q)
             second == simpeg_encode_putseqext(q)
  <2>1. sequence = <<first>> \o (IF q.mpeg1 THEN <<>> ELSE <<second>>)
    BY DEF SequenceOK
  <2> HIDE DEF first, second
  <2>2. CASE q.mpeg1
    <3>1. sequence = <<first>> \o <<>>
      BY <2>1, <2>2
    <3>2. sequence[1] = first
      BY <3>1
    <3> QED BY <2>2, <3>2 DEF first
  <2>3. CASE ~q.mpeg1
    <3>1. sequence = <<first>> \o <<second>>
      BY <2>1, <2>3
    <3>2. sequence[1] = first /\ sequence[2] = second
      BY <3>1
    <3> QED BY <3>2 DEF first, second
  <2> QED BY <2>2, <2>3
<1>6. /\ sequence[1].horizontal_size_value = q.horizontal_size % 4096
      /\ sequence[1].vertical_size_value = q.vertical_size % 4096
      /\ sequence[1].bit_rate_value = bit_rate_value(q) % 262144
      /\ sequence[1].vbv_buffer_size_value = q.vbv_buffer_size % 1024
  BY <1>5, PowersOfFields DEF simpeg_encode_putseqhdr, putbits
<1>7. CASE q.mpeg1
  <2>1. \A field : Extension(field) = 0
    BY <1>7 DEF Extension
  <2>2. q.chroma_format = CHROMA420 /\ q.prog_seq = TRUE
    BY <1>1, <1>3, <1>7 DEF VersionOf
  <2>3. /\ q.horizontal_size % 4096 = q.horizontal_size /\ q.vertical_size % 4096 = q.vertical_size
        /\ bit_rate_value(q) % 262144 = bit_rate_value(q) /\ q.vbv_buffer_size % 1024 = q.vbv_buffer_size
    <3>1. \A v \in Nat, m \in Nat : v < m => v % m = v
      OBVIOUS
    <3> QED BY <1>4, <1>7, <3>1
  <2> QED BY <1>4, <1>6, <1>7, <2>1, <2>2, <2>3, PowersOfFields DEF SequenceReadsBack
<1>8. CASE ~q.mpeg1
  <2>1. /\ Extension("horizontal_size_extension") = (q.horizontal_size \div 4096) % 4
        /\ Extension("vertical_size_extension") = (q.vertical_size \div 4096) % 4
        /\ Extension("bit_rate_extension") = (bit_rate_value(q) \div 262144) % 4096
        /\ Extension("vbv_buffer_size_extension") = (q.vbv_buffer_size \div 1024) % 256
        /\ sequence[2].chroma_format = q.chroma_format % 4
        /\ sequence[2].progressive_sequence = Bit(q.prog_seq)
    BY <1>5, <1>8, PowersOfFields DEF Extension, simpeg_encode_putseqext, putbits
  <2>2. q.chroma_format % 4 = q.chroma_format
    <3>1. q.chroma_format = p.chroma_format
      BY <1>1, <1>3, <1>8 DEF VersionOf, OfMpeg1Names
    <3> QED BY <3>1, NumbersFit
  <2> DEFINE h == q.horizontal_size
             v == q.vertical_size
             r == bit_rate_value(q)
             b == q.vbv_buffer_size
  <2>3. /\ h \in Nat /\ h < 16384 /\ v \in Nat /\ v < 16384
        /\ r \in Nat /\ r < 1073741824 /\ b \in Nat /\ b < 262144
    BY <1>4
  <2> HIDE DEF h, v, r, b
  <2>4. h = (h % 4096) + 4096 * ((h \div 4096) % 4)
    BY <2>3, SMT
  <2>5. v = (v % 4096) + 4096 * ((v \div 4096) % 4)
    BY <2>3, SMT
  <2>7. r = (r % 262144) + 262144 * ((r \div 262144) % 4096)
    BY <2>3, SMT
  <2>8. b = (b % 1024) + 1024 * ((b \div 1024) % 256)
    BY <2>3, SMT
  <2>6. /\ h = sequence[1].horizontal_size_value + 4096 * Extension("horizontal_size_extension")
        /\ v = sequence[1].vertical_size_value + 4096 * Extension("vertical_size_extension")
        /\ r = sequence[1].bit_rate_value + 262144 * Extension("bit_rate_extension")
        /\ b = sequence[1].vbv_buffer_size_value + 1024 * Extension("vbv_buffer_size_extension")
    BY <1>6, <2>1, <2>4, <2>5, <2>7, <2>8, SMT DEF h, v, r, b
  <2> QED BY <1>8, <2>1, <2>2, <2>6, PowersOfFields, SMT DEF SequenceReadsBack, h, v, r, b
<1> QED BY <1>2, <1>3, <1>7, <1>8

(* The f_codes of a kind of picture, where it has any, are read as written.*)
LEMMA PictureIsRead ==
  ASSUME NEW p, IsParameters(p), IsAccepted(p), NEW q, q = Adjusted(p), IsFollowable(q),
         NEW kind \in Kinds(q), NEW d \in {Forw, Back},
         PictureOf(q, kind[1], kind[2], FirstStruct(q)).codes[d] # NoCodes
  PROVE  LET c == PictureOf(q, kind[1], kind[2], FirstStruct(q)) IN CodesRead(q, c)[d] = c.codes[d]
<1> DEFINE c == PictureOf(q, kind[1], kind[2], FirstStruct(q))
<1>1. GoodParms(q) /\ GoodMotions(q)
  BY AcceptedParms
<1>2. Uncoded(c, d) \/ (CodeFits(c, d) /\ IsUsed(q, c, d))
  BY <1>1, PictureIs
<1>3. ~Uncoded(c, d)
  <2>1. c.type = kind[1] /\ c.codes = Codes(q, kind[1], kind[2])
    BY DEF PictureOf
  <2> HIDE DEF c
  <2>2. ASSUME kind[1] = I_TYPE \/ (kind[1] = P_TYPE /\ d = Back)
        PROVE  c.codes[d] = NoCodes
    BY <2>1, <2>2, NamesDiffer DEF Codes, Forw, Back
  <2>3. c.codes[d] # NoCodes
    BY DEF c
  <2> QED BY <2>1, <2>2, <2>3 DEF Uncoded
<1> HIDE DEF c
<1>4. \A axis \in {1, 2} : CodesRead(q, c)[d][axis] = c.codes[d][axis]
  BY <1>1, <1>2, <1>3, CodesAreRead
<1>5. c.codes[d] = <<c.codes[d][1], c.codes[d][2]>>
  <2>1. PICK n : <<n, d>> \in Uses(q) /\ c.codes[d] = q.motion_data[n][d].code
    BY <1>2, <1>3 DEF IsUsed
  <2>2. Uses(q) = Uses(p) /\ \A u \in Uses(p) :
          q.motion_data[u[1]][u[2]].code = p.motion_data[u[1]][u[2]].code
          /\ p.motion_data[u[1]][u[2]] \in MotionData
    BY AdjustedMotion, ParametersAre
  <2>3. <<n, d>>[1] = n /\ <<n, d>>[2] = d
    OBVIOUS
  <2>4. q.motion_data[n][d].code = p.motion_data[n][d].code /\ p.motion_data[n][d] \in MotionData
    BY <2>1, <2>2, <2>3
  <2>5. p.motion_data[n][d].code \in Int \X Int
    BY <2>4 DEF MotionData
  <2> QED BY <2>1, <2>4, <2>5
<1>6. CodesRead(q, c)[d] = <<CodesRead(q, c)[d][1], CodesRead(q, c)[d][2]>>
  <2>1. CASE q.mpeg1
    <3> DEFINE hdr == simpeg_encode_putpicthdr(q, c.type, 0, c.codes)
               f == IF d = Forw THEN hdr.forward_f_code ELSE hdr.backward_f_code
    <3>1. CodesRead(q, c)[d] = <<f, f>>
      BY <2>1, NamesDiffer DEF CodesRead, Forw, Back
    <3> HIDE DEF f
    <3> QED BY <3>1
  <2>2. CASE ~q.mpeg1
    <3> DEFINE f == [axis \in {1, 2} |-> putbits(c.codes[d][axis], 4)]
    <3>1. CodesRead(q, c)[d] = f
      BY <2>2 DEF CodesRead, simpeg_encode_putpictcodext
    <3>2. f = <<f[1], f[2]>>
      <4>1. DOMAIN f = 1 .. 2
        OBVIOUS
      <4> DEFINE g == <<f[1], f[2]>>
      <4>2. DOMAIN g = 1 .. 2 /\ g[1] = f[1] /\ g[2] = f[2]
        OBVIOUS
      <4>3. f = [i \in 1 .. 2 |-> f[i]] /\ g = [i \in 1 .. 2 |-> g[i]]
        BY <4>1
      <4> QED BY <4>2, <4>3
    <3> QED BY <3>1, <3>2
  <2> QED BY <2>1, <2>2
<1> QED BY <1>4, <1>5, <1>6 DEF c

(* From the headers of parameters that are accepted the decoder gets what  *)
(* the encoder works with.                                                 *)
LEMMA HeadersAreRead == Inv => HeadersReadBack
<1> SUFFICES ASSUME Inv, stage = "between" PROVE HeadersReadBack
  BY DEF HeadersReadBack
<1>1. PICK p \in Parameters : IsAccepted(p) /\ parms = Adjusted(p)
  BY DEF Inv, ParmsOK
<1>2. IsParameters(p)
  BY ParametersAssumption
<1>3. VersionOf(parms, p) /\ ScansOf(parms, p) /\ Keeps(parms, p)
  BY <1>1, <1>2, ParametersAre, AdjustedAre, AdjustedKeeps
<1>4. SequenceReadsBack
  BY <1>1, <1>2, SequenceIsRead DEF Inv
<1>5. TimesReadBack
  <2> DEFINE n == fps(parms.frame_rate_code)
  <2>1. parms.frame_rate_code \in 1 .. 8
    BY <1>1, <1>2, <1>3, NumbersFit DEF Keeps
  <2>2. n \in 24 .. 60
    BY <2>1, RatesAre
  <2>3. \A frame \in {0, n - 1, n, 60 * n - 1, 3600 * n, 86400 * n - 1, 86400 * n + 1} : frame \in Nat
    <3> HIDE DEF n
    <3> QED BY <2>2
  <2>4. \A frame \in {0, n - 1, n, 60 * n - 1, 3600 * n, 86400 * n - 1, 86400 * n + 1} :
          LET t == frametotc(parms, frame)
          IN frame % (86400 * n) = ((t.hour * 60 + t.minute) * 60 + t.sec) * n + t.pict
    BY <2>1, <2>3, TimeIsRead
  <2> QED BY <2>4 DEF TimesReadBack
<1>6. QuantisersReadBack
  BY QuantisersAreRead DEF QuantisersReadBack
<1>7. ASSUME HasSliceCodes(parms) PROVE SlicesReadBack
  <2>1. parms.vertical_size \in Nat /\ parms.vertical_size <= 16383
    BY <1>1, <1>2, <1>3, NumbersFit DEF Keeps
  <2>2. mb_height2(parms) <= 175 \/ (~parms.mpeg1 /\ parms.vertical_size > 2800)
    BY <1>7 DEF HasSliceCodes
  <2> QED BY <2>1, <2>2, SliceIsRead DEF SlicesReadBack
<1>8. ASSUME IsFollowable(parms) PROVE PicturesReadBack
  BY <1>1, <1>2, <1>8, PictureIsRead DEF PicturesReadBack
<1>9. ASSUME IsStable(parms) PROVE IsAccepted(parms) /\ Adjusted(parms) = parms
  BY <1>1, <1>2, <1>9, AcceptedAgain, AdjustedTwice
<1> QED BY <1>4, <1>5, <1>6, <1>7, <1>8, <1>9 DEF HeadersReadBack

(* For all parameters a file may give: from the headers a decoder gets the *)
(* parameters the encoder works with, the f_codes of its pictures and all  *)
(* its quantisers, from time codes frames and from slices rows, and those  *)
(* parameters would be accepted and left as they are.                      *)
THEOREM HeadersAlwaysReadBack == Spec => []HeadersReadBack
  BY HeadersAreRead, Invariant, PTL
=============================================================================
