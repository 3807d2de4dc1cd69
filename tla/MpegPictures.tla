---------------------------- MODULE MpegPictures ----------------------------
(***************************************************************************)
(* An MPEG movie from its parameters to the macroblocks of its pictures:   *)
(* readparmfile(), SimpegWrite_putseq_begin(), and for every picture       *)
(* motion estimation and simpeg_encode_putpict(), read by a decoder.       *)
(*                                                                         *)
(* Which picture comes when is the concern of MpegSequence: here any type  *)
(* may follow any other.  What motion_estimation() leaves in mbinfo for a  *)
(* macroblock is chosen when the macroblock is coded; nothing reads it     *)
(* before.  A step of putpict is one macroblock.                           *)
(***************************************************************************)
EXTENDS MpegMacroblocks, MpegFrames, Functions

CONSTANTS
  Parameters,  \* of the parameter files
  Coded,       \* bound: those of them whose pictures are coded
  Demands      \* bound: what the rate control asks for

ASSUME CodedAssumption == Coded \subseteq Parameters
ASSUME DemandsAssumption == Demands \subseteq Int
ASSUME ParametersAssumption == \A p \in Parameters : IsParameters(p)

VARIABLES
  stage,     \* "given", "refused", "accepted", "between", "coding", "second"
  parms,     \* as given, then as accepted
  isCoded,   \* whether pictures are coded from them
  sequence,  \* what the sequence header and its extension say
  pict,      \* the picture, with the f_codes its headers give a decoder
  k,         \* the macroblock
  enc,       \* what putpict() remembers
  MBAinc,
  skipped,   \* macroblocks of the slice that were skipped since one was written
  dec,       \* what the decoder remembers, and the column it has shown
  follows    \* so far, the decoder shows what was meant

vars == <<stage, parms, isCoded, sequence, pict, k, enc, MBAinc, skipped, dec, follows>>

picture == <<pict, k, enc, MBAinc, skipped, dec, follows>>

NoPicture == [type |-> "none"]
Idle == [PMV |-> ZeroPMV]

Init ==
  /\ stage = "given" /\ parms \in Parameters /\ isCoded = (parms \in Coded)
  /\ sequence = <<>>
  /\ pict = NoPicture /\ k = 0 /\ enc = Idle /\ MBAinc = 0 /\ skipped = <<>> /\ dec = Idle
  /\ follows = TRUE

readparmfile ==
  /\ stage = "given"
  /\ stage' = IF IsAccepted(parms) THEN "accepted" ELSE "refused"
  /\ parms' = IF IsAccepted(parms) THEN Adjusted(parms) ELSE parms
  /\ UNCHANGED <<isCoded, sequence, picture>>

SimpegWrite_putseq_begin ==
  /\ stage = "accepted" /\ stage' = "between"
  /\ sequence' = <<simpeg_encode_putseqhdr(parms)>> \o
                 (IF parms.mpeg1 THEN <<>> ELSE <<simpeg_encode_putseqext(parms)>>)
  /\ UNCHANGED <<parms, isCoded, picture>>

(***************************************************************************)
(* The pictures, as putseq.c sets them up.  A picture's motion data is     *)
(* that of its place in the group: 0 for P, and 1 and on for B.            *)
(***************************************************************************)
Codes(p, type, n) ==
  CASE type = I_TYPE -> [forw |-> NoCodes, back |-> NoCodes]
    [] type = P_TYPE -> [forw |-> p.motion_data[0][Forw].code, back |-> NoCodes]
    [] type = B_TYPE -> [d \in {Forw, Back} |-> p.motion_data[n][d].code]

Windows(p, n) == [d \in {Forw, Back} |-> p.motion_data[n][d].s]

\* The f_codes a decoder has of a picture: MPEG-1 has one for both axes.
CodesRead(p, c) ==
  LET hdr == simpeg_encode_putpicthdr(p, c.type, 0, c.codes)
      ext == simpeg_encode_putpictcodext(p, c.struct, c.frame_pred_dct, c.codes)
  IN IF p.mpeg1
       THEN [forw |-> <<hdr.forward_f_code, hdr.forward_f_code>>,
             back |-> <<hdr.backward_f_code, hdr.backward_f_code>>]
       ELSE ext.f_code

PictureOf(p, type, n, struct) ==
  [type |-> type, struct |-> struct, second |-> FALSE, ipflag |-> FALSE,
   frame_pred_dct |-> p.frame_pred_dct_tab[type], q_scale_type |-> p.qscale_tab[type],
   codes |-> Codes(p, type, n), window |-> Windows(p, n)]

FirstStruct(p) ==
  IF ~p.fieldpic THEN FRAME_PICTURE ELSE IF p.topfirst THEN TOP_FIELD ELSE BOTTOM_FIELD

\* The second field of a frame; after an I field it is a P field.
SecondOf(p, c) ==
  LET other == IF p.topfirst THEN BOTTOM_FIELD ELSE TOP_FIELD
      ofI == [c EXCEPT !.type = P_TYPE, !.ipflag = TRUE, !.codes = Codes(p, P_TYPE, 0), !.window = Windows(p, 0)]
  IN [(IF c.type = I_TYPE THEN ofI ELSE c) EXCEPT !.struct = other, !.second = TRUE]

Kinds(p) == {<<I_TYPE, 0>>, <<P_TYPE, 0>>} \cup ({B_TYPE} \X (1..(p.M - 1)))

\* What the rate control may come to.
Quantisers(c) == {rc_calc_mquant(c.q_scale_type, n) : n \in Demands}

Begins(c) ==
  /\ stage' = "coding" /\ pict' = c /\ k' = 0
  /\ \E quant \in Quantisers(c) : enc' = SliceStart(quant)
  /\ dec' = [at |-> -1, s |-> enc']
  /\ MBAinc' = 1 /\ skipped' = <<>>
  /\ UNCHANGED <<parms, isCoded, sequence, follows>>

putseq_encode_bitmap ==
  /\ stage = "between" /\ isCoded
  /\ \E kind \in Kinds(parms) : Begins(PictureOf(parms, kind[1], kind[2], FirstStruct(parms)))

second_field == stage = "second" /\ Begins(SecondOf(parms, pict))

(***************************************************************************)
(* Macroblocks.  A macroblock is meant, and shown, as where it is, what it *)
(* is predicted from, and how its coefficients are read.                   *)
(***************************************************************************)
motion_estimation(p, c, i, j) ==
  IF c.struct = FRAME_PICTURE THEN frame_ME(p, c, i, j) ELSE field_ME(p, c, i, j)

Column == k % mb_width(parms)
Row == k \div mb_width(parms)

ImageOf(i, m, cbp, s) ==
  [column |-> i, blocks |-> predict_mb(parms, pict, 16 * i, 16 * Row, m),
   isIntra |-> MB_INTRA \in m.mb_type,
   quantiser |-> IF cbp THEN s.mquant ELSE 0,
   dc_dct_pred |-> IF MB_INTRA \in m.mb_type THEN s.dc_dct_pred ELSE "unused"]

\* At the start of a slice both sides forget, but for the quantiser.
EncoderAt == IF Column = 0 THEN SliceStart(enc.mquant) ELSE enc
DecoderAt ==
  LET code == quantiser_scale_code(pict.q_scale_type, enc.mquant)
  IN IF Column = 0 THEN [at |-> -1, s |-> SliceStart(QuantiserRead(pict.q_scale_type, code))] ELSE dec
MBAincAt == IF Column = 0 THEN 1 ELSE MBAinc

\* What quantisation leaves of a macroblock, and the quantiser for it.
Quantised(m) ==
  ({TRUE} \X Quantisers(pict)) \cup (IF MB_INTRA \in m.mb_type THEN {} ELSE {<<FALSE, enc.mquant>>})

Skip(m) ==
  /\ enc' = AfterSkipped(pict, EncoderAt)
  /\ MBAinc' = MBAincAt + 1
  /\ skipped' = Append(skipped, ImageOf(Column, m, FALSE, EncoderAt))
  /\ UNCHANGED <<dec, follows>>

\* The decoder shows the macroblocks between the last one shown and the one
\* it now reads, w, as skipped.
DecoderReads(w, meant) ==
  LET before == DecoderAt.s
      first == DecoderAt.at + 1
      last == DecoderAt.at + w.MBAinc
      now == IF last > first THEN DecoderAfterSkipped(pict, before) ELSE before
      hasCoefficients == w.type \cap {MB_INTRA, MB_PATTERN} # {}
  IN \E read \in {Shown(pict, w, now, CodesRead(parms, pict))} :
     \E after \in {DecoderAfter(pict, w, read, now)} :
       LET shown == {ImageOf(i, ShownSkipped(pict, IF i = first THEN before ELSE now), FALSE, now) :
                       i \in first..(last - 1)} \cup
                    {ImageOf(last, read, hasCoefficients, [now EXCEPT !.mquant = after.mquant])}
       IN /\ dec' = [at |-> last, s |-> after]
          /\ follows' = (follows /\ IsReadable(pict, w) /\ meant = shown)

Write(m, cbp, mquant) ==
  /\ enc' = AfterWritten(pict, m, cbp, mquant, EncoderAt)
  /\ MBAinc' = 1 /\ skipped' = <<>>
  /\ \E w \in {Written(pict, m, cbp, mquant, EncoderAt, MBAincAt)} :
       DecoderReads(w, Range(skipped) \cup {ImageOf(Column, m, cbp, [EncoderAt EXCEPT !.mquant = mquant])})

putpict ==
  /\ stage = "coding" /\ k < mb_width(parms) * mb_height2(parms)
  /\ \E m \in motion_estimation(parms, pict, 16 * Column, 16 * Row) :
       \E q \in Quantised(m) :
         IF IsSkipped(parms, pict, Column, m, q[1], EncoderAt) THEN Skip(m) ELSE Write(m, q[1], q[2])
  /\ k' = k + 1
  /\ UNCHANGED <<stage, parms, isCoded, sequence, pict>>

end_of_picture ==
  /\ stage = "coding" /\ k = mb_width(parms) * mb_height2(parms)
  /\ IF parms.fieldpic /\ ~pict.second
       THEN stage' = "second" /\ pict' = pict
       ELSE stage' = "between" /\ pict' = NoPicture
  /\ k' = 0 /\ enc' = Idle /\ MBAinc' = 0 /\ dec' = Idle
  /\ UNCHANGED <<parms, isCoded, sequence, skipped, follows>>

Next ==
  \/ readparmfile \/ SimpegWrite_putseq_begin
  \/ putseq_encode_bitmap \/ second_field \/ putpict \/ end_of_picture

Spec == Init /\ [][Next]_vars

(***************************************************************************)
(* Properties                                                              *)
(***************************************************************************)
\* Parameters whose pictures no decoder follows: MPEG-1 has one f_code for
\* both axes, and field pictures always need a motion type.
IsFollowable(p) ==
  /\ p.mpeg1 => \A u \in Uses(p) : LET code == p.motion_data[u[1]][u[2]].code IN code[1] = code[2]
  /\ p.fieldpic => \A t \in PictTypes : ~p.frame_pred_dct_tab[t]

\* A decoder that starts at any slice predicts every macroblock from the very
\* pixels the encoder predicted it from, with the same quantiser and DC
\* predictions: what putpict() leaves out of the stream, for skipped
\* macroblocks, vectors, parities or motion types, the decoder can tell.
DecoderFollows ==
  IsFollowable(parms) => follows /\ (stage = "coding" /\ Column = 0 => skipped = <<>>)

MacroblocksOf(p) == {<<16 * i, 16 * j>> : i \in 0..(mb_width(p) - 1), j \in 0..(mb_height2(p) - 1)}

EveryDecision(Holds(_, _, _)) ==
  (stage = "coding" /\ k = 0) =>
    \A at \in MacroblocksOf(parms) :
      \A m \in motion_estimation(parms, pict, at[1], at[2]) : Holds(at[1], at[2], m)

\* The blocks predict_mb() takes are those frame_ME() or field_ME() chose the
\* vectors by, whatever coordinates vectors were kept in meanwhile, and none
\* lies, even by half a pixel or in the smaller planes of chrominance, outside
\* the reference picture.
PredictedAsSearched ==
  EveryDecision(LAMBDA i, j, m :
    LET blocks == predict_mb(parms, pict, i, j, m)
    IN MB_INTRA \notin m.mb_type => blocks = m.measured /\ \A b \in blocks : pred(parms, b))

\* Whatever the prediction of a vector, putmv() has a code for the difference
\* that a decoder gets the vector from: windows were reduced to the f_codes.
VectorsHaveCodes ==
  EveryDecision(LAMBDA i, j, m :
    \A d \in {Forw, Back}, r \in 1..(IF HasTwo(pict, m) THEN 2 ELSE 1), axis \in {1, 2} :
      (IF d = Forw THEN MB_FORWARD ELSE MB_BACKWARD) \in m.mb_type =>
        LET f == 2 ^ (pict.codes[d][axis] - 1)
            v == AsWritten(pict, m, m[d].MV[r])[axis]
        IN v \in (-16 * f)..(16 * f - 1))

\* What a decoder reads.
Extension(field) == IF parms.mpeg1 THEN 0 ELSE sequence[2][field]

SequenceReadsBack ==
  /\ parms.horizontal_size =
       sequence[1].horizontal_size_value + 2 ^ 12 * Extension("horizontal_size_extension")
  /\ parms.vertical_size =
       sequence[1].vertical_size_value + 2 ^ 12 * Extension("vertical_size_extension")
  /\ bit_rate_value(parms) = sequence[1].bit_rate_value + 2 ^ 18 * Extension("bit_rate_extension")
  /\ parms.vbv_buffer_size =
       sequence[1].vbv_buffer_size_value + 2 ^ 10 * Extension("vbv_buffer_size_extension")
  /\ IF parms.mpeg1 THEN parms.chroma_format = CHROMA420 /\ parms.prog_seq
     ELSE /\ parms.chroma_format = sequence[2].chroma_format
          /\ Bit(parms.prog_seq) = sequence[2].progressive_sequence

\* Rows from 175 on have no slice start code of their own.
SlicesReadBack ==
  \A row \in 0..(mb_height2(parms) - 1) :
    LET s == slice(parms, row)
    IN s.start_code \in 1..175 /\ row = s.start_code - 1 + 128 * s.extension

\* The bound on frames whose time code is read: about a second, a minute, a day.
TimesReadBack ==
  LET n == fps(parms.frame_rate_code) IN
  \A frame \in {0, n - 1, n, 60 * n - 1, 3600 * n, 86400 * n - 1, 86400 * n + 1} :
    LET t == frametotc(parms, frame)
    IN frame % (86400 * n) = ((t.hour * 60 + t.minute) * 60 + t.sec) * n + t.pict

PicturesReadBack ==
  \A kind \in Kinds(parms) :
    LET c == PictureOf(parms, kind[1], kind[2], FirstStruct(parms))
    IN \A d \in {Forw, Back} : c.codes[d] # NoCodes => CodesRead(parms, c)[d] = c.codes[d]

\* All that the rate control may ask for, and a code of zero is forbidden.
QuantisersReadBack ==
  \A t \in PictTypes, n \in 0..113 :
    LET q == parms.qscale_tab[t]
        code == quantiser_scale_code(q, rc_calc_mquant(q, n))
    IN code # 0 /\ QuantiserRead(q, code) = rc_calc_mquant(q, n)

\* In a picture of 2785 to 2800 lines the row 175 of interlaced frames, and in
\* an MPEG-1 picture of more every row from 175 on, has the code of something
\* else.
HasSliceCodes(p) == mb_height2(p) <= 175 \/ (~p.mpeg1 /\ p.vertical_size > 2800)

\* Checks of MPEG-1 parameters are made before their chrominance is reduced.
IsStable(p) == p.mpeg1 => p.horizontal_size % 2 = 0 /\ p.vertical_size % 2 = 0

\* From headers a decoder gets the parameters the encoder works with, and
\* those are parameters readparmfile() accepts and leaves as they are.
HeadersReadBack ==
  stage = "between" =>
    /\ SequenceReadsBack /\ TimesReadBack /\ QuantisersReadBack
    /\ HasSliceCodes(parms) => SlicesReadBack
    /\ IsFollowable(parms) => PicturesReadBack
    /\ IsStable(parms) => IsAccepted(parms) /\ Adjusted(parms) = parms

\* The bound on frames whose filters are looked at.
HasSmallFrames(p) == width(p) <= 64 /\ height(p) <= 64

\* Every step-th place from first on, below n: the one nearest to x.
Nearest(x, first, step, n) ==
  CHOOSE y \in {y \in 0..(n - 1) : y % step = first} :
    \A z \in {z \in 0..(n - 1) : z % step = first} : (x - y) * (x - y) <= (x - z) * (x - z)

\* The taps of a filter lie step apart about a site, given in halves of a
\* place, and weigh as much before it as after it.  Where the places from first
\* on end, before the n-th of the plane, it takes the last again.  Only tap 6
\* of those over whole rows or columns misses the plane's end by one.
IsFilterAbout(filter, site2, first, step, n, Source(_), end) ==
  LET size == IF step < 0 THEN -step ELSE step
      meant(t) == (IF step < 0 THEN site2 + 1 ELSE site2) \div 2 + step * t
      moment == MapThenSumSet(LAMBDA t : filter[t].weight * (2 * meant(t) - site2), DOMAIN filter)
  IN /\ moment = 0
     /\ \A t \in DOMAIN filter :
          \/ filter[t].place < n /\ Source(filter[t].place) = Nearest(meant(t), first, size, end)
          \/ size = 1 /\ t = 6 /\ filter[t].place = n

ColumnOf(x) == SimpegWrite_read_buffer(parms, x, 0)[1]
LineOf(y) == parms.vertical_size - 1 - SimpegWrite_read_buffer(parms, 0, y)[2]

ColumnsInPlace ==
  \A c \in 0..(width(parms) \div 2 - 1) :
    LET filter == conv444to422(parms, c)
        site2 == IF parms.mpeg1 THEN 4 * c + 1 ELSE 4 * c
    IN /\ IsFilterAbout(filter, site2, 0, 1, width(parms), ColumnOf, parms.horizontal_size)
       /\ \A v \in 16..240 : OfFlat(v, filter) = IF parms.mpeg1 \/ v < 128 THEN v ELSE v + 1

RowsInPlace ==
  \A r \in 0..(height(parms) \div 2 - 1) :
    LET filter == conv422to420(parms, r)
        step == IF r % 2 = 0 THEN 2 ELSE -2
        Same(y) == y
    IN /\ IF parms.prog_frame
            THEN IsFilterAbout(filter, 4 * r + 1, 0, 1, height(parms), LineOf, parms.vertical_size)
            ELSE IsFilterAbout(filter, 4 * r + 1, r % 2, step, height(parms), Same, height(parms))
       /\ \A v \in 16..240 : OfFlat(v, filter) = v

\* Chrominance is that of its place: the columns lie on every other column in
\* MPEG-2 and half a column further in MPEG-1, the rows half a row below every
\* other row, and interlaced fields are not mixed by conv422to420(); borders
\* count as the image's last column and row.  A flat colour stays as it is, but
\* the filter of conv444to422() for MPEG-2 weighs 514, not 512, and takes the
\* upper half of the values up by one.
ChrominanceInPlace ==
  stage = "between" /\ HasSmallFrames(parms) /\ parms.chroma_format # CHROMA444 =>
    ColumnsInPlace /\ (parms.chroma_format = CHROMA420 => RowsInPlace)
=============================================================================
