--------------------------- MODULE MpegMacroblocks ---------------------------
(***************************************************************************)
(* What simpeg_encode_putpict() of src/mpeg2enc/putpic.c writes of a       *)
(* macroblock, and what a decoder makes of it.                             *)
(*                                                                         *)
(* A macroblock is written as a record: how far it is from the one before, *)
(* its type, and what that type calls for.  The codes of coefficients are  *)
(* left out.  State is what both sides remember from macroblock to         *)
(* macroblock: predictions of vectors (PMV), whether those of DC           *)
(* coefficients were reset, the quantiser, the directions of the last      *)
(* macroblock.  The decoder is that of ISO/IEC 13818-2.                    *)
(***************************************************************************)
EXTENDS MpegMotion

MB_PATTERN == "MB_PATTERN"
MB_QUANT == "MB_QUANT"

\* The macroblock types there are codes for.
mbtypetab ==
  [t \in PictTypes |->
     {{MB_INTRA}, {MB_INTRA, MB_QUANT}} \cup
     CASE t = I_TYPE -> {}
       [] t = P_TYPE -> {{MB_FORWARD}} \cup
            {{MB_PATTERN} \cup f \cup q : f \in SUBSET {MB_FORWARD}, q \in SUBSET {MB_QUANT}}
       [] t = B_TYPE ->
            {d \cup q : d \in (SUBSET {MB_FORWARD, MB_BACKWARD}) \ {{}},
                        q \in {{}, {MB_PATTERN}, {MB_PATTERN, MB_QUANT}}}]

(***************************************************************************)
(* Quantisers: those the rate control may come to, when it asks for n, and *)
(* the five bits that stand for them.                                      *)
(***************************************************************************)
Clipped(n, lo, hi) == IF n < lo THEN lo ELSE IF n > hi THEN hi ELSE n

non_linear_mquant_table ==
  <<0, 1, 2, 3, 4, 5, 6, 7, 8, 10, 12, 14, 16, 18, 20, 22,
    24, 28, 32, 36, 40, 44, 48, 52, 56, 64, 72, 80, 88, 96, 104, 112>>

\* The last quantiser of each code from 1 on.
map_non_linear_mquant ==
  LET last == <<1, 2, 3, 4, 5, 6, 7, 9, 11, 13, 15, 17, 19, 21, 23, 26,
                29, 33, 37, 41, 45, 49, 53, 60, 67, 75, 83, 90, 100, 107, 112>>
  IN [mquant \in 1..112 |-> Min({code \in DOMAIN last : mquant <= last[code]})]

rc_calc_mquant(q_scale_type, n) ==
  IF q_scale_type THEN non_linear_mquant_table[1 + map_non_linear_mquant[Clipped(n, 1, 112)]]
  ELSE Clipped(2 * n, 2, 62)

quantiser_scale_code(q_scale_type, mquant) ==
  putbits(IF q_scale_type THEN map_non_linear_mquant[mquant] ELSE mquant \div 2, 5)

QuantiserRead(q_scale_type, code) ==
  IF q_scale_type THEN non_linear_mquant_table[1 + code] ELSE 2 * code

ZeroPMV == [d \in {Forw, Back} |-> <<Zero, Zero>>]

SliceStart(quant) ==
  [PMV |-> ZeroPMV, dc_dct_pred |-> "reset", mquant |-> quant, dirs |-> {}]

\* Whether a macroblock has two vectors in a direction.
HasTwo(c, m) == m.motion_type = (IF c.struct = FRAME_PICTURE THEN MC_FIELD ELSE MC_16X8)

\* Vectors to fields of a frame are written in lines of a field.
AsWritten(c, m, v) ==
  IF c.struct = FRAME_PICTURE /\ m.motion_type # MC_FRAME THEN InField(v) ELSE v

Minus(v, w) == <<v[1] - w[1], v[2] - w[2]>>

(***************************************************************************)
(* Vectors                                                                 *)
(***************************************************************************)
putmv(dmv, f_code) ==
  LET f == 2 ^ (f_code - 1)
      folded == IF dmv > 16 * f - 1 THEN dmv - 32 * f
                ELSE IF dmv < -16 * f THEN dmv + 32 * f ELSE dmv
      temp == (IF folded < 0 THEN -folded ELSE folded) + f - 1
      motion_code == temp \div f
  IN [motion_code |-> IF folded < 0 THEN -motion_code ELSE motion_code,
      motion_residual |-> temp % f]

\* The code of every component is one of motionvectab.
HasMotionCode(dmv, f_code) == putmv(dmv, f_code).motion_code \in -16..16

putmvs(c, m, d, PMV) ==
  LET MV == m[d].MV
      Word(r) ==
        LET dmv == Minus(AsWritten(c, m, MV[r]), AsWritten(c, m, PMV[r]))
        IN [axis \in {1, 2} |-> putmv(dmv[axis], c.codes[d][axis])]
  IN [words |-> [r \in 1..(IF HasTwo(c, m) THEN 2 ELSE 1) |-> Word(r)],
      mv_field_sel |-> m[d].sel, dmvector |-> m.dmvector]

PMVAfter(c, m, d) == IF HasTwo(c, m) THEN m[d].MV ELSE <<m[d].MV[1], m[d].MV[1]>>

\* The vector a decoder gets from a word, in lines of the picture it is in.
Decoded(word, from, f_code) ==
  LET f == 2 ^ (f_code - 1)
      code == word.motion_code
      size == ((IF code < 0 THEN -code ELSE code) - 1) * f + word.motion_residual + 1
      v == from + (IF code = 0 THEN 0 ELSE IF code < 0 THEN -size ELSE size)
  IN IF v < -16 * f THEN v + 32 * f ELSE IF v > 16 * f - 1 THEN v - 32 * f ELSE v

DecodedVector(c, m, written, PMV, codes, r) ==
  LET half == AsWritten(c, m, <<0, 2>>)[2] = 1
      from == AsWritten(c, m, PMV[r])
      v == [axis \in {1, 2} |-> Decoded(written.words[r][axis], from[axis], codes[axis])]
  IN <<v[1], IF half THEN 2 * v[2] ELSE v[2]>>

(***************************************************************************)
(* A macroblock: from what motion estimation decided, m, the coefficients  *)
(* left after quantisation, cbp, and the quantiser of the rate control.    *)
(***************************************************************************)
Directions(type) == type \cap {MB_FORWARD, MB_BACKWARD}

TypeOf(m, cbp, mquant, s) ==
  m.mb_type \cup (IF cbp /\ MB_INTRA \notin m.mb_type THEN {MB_PATTERN} ELSE {})
            \cup (IF cbp /\ s.mquant # mquant THEN {MB_QUANT} ELSE {})

\* The first vector of each direction is the prediction, and in a field
\* picture it points to the field of the same parity.
IsSameVector(c, m, s) ==
  \A d \in {Forw, Back} :
    (IF d = Forw THEN MB_FORWARD ELSE MB_BACKWARD) \in m.mb_type => s.PMV[d][1] = m[d].MV[1]

IsPredicted(c, m, s) ==
  \A d \in {Forw, Back} :
    (IF d = Forw THEN MB_FORWARD ELSE MB_BACKWARD) \in m.mb_type =>
      /\ s.PMV[d][1] = m[d].MV[1]
      /\ c.struct # FRAME_PICTURE => m[d].sel[1] = Own(c)

\* A faulty variant: parities are not compared.
IsSkipped(p, c, i, m, cbp, s) ==
  /\ i \notin {0, mb_width(p) - 1} /\ ~cbp
  /\ \/ c.type = P_TYPE /\ MB_FORWARD \notin m.mb_type
     \/ /\ c.type = B_TYPE
        /\ m.motion_type = (IF c.struct = FRAME_PICTURE THEN MC_FRAME ELSE MC_FIELD)
        /\ s.dirs = Directions(m.mb_type)
        /\ IsPredicted(c, m, s)

AfterSkipped(c, s) ==
  IF c.type = P_TYPE THEN [s EXCEPT !.dc_dct_pred = "reset", !.PMV = ZeroPMV, !.dirs = {}] ELSE s

\* There is no code for neither vectors nor coefficients in a P picture.
WrittenType(c, m, cbp, mquant, s) ==
  LET type == TypeOf(m, cbp, mquant, s)
  IN IF c.type = P_TYPE /\ ~cbp /\ MB_FORWARD \notin type THEN type \cup {MB_FORWARD} ELSE type

NoVectors == [words |-> <<>>, mv_field_sel |-> <<0, 0>>, dmvector |-> Unset]

Written(c, m, cbp, mquant, s, MBAinc) ==
  LET type == WrittenType(c, m, cbp, mquant, s)
  IN [MBAinc |-> MBAinc, type |-> type,
      motion_type |-> IF Directions(type) # {} /\ ~c.frame_pred_dct THEN m.motion_type ELSE "unwritten",
      quantiser |-> IF MB_QUANT \in type THEN quantiser_scale_code(c.q_scale_type, mquant) ELSE 0,
      forw |-> IF MB_FORWARD \in type THEN putmvs(c, m, Forw, s.PMV[Forw]) ELSE NoVectors,
      back |-> IF MB_BACKWARD \in type THEN putmvs(c, m, Back, s.PMV[Back]) ELSE NoVectors]

AfterWritten(c, m, cbp, mquant, s) ==
  LET type == WrittenType(c, m, cbp, mquant, s)
      isReset == MB_INTRA \in type \/ (c.type = P_TYPE /\ MB_FORWARD \notin type)
  IN [PMV |-> IF isReset THEN ZeroPMV
              ELSE [forw |-> IF MB_FORWARD \in type THEN PMVAfter(c, m, Forw) ELSE s.PMV[Forw],
                    back |-> IF MB_BACKWARD \in type THEN PMVAfter(c, m, Back) ELSE s.PMV[Back]],
      dc_dct_pred |-> IF MB_INTRA \in type THEN "last" ELSE "reset",
      mquant |-> IF MB_QUANT \in type THEN mquant ELSE s.mquant,
      dirs |-> Directions(type)]

(***************************************************************************)
(* The decoder                                                             *)
(***************************************************************************)
\* A macroblock of a P picture without vectors.
Still(c) ==
  [mb_type |-> {}, motion_type |-> IF c.struct = FRAME_PICTURE THEN MC_FRAME ELSE MC_FIELD,
   forw |-> Way(Zero, Unset, <<Own(c), 0>>, {}), back |-> NoWay, dmvector |-> Unset]

ShownSkipped(c, s) ==
  IF c.type = P_TYPE THEN Still(c)
  ELSE LET Kept(d) == Way(s.PMV[d][1], Unset, <<Own(c), 0>>, {})
       IN [Still(c) EXCEPT !.mb_type = s.dirs, !.forw = Kept(Forw), !.back = Kept(Back)]

DecoderAfterSkipped(c, s) ==
  [s EXCEPT !.dc_dct_pred = "reset",
            !.PMV = IF c.type = P_TYPE THEN ZeroPMV ELSE @,
            !.dirs = IF c.type = P_TYPE THEN {} ELSE @]

\* Only frame pictures may leave out the motion type; theirs is then MC_FRAME.
IsReadable(c, w) ==
  /\ w.type \in mbtypetab[c.type]
  /\ c.struct # FRAME_PICTURE /\ Directions(w.type) # {} => w.motion_type # "unwritten"

ReadMotionType(c, w) == IF w.motion_type = "unwritten" THEN MC_FRAME ELSE w.motion_type

Shown(c, w, s, codes) ==
  LET m0 == [Still(c) EXCEPT !.mb_type = w.type \ {MB_PATTERN, MB_QUANT},
                             !.motion_type = ReadMotionType(c, w),
                             !.dmvector = w.forw.dmvector]
      Read(d) ==
        LET Vector(r) == DecodedVector(c, m0, w[d], s.PMV[d], codes[d], r)
        IN Way(Vector(1), IF HasTwo(c, m0) THEN Vector(2) ELSE Unset, w[d].mv_field_sel, {})
  IN IF MB_INTRA \in w.type \/ Directions(w.type) = {} THEN [m0 EXCEPT !.motion_type = Still(c).motion_type]
     ELSE [m0 EXCEPT !.forw = IF MB_FORWARD \in w.type THEN Read(Forw) ELSE @,
                     !.back = IF MB_BACKWARD \in w.type THEN Read(Back) ELSE @]

DecoderAfter(c, w, m, s) ==
  LET isStill == MB_INTRA \in w.type \/ (c.type = P_TYPE /\ MB_FORWARD \notin w.type)
  IN [PMV |-> IF isStill THEN ZeroPMV
              ELSE [forw |-> IF MB_FORWARD \in w.type THEN PMVAfter(c, m, Forw) ELSE s.PMV[Forw],
                    back |-> IF MB_BACKWARD \in w.type THEN PMVAfter(c, m, Back) ELSE s.PMV[Back]],
      dc_dct_pred |-> IF MB_INTRA \in w.type THEN "last" ELSE "reset",
      mquant |-> IF MB_QUANT \in w.type THEN QuantiserRead(c.q_scale_type, w.quantiser) ELSE s.mquant,
      dirs |-> Directions(w.type)]
=============================================================================
