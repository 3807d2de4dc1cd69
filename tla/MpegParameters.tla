--------------------------- MODULE MpegParameters ---------------------------
(***************************************************************************)
(* What simpeg_encode_readparmfile() of src/mpeg2enc/api.c accepts and     *)
(* makes of the parameters of a movie, with the checks of conform.c, and   *)
(* the headers puthdr.c writes from them.                                  *)
(*                                                                         *)
(* Parameters are a record with the names of the code.  Bit rates are in   *)
(* units of 200 bit/s.  motion_data[i] has the f_codes and the search      *)
(* windows, each <<horizontal, vertical>>, of both directions.  A header   *)
(* is a record of its fields; start codes, markers, the quantiser matrices *)
(* and the description of the display are left out.                        *)
(***************************************************************************)
EXTENDS Integers, Sequences, FiniteSets

I_TYPE == "I"
P_TYPE == "P"
B_TYPE == "B"
PictTypes == {I_TYPE, P_TYPE, B_TYPE}

CHROMA420 == 1
CHROMA444 == 3

Forw == "forw"
Back == "back"

Alike(code, s) == [code |-> <<code, code>>, s |-> <<s, s>>]

DefaultMotion ==
  [i \in 0..2 |->
     CASE i = 0 -> [forw |-> Alike(2, 11), back |-> Alike(0, 0)]
       [] i = 1 -> [forw |-> Alike(1, 3), back |-> Alike(1, 7)]
       [] i = 2 -> [forw |-> Alike(1, 7), back |-> Alike(1, 3)]]

Always(b) == [t \in PictTypes |-> b]

Mpeg1Defaults ==
  [mpeg1 |-> TRUE, N |-> 6, M |-> 3, fieldpic |-> FALSE,
   horizontal_size |-> 704, vertical_size |-> 480, aspectratio |-> 2,
   frame_rate_code |-> 3, bit_rate |-> 5760, vbv_buffer_size |-> 20,
   constrparms |-> FALSE, profile |-> 4, level |-> 8, prog_seq |-> TRUE,
   chroma_format |-> CHROMA420, dc_prec |-> 0, topfirst |-> FALSE,
   frame_pred_dct_tab |-> Always(TRUE), qscale_tab |-> Always(FALSE),
   intravlc_tab |-> Always(FALSE), repeatfirst |-> FALSE, prog_frame |-> TRUE,
   motion_data |-> DefaultMotion]

Mpeg2Defaults ==
  [Mpeg1Defaults EXCEPT
     !.mpeg1 = FALSE, !.frame_rate_code = 5, !.bit_rate = 25000,
     !.vbv_buffer_size = 112, !.prog_seq = FALSE, !.topfirst = TRUE,
     !.frame_pred_dct_tab = Always(FALSE), !.qscale_tab = Always(TRUE),
     !.intravlc_tab = [Always(FALSE) EXCEPT ![I_TYPE] = TRUE],
     !.prog_frame = FALSE]

\* What a parameter file gives: motion data for each picture up to M.
MotionData == [code : Int \X Int, s : Int \X Int]
IsParameters(p) ==
  /\ p \in [mpeg1 : BOOLEAN, N : Int, M : Int, fieldpic : BOOLEAN,
            horizontal_size : Int, vertical_size : Int, aspectratio : Int,
            frame_rate_code : Int, bit_rate : Int, vbv_buffer_size : Int,
            constrparms : BOOLEAN, profile : Int, level : Int, prog_seq : BOOLEAN,
            chroma_format : Int, dc_prec : Int, topfirst : BOOLEAN,
            frame_pred_dct_tab : [PictTypes -> BOOLEAN], qscale_tab : [PictTypes -> BOOLEAN],
            intravlc_tab : [PictTypes -> BOOLEAN], repeatfirst : BOOLEAN,
            prog_frame : BOOLEAN, motion_data : {p.motion_data}]
  /\ \A i \in 0..(p.M - 1) : p.motion_data[i] \in [{Forw, Back} -> MotionData]

(***************************************************************************)
(* conform.c                                                               *)
(***************************************************************************)
\* The directions of the pictures of a group: <<picture, direction>>.
Uses(p) == {u \in (0..(p.M - 1)) \X {Forw, Back} : u[1] # 0 \/ u[2] = Forw}

HasRange(p, m) ==
  \A axis \in {1, 2} : m.code[axis] \in 1..(IF p.mpeg1 THEN 7 ELSE 9) /\ m.s[axis] > 0

simpeg_encode_range_checks(p) ==
  /\ \A size \in {p.horizontal_size, p.vertical_size} :
       /\ size >= 1 /\ size <= 16383 /\ size % 4096 # 0
       /\ p.mpeg1 => size <= 4095
  /\ p.chroma_format # CHROMA444 => p.horizontal_size % 2 = 0
  /\ p.chroma_format = CHROMA420 => p.vertical_size % 2 = 0
  /\ p.fieldpic => p.vertical_size % (IF p.chroma_format = CHROMA420 THEN 4 ELSE 2) = 0
  /\ p.aspectratio \in 1..(IF p.mpeg1 THEN 14 ELSE 4)
  /\ p.frame_rate_code \in 1..8
  /\ p.bit_rate > 0 /\ p.bit_rate <= 2 * (2 ^ 30 - 1)
  /\ p.mpeg1 => p.bit_rate <= 2 * (2 ^ 18 - 1)
  /\ p.vbv_buffer_size \in 1..(2 ^ 18 - 1)
  /\ p.mpeg1 => p.vbv_buffer_size < 1024
  /\ p.chroma_format \in CHROMA420..CHROMA444
  /\ p.dc_prec \in 0..3
  /\ \A u \in Uses(p) : HasRange(p, p.motion_data[u[1]][u[2]])

SP == 5
MP == 4
HP == 1
LL == 10
ML == 8
H14 == 6
HL == 4

profile_level_defined ==
  ({HP} \X {HL, H14, ML}) \cup ({MP} \X {HL, H14, ML, LL}) \cup {<<SP, ML>>}

Limits(codes, h, v, samples, rate, vbv) ==
  [code |-> codes, hor_size |-> h, vert_size |-> v, sample_rate |-> samples,
   bit_rate |-> rate, vbv_buffer_size |-> vbv]

maxval_tab(level) ==
  CASE level = HL -> Limits(<<9, 5>>, 1920, 1152, 62668800, 80, 597)
    [] level = H14 -> Limits(<<9, 5>>, 1440, 1152, 47001600, 60, 448)
    [] level = ML -> Limits(<<8, 5>>, 720, 576, 10368000, 15, 112)
    [] level = LL -> Limits(<<7, 4>>, 352, 288, 3041280, 4, 29)

\* Pictures per second, rounded, and whether the exact rate is 1000/1001 of it.
fps(code) == <<24, 24, 25, 30, 30, 50, 60, 60>>[code]
IsNtsc(code) == code \in {1, 4, 7}

\* n things in every picture are more than limit in a second.
Exceeds(n, code, limit) ==
  LET m == n * fps(code)
  IN IF IsNtsc(code) THEN m - limit > m \div 1001 ELSE m > limit

simpeg_encode_profile_and_level_checks(p) ==
  /\ p.profile \in 0..15 /\ p.level \in 0..15
  /\ p.profile < 8 =>
       LET max == maxval_tab(p.level) IN
       /\ <<p.profile, p.level>> \in profile_level_defined
       /\ p.profile = SP => p.M = 1
       /\ p.profile # HP => p.chroma_format = CHROMA420
       /\ p.profile = HP => p.chroma_format # CHROMA444
       /\ (p.profile >= MP /\ p.repeatfirst) =>
            /\ p.frame_rate_code > 2
            /\ p.prog_seq => p.frame_rate_code > 6
       /\ p.profile # HP => p.dc_prec # 3
       /\ p.level >= ML => p.frame_rate_code <= 5
       /\ \A u \in Uses(p), axis \in {1, 2} :
            p.motion_data[u[1]][u[2]].code[axis] <= max.code[axis]
       /\ p.horizontal_size <= max.hor_size
       /\ p.vertical_size <= max.vert_size
       /\ ~Exceeds(p.horizontal_size * p.vertical_size, p.frame_rate_code, max.sample_rate)
       /\ p.bit_rate <= 5000 * max.bit_rate
       /\ p.vbv_buffer_size <= max.vbv_buffer_size

(***************************************************************************)
(* readparmfile()                                                          *)
(***************************************************************************)
mb_width(p) == (p.horizontal_size + 15) \div 16
mb_height(p) ==
  IF p.prog_seq THEN (p.vertical_size + 15) \div 16 ELSE 2 * ((p.vertical_size + 31) \div 32)
mb_height2(p) == IF p.fieldpic THEN mb_height(p) \div 2 ELSE mb_height(p)

\* What constrained_parameters_flag may stand for.
IsConstrained(p) ==
  LET mbs == ((p.horizontal_size + 15) \div 16) * ((p.vertical_size + 15) \div 16) IN
  /\ p.horizontal_size <= 768 /\ p.vertical_size <= 576 /\ mbs <= 396
  /\ ~Exceeds(mbs, p.frame_rate_code, 396 * 25)
  /\ p.frame_rate_code <= 5
  /\ \A u \in Uses(p), axis \in {1, 2} : p.motion_data[u[1]][u[2]].code[axis] <= 4

OfMpeg1(p) ==
  [p EXCEPT !.constrparms = @ /\ IsConstrained(p), !.prog_seq = TRUE,
            !.chroma_format = CHROMA420, !.dc_prec = 0,
            !.qscale_tab = Always(FALSE), !.intravlc_tab = Always(FALSE)]

OfScans(p) ==
  LET q == [p EXCEPT !.prog_frame = @ \/ p.prog_seq] IN
  [q EXCEPT !.fieldpic = @ /\ ~q.prog_frame,
            !.repeatfirst = @ /\ q.prog_frame,
            !.frame_pred_dct_tab = IF q.prog_frame THEN Always(TRUE) ELSE @,
            !.topfirst = @ /\ (q.prog_seq => p.repeatfirst /\ q.prog_frame)]

Least(a, b) == IF a < b THEN a ELSE b

\* A faulty variant: windows as wide as the vectors in half pels.
WideWindow(m) == [m EXCEPT !.s = [axis \in {1, 2} |-> Least(@[axis], 8 * 2 ^ m.code[axis] - 1)]]

ReducedWindow(m) == [m EXCEPT !.s = [axis \in {1, 2} |-> Least(@[axis], 4 * 2 ^ m.code[axis] - 1)]]

OfWindows(p) ==
  [p EXCEPT !.motion_data =
     [i \in 0..(p.M - 1) |->
        [d \in {Forw, Back} |-> IF <<i, d>> \in Uses(p) THEN ReducedWindow(@[i][d]) ELSE @[i][d]]]]

IsAccepted(p) ==
  /\ p.N >= 1 /\ p.M >= 1 /\ p.N % p.M = 0
  /\ simpeg_encode_range_checks(p)
  /\ ~p.mpeg1 => simpeg_encode_profile_and_level_checks(p)

Adjusted(p) ==
  OfWindows(OfScans(IF p.mpeg1 THEN OfMpeg1(p) ELSE [p EXCEPT !.constrparms = FALSE]))

(***************************************************************************)
(* puthdr.c                                                                *)
(***************************************************************************)
putbits(v, n) == v % 2 ^ n
Bit(b) == IF b THEN 1 ELSE 0

bit_rate_value(p) == (p.bit_rate + 1) \div 2

simpeg_encode_putseqhdr(p) ==
  [horizontal_size_value |-> putbits(p.horizontal_size, 12),
   vertical_size_value |-> putbits(p.vertical_size, 12),
   aspect_ratio_information |-> putbits(p.aspectratio, 4),
   frame_rate_code |-> putbits(p.frame_rate_code, 4),
   bit_rate_value |-> putbits(bit_rate_value(p), 18),
   vbv_buffer_size_value |-> putbits(p.vbv_buffer_size, 10),
   constrained_parameters_flag |-> Bit(p.constrparms)]

\* A faulty variant: the high bits begin after 16.
ShiftsBy16(p) ==
  [profile_and_level |-> putbits(16 * p.profile + p.level, 8),
   progressive_sequence |-> Bit(p.prog_seq),
   chroma_format |-> putbits(p.chroma_format, 2),
   horizontal_size_extension |-> putbits(p.horizontal_size \div 2 ^ 12, 2),
   vertical_size_extension |-> putbits(p.vertical_size \div 2 ^ 12, 2),
   bit_rate_extension |-> putbits(bit_rate_value(p) \div 2 ^ 16, 12),
   vbv_buffer_size_extension |-> putbits(p.vbv_buffer_size \div 2 ^ 10, 8)]

simpeg_encode_putseqext(p) ==
  [profile_and_level |-> putbits(16 * p.profile + p.level, 8),
   progressive_sequence |-> Bit(p.prog_seq),
   chroma_format |-> putbits(p.chroma_format, 2),
   horizontal_size_extension |-> putbits(p.horizontal_size \div 2 ^ 12, 2),
   vertical_size_extension |-> putbits(p.vertical_size \div 2 ^ 12, 2),
   bit_rate_extension |-> putbits(bit_rate_value(p) \div 2 ^ 18, 12),
   vbv_buffer_size_extension |-> putbits(p.vbv_buffer_size \div 2 ^ 10, 8)]

\* The time code of a frame: of a day, without drop frames.
frametotc(p, frame) ==
  LET n == fps(p.frame_rate_code)
      s == frame \div n
  IN [hour |-> putbits((s \div 3600) % 24, 5), minute |-> putbits((s \div 60) % 60, 6),
      sec |-> putbits(s % 60, 6), pict |-> putbits(frame % n, 6)]

\* codes are the f_codes of both directions; 15 where there are no vectors.
NoCodes == <<15, 15>>
simpeg_encode_putpicthdr(p, type, temp_ref, codes) ==
  [temporal_reference |-> putbits(temp_ref, 10), picture_coding_type |-> type,
   forward_f_code |-> putbits(IF p.mpeg1 THEN codes[Forw][1] ELSE 7, 3),
   backward_f_code |-> putbits(IF p.mpeg1 THEN codes[Back][1] ELSE 7, 3)]

simpeg_encode_putpictcodext(p, struct, fpd, codes) ==
  [f_code |-> [d \in {Forw, Back} |-> [axis \in {1, 2} |-> putbits(codes[d][axis], 4)]],
   intra_dc_precision |-> putbits(p.dc_prec, 2), picture_structure |-> struct,
   top_field_first |-> Bit(p.topfirst /\ struct = "frame"),
   frame_pred_frame_dct |-> Bit(fpd)]

\* The code of a slice is that of its row; in a high picture it is in two parts.
slice(p, row) ==
  IF p.mpeg1 \/ p.vertical_size <= 2800
    THEN [start_code |-> 1 + row, extension |-> 0]
    ELSE [start_code |-> 1 + (row % 128), extension |-> putbits(row \div 128, 3)]
=============================================================================
