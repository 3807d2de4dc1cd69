--------------------------- MODULE MCMpegPictures ---------------------------
(* Parameters for TLC.  Pictures are coded three macroblocks wide, where   *)
(* one may be skipped in every slice, with vectors that cross the range of *)
(* an f_code.  Searches end where they began or in a corner, those of two  *)
(* halves of a macroblock in opposite corners.  Headers are read for the   *)
(* defaults with any two values changed to one near a limit.               *)
EXTENDS MpegPictures

Low(search) == <<Min(search.x), Min(search.y)>>
High(search) == <<Max(search.x), Max(search.y)>>
BeginOrCorner(search) ==
  {search.at} \cup ({Min(search.x), Max(search.x)} \X {Min(search.y), Max(search.y)})
OppositeCorners(s1, s2) == {<<Low(s1), High(s2)>>, <<High(s1), Low(s2)>>}

Motion(code, s) ==
  [i \in 0..1 |->
     IF i = 0 THEN [forw |-> [code |-> code, s |-> <<s, s>>], back |-> Alike(0, 0)]
     ELSE [forw |-> [code |-> code, s |-> <<s, s>>], back |-> Alike(2, 11)]]

Small(p) ==
  [p EXCEPT !.horizontal_size = 48, !.vertical_size = 32, !.frame_rate_code = 3,
            !.N = 2, !.M = 2, !.motion_data = Motion(<<1, 1>>, 11)]

OnlyReferences(p) == [p EXCEPT !.N = 1, !.M = 1]

CodedParameters ==
  {Small(Mpeg1Defaults),
   [Small(Mpeg1Defaults) EXCEPT !.motion_data = Motion(<<2, 1>>, 11)],
   [Small(Mpeg2Defaults) EXCEPT !.prog_frame = TRUE, !.profile = 8, !.chroma_format = CHROMA444,
                                !.motion_data = Motion(<<2, 1>>, 20)],
   Small(Mpeg2Defaults),
   [Small(Mpeg2Defaults) EXCEPT !.fieldpic = TRUE],
   OnlyReferences(Small(Mpeg2Defaults)),
   OnlyReferences([Small(Mpeg2Defaults) EXCEPT !.topfirst = FALSE]),
   OnlyReferences([Small(Mpeg2Defaults) EXCEPT
                     !.fieldpic = TRUE, !.topfirst = FALSE, !.vertical_size = 64])}

\* Values for single parameters, one per pair.
Values ==
  ({"horizontal_size"} \X {0, 1, 353, 720, 4094, 4096, 4098, 16382, 16384}) \cup
  ({"vertical_size"} \X {16, 30, 577, 1152, 2784, 2788, 2800, 2816, 4092, 16380}) \cup
  ({"bit_rate"} \X {0, 1, 74999, 75001, 524286, 524287, 2147483646}) \cup
  ({"vbv_buffer_size"} \X {112, 113, 1023, 1024, 262143, 262144}) \cup
  ({"profile"} \X {1, 5, 8, 16}) \cup ({"level"} \X {4, 6, 10}) \cup
  ({"frame_rate_code"} \X {1, 2, 4, 6, 8, 9}) \cup ({"aspectratio"} \X {4, 5, 14, 15}) \cup
  ({"chroma_format"} \X {2, 3}) \cup ({"dc_prec"} \X {3, 4}) \cup
  ({"N"} \X {1, 7}) \cup ({"M"} \X {1, 2}) \cup
  ({"constrparms", "prog_seq", "prog_frame", "fieldpic", "repeatfirst", "topfirst"} \X BOOLEAN) \cup
  ({"frame_pred_dct_tab"} \X {Always(TRUE)})

Windows2 ==
  {[i \in 0..2 |-> [forw |-> [code |-> code, s |-> s], back |-> Alike(4, 31)]] :
     code \in {<<1, 1>>, <<7, 7>>, <<9, 5>>, <<9, 9>>, <<8, 2>>, <<0, 1>>, <<10, 4>>},
     s \in {<<1, 1>>, <<0, 3>>, <<5000, 5000>>}}

Changed(p, v) == [p EXCEPT ![v[1]] = v[2]]

\* Small frames of which a whole or a part macroblock is the image.
FrameParameters ==
  {[p EXCEPT !.horizontal_size = w, !.vertical_size = 34] :
     w \in {16, 46}, p \in {Small(Mpeg1Defaults), Small(Mpeg2Defaults),
       [Small(Mpeg2Defaults) EXCEPT !.prog_frame = TRUE],
       [Small(Mpeg2Defaults) EXCEPT !.profile = 1, !.chroma_format = CHROMA422]}}

AllParameters ==
  CodedParameters \cup FrameParameters \cup
  UNION {{Changed(Changed(p, v), w) : v \in Values, w \in Values} \cup
         {[Changed(p, v) EXCEPT !.motion_data = motion] : v \in Values, motion \in Windows2} :
         p \in {Mpeg1Defaults, Mpeg2Defaults}}
=============================================================================
