--------------------------- MODULE MCMpegSequence ---------------------------
(* Group shapes for TLC: no B pictures, one and two of them between        *)
(* references, one and two references in a group, and two shapes that      *)
(* readparmfile() refuses.                                                 *)
EXTENDS MpegSequence

AllShapes == {<<1, 1>>, <<2, 1>>, <<2, 2>>, <<4, 2>>, <<3, 3>>, <<6, 3>>, <<3, 2>>, <<0, 1>>}
=============================================================================
