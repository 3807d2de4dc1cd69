------------------------------ MODULE MCResize ------------------------------
(* Every pair of sizes up to eight, large ones where rounding in the width *)
(* of the filter shows, and samples so many that the sums of rounded steps *)
(* come into the next pixel, or out of the image.                          *)
EXTENDS Resize

SmallAxes == ((1..8) \X (1..8)) \cup {<<30, 7>>, <<300, 10>>, <<600, 20>>, <<602, 21>>}
SampledAxes == ((1..3) \X (1..3)) \cup {<<1, 6>>, <<7, 5>>, <<3, 7>>}

Same == <<1, 1>>
LongAxes == {<<281, 506>>, <<241, 562>>, <<1028, 8226>>}
SampledBoxes ==
  (SampledAxes \X SampledAxes \X SampledAxes)
  \cup {<<Same, Same, x>> : x \in LongAxes} \cup {<<<<281, 506>>, Same, Same>>}
=============================================================================
