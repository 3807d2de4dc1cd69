------------------------------ MODULE MCMovies ------------------------------
(* An instance of Movies for TLC: two movies, two images they share and   *)
(* an exporter of a client that takes AVI files as well.                   *)
EXTENDS Movies, TLC

MCSymmetry == Permutations(Movies) \cup Permutations(Images)

TakesAvi == [e \in Exports |-> {"video/avi"}]
=============================================================================
