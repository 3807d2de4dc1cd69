------------------------------ MODULE MCSImage ------------------------------
(* Two images over a small heap; two files of different sizes, one of a     *)
(* format that can be read line by line.                                    *)
EXTENDS SImage, TLC

CONSTANTS tiff, jpeg, small, large

MCSizeOf == (tiff :> small) @@ (jpeg :> large)

Interchangeable == Permutations(Images) \cup Permutations(Blocks)
=============================================================================
