------------------------------ MODULE MCCodecs ------------------------------
(* Every codec, with up to two images open at once and pictures of up to   *)
(* three rows, or twelve where passes take every eighth.                   *)
EXTENDS Codecs
=============================================================================
