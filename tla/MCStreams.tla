----------------------------- MODULE MCStreams -----------------------------
(* An instance of Streams for TLC: a vorbis file that libsndfile reads as  *)
(* well, a wave file that a client's importers read too, and a file that   *)
(* only one of these reads, who may be added when all others were asked,   *)
(* and that an exporter writes.                                            *)
EXTENDS Streams

CONSTANTS c1, c2

WhoOpens ==
  [i \in Importers \cup Exports |->
     CASE i = Vorbis -> {"ogg"} [] i = Sndfile -> {"ogg", "wav"}
       [] i = c1 -> {"wav"} [] i = c2 -> {"wav", "raw"} [] OTHER -> {"raw"}]
HowLong == [f \in Files |-> IF f = "wav" THEN 3 ELSE 5]
=============================================================================
