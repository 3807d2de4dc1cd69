----------------------------- MODULE CodecSteps -----------------------------
(***************************************************************************)
(* The words in which Codecs and PlatformCodecs write a function of a      *)
(* codec down.  A way through it is a sequence of steps.  A step may take  *)
(* resources and give them back, set the codec's error code, and leave by  *)
(* one of its exits, which give back what the code gives back there.       *)
(***************************************************************************)
EXTENDS Naturals, Sequences

Exit(code, frees) == [code |-> code, frees |-> frees]

Step == [take |-> {}, give |-> {}, use |-> {}, sets |-> "same", exits |-> {},
         goes |-> TRUE, unseen |-> "none"]
Takes(R) == << [Step EXCEPT !.take = R] >>
Gives(R) == << [Step EXCEPT !.give = R] >>
Sets(code) == << [Step EXCEPT !.sets = code] >>
Tries(R, exits) == << [Step EXCEPT !.take = R, !.exits = exits] >>
Checks(exits) == Tries({}, exits)
Fails(exits) == << [Step EXCEPT !.exits = exits, !.goes = FALSE] >>

\* What must be there and not given back yet.
Uses(R) == << [Step EXCEPT !.use = R] >>

\* Input or output that may fall short, and nobody looks whether it did.
UncheckedRead == << [Step EXCEPT !.unseen = "unread"] >>
UncheckedWrite == << [Step EXCEPT !.unseen = "unwritten"] >>
=============================================================================
