------------------------------ MODULE MCParams ------------------------------
(* An instance of Params for TLC: two objects, a name that is used both as *)
(* an integer and as a string and one that is only used as a string, calls *)
(* of up to two arguments, some with an unknown type among them.           *)
EXTENDS Params, TLC

CONSTANTS o1, o2, b1, b2, b3, b4

Symmetry == Permutations({b1, b2, b3, b4}) \cup Permutations({o1, o2})

Arg(n, t, v) == [name |-> n, type |-> t, val |-> v]
Ask(n, t) == [name |-> n, type |-> t]

SetCalls ==
  { <<Arg("file", "string", "a"), Arg("file", "int", "one")>>,
    <<Arg("mode", "other", "one"), Arg("mode", "string", "a")>>,
    <<Arg("file", "string", Null)>>,
    <<Arg("file", "string", "b"), Arg("mode", "string", "a")>> }
GetCalls ==
  { <<Ask("file", "int"), Ask("file", "string")>>,
    <<Ask("mode", "string"), Ask("file", "other"), Ask("file", "string")>> }
=============================================================================
