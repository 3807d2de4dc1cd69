----------------------------- MODULE ParamMaps ------------------------------
(* What s_params promises: each object maps pairs of a name and a type to  *)
(* values.  A copy is a map of its own, and s_params_get() answers its     *)
(* arguments in turn up to the first one it has no value for.              *)
EXTENDS Naturals, Sequences

CONSTANTS Objects, Keys, Values, Questions, NoMap

VARIABLES maps, answer
vars == <<maps, answer>>

Init == maps = [o \in Objects |-> NoMap] /\ answer = <<>>

Create(o) == maps[o] = NoMap /\ maps' = [maps EXCEPT ![o] = << >>] /\ UNCHANGED answer

Destroy(o) == maps[o] # NoMap /\ maps' = [maps EXCEPT ![o] = NoMap] /\ UNCHANGED answer

Put(o, k, v) ==
  /\ maps[o] # NoMap
  /\ maps' = [maps EXCEPT ![o] =
                [x \in DOMAIN maps[o] \cup {k} |-> IF x = k THEN v ELSE maps[o][x]]]
  /\ UNCHANGED answer

Copy(from, to) ==
  /\ maps[from] # NoMap /\ maps[to] = NoMap
  /\ maps' = [maps EXCEPT ![to] = maps[from]]
  /\ UNCHANGED answer

Get(o, asked) ==
  /\ maps[o] # NoMap
  /\ \E n \in 0 .. Len(asked) :
       /\ \A i \in 1 .. n : asked[i] \in DOMAIN maps[o]
       /\ n < Len(asked) => asked[n + 1] \notin DOMAIN maps[o]
       /\ answer' = [i \in 1 .. n |-> maps[o][asked[i]]]
  /\ UNCHANGED maps

Next ==
  \/ \E o \in Objects : Create(o) \/ Destroy(o)
  \/ \E o \in Objects, k \in Keys, v \in Values : Put(o, k, v)
  \/ \E from, to \in Objects : Copy(from, to)
  \/ \E o \in Objects, asked \in Questions : Get(o, asked)

Spec == Init /\ [][Next]_vars
=============================================================================
