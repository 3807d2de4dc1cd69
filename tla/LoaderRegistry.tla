--------------------------- MODULE LoaderRegistry ---------------------------
(***************************************************************************)
(* What the image loader registry promises to its clients: an ordered list *)
(* of loaders that grows at either end and shrinks anywhere, and a search  *)
(* that answers with the first loader of the list that recognises a file.  *)
(* Nothing here mentions nodes or pointers; Loaders implements this with a *)
(* singly linked list (LoadersRefinement).                                 *)
(***************************************************************************)
EXTENDS Naturals, Sequences, FiniteSets

CONSTANTS
  Loaders,      \* the loaders that may ever be registered
  Files,        \* the file names clients pass
  Readable,     \* the files fopen() and fread() get a header from
  Recognises,   \* the pairs <<loader, file>> whose identify function says yes
  NoLoader,     \* the null pointer
  Unasked       \* the answer before any search has completed

VARIABLES
  order,        \* the registered loaders, first to be asked first
  found         \* the answer of the last search: [file, loader]

vars == <<order, found>>

Registered == {order[i] : i \in DOMAIN order}

Matches(f) == {i \in DOMAIN order : f \in Readable /\ <<order[i], f>> \in Recognises}

FirstMatch(f) ==
  IF Matches(f) = {} THEN NoLoader
  ELSE order[CHOOSE i \in Matches(f) : \A j \in Matches(f) : i <= j]

Init == order = <<>> /\ found = Unasked

Prepend(l) ==
  /\ l \notin Registered
  /\ order' = <<l>> \o order
  /\ UNCHANGED found

Enlist(l) ==
  /\ l \notin Registered
  /\ order' = Append(order, l)
  /\ UNCHANGED found

Drop(l) ==
  /\ \E k \in DOMAIN order :
       /\ order[k] = l
       /\ order' = [i \in 1 .. Len(order) - 1 |-> IF i < k THEN order[i] ELSE order[i + 1]]
  /\ UNCHANGED found

Find(f) ==
  /\ found' = [file |-> f, loader |-> FirstMatch(f)]
  /\ UNCHANGED order

Next ==
  \/ \E l \in Loaders : Prepend(l) \/ Enlist(l) \/ Drop(l)
  \/ \E f \in Files : Find(f)

Spec == Init /\ [][Next]_vars
=============================================================================
