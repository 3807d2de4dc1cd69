-------------------------- MODULE LoadersRefinement --------------------------
(***************************************************************************)
(* The linked list of Loaders implements the ordered registry of           *)
(* LoaderRegistry when callbacks do not call the library (Callbackers is   *)
(* empty).  The abstract order is what walking the pointers gives: no      *)
(* history variable of Loaders takes part.                                 *)
(***************************************************************************)
EXTENDS Loaders, FiniteSets

ASSUME MemoryAssumption == IsFiniteSet(Nodes)

(* The node that i steps along the list lead to.                           *)
Walk[i \in Nat] ==
  IF i <= 1 THEN first_loader
  ELSE IF Walk[i - 1] = NoLoader THEN NoLoader ELSE next[Walk[i - 1]]

(* One step more than there are nodes: a cycle shows as a repeated node.   *)
Reached == {i \in 1..(Cardinality(Nodes) + 1) : Walk[i] # NoLoader}

ListAsSequence == [i \in Reached |-> Walk[i]]

Registry == INSTANCE LoaderRegistry WITH
  Loaders <- Nodes, order <- ListAsSequence

(* Every registration, removal and search is one step of the ordered       *)
(* registry, everything else a stutter; a search answers with the first    *)
(* loader that recognises the file (find_loader, simage.c:149).            *)
ImplementsRegistry == Registry!Spec
=============================================================================
