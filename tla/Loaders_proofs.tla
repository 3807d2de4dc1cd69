--------------------------- MODULE Loaders_proofs ---------------------------
(***************************************************************************)
(* Proofs about the loader registry (Loaders).  ListInv, the inductive     *)
(* invariant of the list, adds to the pointer invariants that no loader is *)
(* listed twice and that the valid nodes are exactly the listed ones and   *)
(* the internal ones add_internal_loaders() has yet to reach: a node is    *)
(* therefore never linked a second time, and the predecessor the removal   *)
(* loop finds is the one before it in the order.                           *)
(*                                                                         *)
(* SearchInv says of every walk in progress that those ahead of its cursor *)
(* who were there from its beginning have said no, unless it has gone      *)
(* stray: its own loader was removed under it.  Ahead(x, y) compares       *)
(* places in the list, and no registration or removal changes it between   *)
(* two loaders that stay.  The refinement needs besides that nothing is    *)
(* registered during a search (OneCall), which holds when callbacks do not *)
(* call the library.                                                       *)
(***************************************************************************)
EXTENDS LoadersRefinement, SequenceTheorems, FiniteSetTheorems, WellFoundedInduction, TLAPS

Members == {order[i] : i \in 1..Len(order)}
Waiting == {Builtins[k] : k \in (installed + 1)..Len(Builtins)}

ListTypes ==
  /\ first_loader \in Nodes \cup {NoLoader}
  /\ last_loader \in Nodes \cup {NoLoader}
  /\ next \in [Nodes -> Nodes \cup {NoLoader}]
  /\ order \in Seq(Nodes)

NoDuplicates ==
  \A i, j \in 1..Len(order) : order[i] = order[j] => i = j

Shape == ListTypes /\ NoDuplicates /\ EmptyListOK /\ EndsOK /\ ChainOK

MembersOK ==
  /\ installed \in 0..Len(Builtins)
  /\ allocated = Members \cup Waiting
  /\ Members \cap Waiting = {}

ListInv == Shape /\ MembersOK

-----------------------------------------------------------------------------
(* Linking a node that is not in the list keeps its shape and adds exactly *)
(* that node.                                                              *)
LEMMA AddKeepsShape ==
  ASSUME Shape, NEW l \in Nodes, l \notin Members, NEW b \in BOOLEAN,
         add_loader(l, b)
  PROVE  Shape' /\ Members' = Members \cup {l}
<1> DEFINE n == Len(order)
<1>1. n \in Nat /\ \A i \in 1..n : order[i] \in Nodes /\ order[i] # l
  BY DEF Shape, ListTypes, Members
<1>2. CASE b
  <2>1. order' = <<l>> \o order
    BY <1>2 DEF add_loader
  <2>2. /\ order' \in Seq(Nodes) /\ Len(order') = n + 1 /\ order' # <<>>
        /\ order'[1] = l
        /\ \A i \in 2..(n + 1) : order'[i] = order[i - 1]
    BY <2>1, <1>1 DEF Shape, ListTypes
  <2>3. Members' = Members \cup {l}
    <3>1. \A i \in 1..n : i + 1 \in 1..(n+1) /\ order'[i + 1] = order[i]
      BY <2>2, <1>1
    <3>2. Members' \subseteq Members \cup {l}
      BY <2>2, <1>1 DEF Members
    <3>3. Members \cup {l} \subseteq Members'
      <4>1. l \in Members'
        BY <2>2, <1>1 DEF Members
      <4>2. \A i \in 1..n : order[i] \in Members'
        BY <2>2, <3>1 DEF Members
      <4> QED BY <4>1, <4>2 DEF Members
    <3> QED BY <3>2, <3>3
  <2>4. NoDuplicates'
    <3>1. \A i \in 2..(n + 1) : i - 1 \in 1..n /\ order'[i] # l
      BY <1>1, <2>2
    <3> SUFFICES ASSUME NEW i \in 1..(n + 1), NEW j \in 1..(n + 1), order'[i] = order'[j]
                 PROVE  i = j
      BY <2>2 DEF NoDuplicates
    <3>2. CASE i = 1 \/ j = 1
      BY <3>1, <3>2, <2>2, <1>1
    <3>3. CASE i # 1 /\ j # 1
      <4>1. i - 1 \in 1..n /\ j - 1 \in 1..n /\ order[i - 1] = order[j - 1]
        BY <3>3, <2>2, <1>1
      <4>2. i - 1 = j - 1
        BY <4>1 DEF Shape, NoDuplicates
      <4> QED BY <4>2, <1>1
    <3> QED BY <3>2, <3>3
  <2>5. (ListTypes /\ EmptyListOK /\ EndsOK /\ ChainOK)'
    <3>1. CASE first_loader = NoLoader
      <4>1. order = <<>> /\ n = 0
        BY <3>1, <1>1, NullAssumption DEF Shape, EndsOK, ListTypes
      <4>2. ToEmptyList(l)
        BY <3>1, <1>2 DEF add_loader, AtHead
      <4>3. /\ first_loader' = l /\ last_loader' = l
            /\ next' = [next EXCEPT ![l] = NoLoader] /\ next'[l] = NoLoader
            /\ Len(order') = 1 /\ order'[1] = l
        BY <4>1, <4>2, <2>2 DEF ToEmptyList, Shape, ListTypes
      <4>4. ListTypes'
        BY <4>3, <2>2 DEF Shape, ListTypes
      <4>5. (EmptyListOK /\ EndsOK /\ ChainOK)'
        BY <4>3, <2>2 DEF EmptyListOK, EndsOK, ChainOK
      <4> QED BY <4>4, <4>5
    <3>2. CASE first_loader # NoLoader
      <4>1. AtHead(l) /\ order # <<>> /\ n > 0
        BY <3>2, <1>2, <1>1 DEF add_loader, ToEmptyList, Shape, EmptyListOK, ListTypes
      <4>2. next' = [next EXCEPT ![l] = order[1]] /\ first_loader' = l
            /\ last_loader' = order[n]
        BY <4>1 DEF AtHead, Shape, EndsOK
      <4>3. ChainOK'
        BY <4>1, <4>2, <2>2, <1>1 DEF Shape, ListTypes, ChainOK
      <4>4. (ListTypes /\ EmptyListOK /\ EndsOK)'
        BY <4>1, <4>2, <2>2, <1>1 DEF Shape, ListTypes, EmptyListOK, EndsOK
      <4> QED BY <4>3, <4>4
    <3> QED BY <3>1, <3>2
  <2> QED BY <2>3, <2>4, <2>5 DEF Shape
<1>3. CASE ~b
  <2>1. order' = Append(order, l)
    BY <1>3 DEF add_loader
  <2>2. /\ order' \in Seq(Nodes) /\ Len(order') = n + 1 /\ order' # <<>>
        /\ order'[n + 1] = l
        /\ \A i \in 1..n : order'[i] = order[i]
    BY <2>1, <1>1 DEF Shape, ListTypes
  <2>3. Members' = Members \cup {l}
    BY <2>2, <1>1 DEF Members
  <2>4. NoDuplicates'
    BY <1>1, <2>2 DEF NoDuplicates, Shape
  <2>5. (ListTypes /\ EmptyListOK /\ EndsOK /\ ChainOK)'
    <3>1. CASE first_loader = NoLoader
      <4>1. order = <<>> /\ n = 0
        BY <3>1, <1>1, NullAssumption DEF Shape, EndsOK, ListTypes
      <4>2. ToEmptyList(l)
        BY <3>1, <1>3 DEF add_loader, AtTail
      <4>3. /\ first_loader' = l /\ last_loader' = l
            /\ next' = [next EXCEPT ![l] = NoLoader] /\ next'[l] = NoLoader
            /\ Len(order') = 1 /\ order'[1] = l
        BY <4>1, <4>2, <2>2 DEF ToEmptyList, Shape, ListTypes
      <4>4. ListTypes'
        BY <4>3, <2>2 DEF Shape, ListTypes
      <4>5. (EmptyListOK /\ EndsOK /\ ChainOK)'
        BY <4>3, <2>2 DEF EmptyListOK, EndsOK, ChainOK
      <4> QED BY <4>4, <4>5
    <3>2. CASE first_loader # NoLoader
      <4>1. AtTail(l) /\ order # <<>> /\ n > 0
        BY <3>2, <1>3, <1>1 DEF add_loader, ToEmptyList, Shape, EmptyListOK, ListTypes
      <4>2. /\ next' = [next EXCEPT ![l] = NoLoader, ![order[n]] = l]
            /\ first_loader' = order[1] /\ last_loader' = l
        BY <4>1 DEF AtTail, Shape, EndsOK
      <4>3. /\ next'[l] = NoLoader /\ next'[order[n]] = l
            /\ \A i \in 1..(n - 1) : next'[order[i]] = order[i + 1]
        <5>1. \A i \in 1..(n - 1) : order[i] # order[n]
          BY <1>1, <4>1 DEF Shape, NoDuplicates
        <5> QED BY <4>1, <4>2, <1>1, <5>1 DEF Shape, ListTypes, ChainOK
      <4>4. ChainOK'
        BY <4>1, <4>3, <2>2, <1>1 DEF ChainOK
      <4>5. ListTypes'
        <5>1. order[1] \in Nodes /\ order[n] \in Nodes
          BY <4>1, <1>1
        <5>2. next' \in [Nodes -> Nodes \cup {NoLoader}]
          BY <4>2, <5>1 DEF Shape, ListTypes
        <5> QED BY <4>2, <5>1, <5>2, <2>2 DEF ListTypes
      <4>6. EmptyListOK'
        BY <2>2 DEF EmptyListOK
      <4>7. EndsOK'
        <5>1. order'[1] = order[1]
          BY <2>2, <4>1, <1>1
        <5> QED BY <4>2, <4>3, <2>2, <5>1 DEF EndsOK
      <4> QED BY <4>4, <4>5, <4>6, <4>7
    <3> QED BY <3>1, <3>2
  <2> QED BY <2>3, <2>4, <2>5 DEF Shape
<1> QED BY <1>2, <1>3

(* Unlinking: the removal loop stops behind the loader listed before h.    *)
LEMMA PredecessorInOrder ==
  ASSUME Shape, allocated = Members, NEW k \in 2..Len(order)
  PROVE  Predecessor(order[k]) = order[k - 1]
<1>1. /\ Len(order) \in Nat
      /\ \A i \in 1..Len(order) : order[i] \in Nodes
      /\ 1 \in 1..Len(order) /\ k \in 1..Len(order) /\ k - 1 \in 1..(Len(order) - 1)
  BY DEF Shape, ListTypes
<1>2. first_loader = order[1] /\ first_loader # order[k]
  BY <1>1 DEF Shape, EndsOK, NoDuplicates
<1>3. order[k - 1] \in allocated /\ next[order[k - 1]] = order[k]
  BY <1>1 DEF Members, Shape, ChainOK
<1>4. ASSUME NEW p \in allocated, next[p] = order[k]
      PROVE  p = order[k - 1]
  <2>1. PICK i \in 1..Len(order) : p = order[i]
    BY <1>4 DEF Members
  <2>2. i # Len(order)
    BY <2>1, <1>4, <1>1, NullAssumption DEF Shape, EndsOK
  <2>3. i \in 1..(Len(order) - 1) /\ i + 1 \in 1..Len(order) /\ order[i + 1] = order[k]
    BY <2>1, <2>2, <1>1, <1>4 DEF Shape, ChainOK
  <2>4. i + 1 = k
    BY <2>3, <1>1 DEF Shape, NoDuplicates
  <2> QED BY <2>1, <2>4
<1> QED BY <1>2, <1>3, <1>4 DEF Predecessor

(* Unlinking a listed node keeps the shape and drops exactly that node.    *)
LEMMA UnlinkKeepsShape ==
  ASSUME Shape, allocated = Members, NEW h \in Members, Unlink(h),
         order' = [i \in 1..(Len(order) - 1) |->
                     IF i < PositionOf(h) THEN order[i] ELSE order[i + 1]]
  PROVE  Shape' /\ Members' = Members \ {h}
<1> DEFINE n == Len(order)
           k == PositionOf(h)
<1>1. /\ n \in Nat /\ n > 0 /\ DOMAIN order = 1..n
      /\ \A i \in 1..n : order[i] \in Nodes
  BY DEF Shape, ListTypes, Members
<1>2. k \in 1..n /\ order[k] = h
  <2>1. \E i \in 1..n : order[i] = h
    BY DEF Members
  <2> QED BY <2>1, <1>1 DEF PositionOf
<1> HIDE DEF k
<1>3. /\ order' = [i \in 1..(n - 1) |-> IF i < k THEN order[i] ELSE order[i + 1]]
      /\ order' \in Seq(Nodes) /\ Len(order') = n - 1
      /\ \A i \in 1..(n - 1) : /\ i < k => order'[i] = order[i]
                              /\ i >= k => order'[i] = order[i + 1]
  BY <1>1, <1>2 DEF k
<1>7. /\ n = 1 => order' = <<>>
      /\ n > 1 => order' # <<>>
      /\ Len(order') - 1 = n - 2
      /\ k = n \/ k < n
  <2>1. k = n \/ k < n
    <3>1. \A m \in Nat : \A x \in 1..m : x = m \/ x < m
      OBVIOUS
    <3> QED BY <3>1, <1>1, <1>2
  <2>2. Len(order') - 1 = n - 2
    BY <1>1, <1>3
  <2>3. order' = <<>> <=> n - 1 = 0
    BY <1>1, <1>3, EmptySeq
  <2> QED BY <2>1, <2>2, <2>3, <1>1
<1>4. Members' = Members \ {h}
  <2>1. ASSUME NEW i \in 1..(n - 1) PROVE order'[i] \in Members \ {h}
    <3>1. CASE i < k
      BY <3>1, <1>1, <1>2, <1>3 DEF Shape, NoDuplicates, Members
    <3>2. CASE i >= k
      <4>1. i + 1 \in 1..n /\ i + 1 # k
        BY <3>2, <1>1, <1>2
      <4> QED BY <4>1, <3>2, <1>2, <1>3 DEF Shape, NoDuplicates, Members
    <3> QED BY <3>1, <3>2, <1>2
  <2>2. ASSUME NEW i \in 1..n, i # k PROVE order[i] \in Members'
    <3>1. CASE i < k
      <4>1. i \in 1..(n - 1) /\ order'[i] = order[i]
        BY <3>1, <1>1, <1>2, <1>3
      <4> QED BY <4>1, <1>3 DEF Members
    <3>2. CASE i > k
      <4>1. i - 1 \in 1..(n - 1) /\ order'[i - 1] = order[i]
        BY <3>2, <1>1, <1>2, <1>3
      <4> QED BY <4>1, <1>3 DEF Members
    <3> QED BY <3>1, <3>2, <2>2, <1>2
  <2>3. Members' \subseteq Members \ {h}
    BY <2>1, <1>3 DEF Members
  <2>4. Members \ {h} \subseteq Members'
    BY <2>2, <1>2 DEF Members
  <2> QED BY <2>3, <2>4
<1>5. NoDuplicates'
  <2> SUFFICES ASSUME NEW i \in 1..(n - 1), NEW j \in 1..(n - 1), order'[i] = order'[j]
               PROVE  i = j
    BY <1>3 DEF NoDuplicates
  <2> DEFINE up(x) == IF x < k THEN x ELSE x + 1
  <2>1. /\ up(i) \in 1..n /\ up(j) \in 1..n
        /\ order[up(i)] = order'[i] /\ order[up(j)] = order'[j]
    BY <1>1, <1>2, <1>3
  <2>2. up(i) = up(j)
    BY <2>1 DEF Shape, NoDuplicates
  <2> QED BY <2>2, <1>1, <1>2
<1>6. (ListTypes /\ EmptyListOK /\ EndsOK /\ ChainOK)'
  <2>1. CASE k = 1
    <3>1. first_loader = h /\ first_loader' = next[h] /\ next' = next
      BY <2>1, <1>1, <1>2 DEF Shape, EndsOK, Unlink
    <3>2. \A i \in 1..(n - 1) : order'[i] = order[i + 1]
      BY <2>1, <1>3
    <3>3. CASE n = 1
      <4>1. first_loader' = NoLoader /\ last_loader' = NoLoader /\ order' = <<>>
        <5>1. order # <<>> /\ order[1] = h /\ order[n] = h
          BY <3>3, <2>1, <1>1, <1>2, EmptySeq
        <5>2. last_loader = h /\ next[h] = NoLoader
          BY <5>1 DEF Shape, EndsOK
        <5>3. last_loader' = NoLoader
          BY <5>2, <3>1 DEF Unlink, Predecessor
        <5> QED BY <5>2, <5>3, <3>1, <3>3, <1>7
      <4>2. ListTypes'
        BY <4>1, <3>1, <1>3 DEF ListTypes, Shape
      <4>3. (EmptyListOK /\ EndsOK /\ ChainOK)'
        BY <4>1, <3>3, <1>3 DEF EmptyListOK, EndsOK, ChainOK
      <4> QED BY <4>2, <4>3
    <3>4. CASE n > 1
      <4>1. /\ first_loader' = order[2] /\ last_loader' = order[n]
            /\ next[order[n]] = NoLoader
        <5>1. h # order[n]
          BY <3>4, <2>1, <1>1, <1>2 DEF Shape, NoDuplicates
        <5>2. next[h] = order[2]
          BY <3>4, <2>1, <1>1, <1>2 DEF Shape, ChainOK
        <5> QED BY <5>1, <5>2, <3>1, <3>4, <1>1 DEF Shape, EndsOK, Unlink
      <4>2. /\ order' # <<>> /\ order'[1] = order[2] /\ order'[n - 1] = order[n]
        BY <3>2, <3>4, <1>1, <1>3, <1>7
      <4>3. (ListTypes /\ EmptyListOK /\ EndsOK)'
        BY <4>1, <4>2, <3>1, <1>1, <1>3, <3>4 DEF ListTypes, Shape, EmptyListOK, EndsOK
      <4>4. ChainOK'
        <5>1. \A i \in 1..(n - 2) : /\ order'[i] = order[i + 1]
                                   /\ order'[i + 1] = order[i + 2]
                                   /\ next[order[i + 1]] = order[i + 2]
          BY <3>2, <1>1, <3>4 DEF Shape, ChainOK
        <5> SUFFICES ASSUME NEW i \in 1..(n - 2) PROVE next'[order'[i]] = order'[i + 1]
          BY <1>7 DEF ChainOK
        <5> QED BY <5>1, <3>1
      <4> QED BY <4>3, <4>4
    <3> QED BY <3>3, <3>4, <1>1
  <2>2. CASE k > 1
    <3>1. Predecessor(h) = order[k - 1] /\ first_loader # h
      <4>1. k \in 2..n
        BY <2>2, <1>1, <1>2
      <4>2. first_loader = order[1] /\ order[1] # order[k]
        BY <4>1, <1>1 DEF Shape, EndsOK, NoDuplicates
      <4> QED BY <4>1, <4>2, <1>2, PredecessorInOrder
    <3>2. /\ next' = [next EXCEPT ![order[k - 1]] = next[h]]
          /\ first_loader' = first_loader /\ first_loader = order[1]
          /\ last_loader' = IF last_loader = h THEN order[k - 1] ELSE last_loader
          /\ order[k - 1] \in Nodes /\ k - 1 \in 1..n
      BY <3>1, <2>2, <1>1, <1>2 DEF Unlink, Shape, EndsOK
    <3>3. /\ next'[order[k - 1]] = next[h]
          /\ \A i \in 1..n : i # k - 1 => next'[order[i]] = next[order[i]]
      BY <3>2, <1>1 DEF Shape, ListTypes, NoDuplicates
    <3>4. order' # <<>> /\ order'[1] = order[1]
      <4>1. n > 1 /\ 1 \in 1..(n - 1)
        BY <2>2, <1>1, <1>2
      <4> QED BY <4>1, <2>2, <1>3, <1>7
    <3>5. ListTypes'
      <4>1. next[h] \in Nodes \cup {NoLoader}
        BY <1>1, <1>2 DEF Shape, ListTypes
      <4> QED BY <4>1, <3>2, <1>3 DEF Shape, ListTypes
    <3>6. EndsOK'
      <4>1. CASE k = n
        <5>1. last_loader = h /\ next[h] = NoLoader
          BY <4>1, <1>1, <1>2 DEF Shape, EndsOK
        <5>2. order'[n - 1] = order[k - 1]
          BY <4>1, <2>2, <1>1, <1>2, <1>3
        <5> QED BY <5>1, <5>2, <4>1, <3>2, <3>3, <3>4, <1>3 DEF EndsOK
      <4>2. CASE k < n
        <5>1. last_loader = order[n] /\ order[n] # h /\ next[order[n]] = NoLoader
          BY <4>2, <1>1, <1>2 DEF Shape, EndsOK, NoDuplicates
        <5>2. order'[n - 1] = order[n] /\ n # k - 1
          BY <4>2, <1>1, <1>2, <1>3
        <5> QED BY <5>1, <5>2, <3>2, <3>3, <3>4, <1>1, <1>3 DEF EndsOK
      <4> QED BY <4>1, <4>2, <1>7
    <3>7. ChainOK'
      <4> SUFFICES ASSUME NEW i \in 1..(n - 2) PROVE next'[order'[i]] = order'[i + 1]
        BY <1>7 DEF ChainOK
      <4>1. CASE i < k - 1
        <5>1. order'[i] = order[i] /\ order'[i + 1] = order[i + 1]
          BY <4>1, <1>1, <1>2, <1>3
        <5> QED BY <5>1, <4>1, <3>3, <1>1 DEF Shape, ChainOK
      <4>2. CASE i = k - 1
        <5>1. order'[i] = order[k - 1] /\ order'[i + 1] = order[k + 1] /\ k \in 1..(n - 1)
          BY <4>2, <1>1, <1>2, <1>3
        <5> QED BY <5>1, <3>3, <1>2 DEF Shape, ChainOK
      <4>3. CASE i > k - 1
        <5>1. /\ order'[i] = order[i + 1] /\ order'[i + 1] = order[i + 2]
              /\ i + 1 \in 1..(n - 1) /\ i + 1 # k - 1
          BY <4>3, <1>1, <1>2, <1>3
        <5>2. next[order[i + 1]] = order[i + 1 + 1]
          BY <5>1 DEF Shape, ChainOK
        <5> QED BY <5>1, <5>2, <3>3, <1>1
      <4> QED BY <4>1, <4>2, <4>3, <1>1, <1>2
    <3> QED BY <3>4, <3>5, <3>6, <3>7 DEF EmptyListOK
  <2> QED BY <2>1, <2>2, <1>1, <1>2
<1> QED BY <1>4, <1>5, <1>6 DEF Shape

-----------------------------------------------------------------------------
(* The list invariant is inductive.                                        *)

LEMMA NextBuiltinWaits ==
  ASSUME ListInv, installed < Len(Builtins)
  PROVE  /\ Builtins[installed + 1] \in Waiting
         /\ Builtins[installed + 1] \in Nodes
         /\ {Builtins[k] : k \in (installed + 2)..Len(Builtins)}
              = Waiting \ {Builtins[installed + 1]}
<1>1. Len(Builtins) \in Nat /\ installed \in 0..Len(Builtins)
  BY BuiltinsAssumption DEF ListInv, MembersOK
<1>2. installed + 1 \in (installed + 1)..Len(Builtins) /\ installed + 1 \in 1..Len(Builtins)
  BY <1>1
<1>3. \A k \in (installed + 1)..Len(Builtins) :
        k \in 1..Len(Builtins) /\ (k = installed + 1 \/ k \in (installed + 2)..Len(Builtins))
  BY <1>1
<1>4. \A k \in (installed + 2)..Len(Builtins) :
        k \in (installed + 1)..Len(Builtins) /\ k # installed + 1
  BY <1>1
<1>5. \A k \in (installed + 2)..Len(Builtins) : Builtins[k] # Builtins[installed + 1]
  BY <1>2, <1>3, <1>4, BuiltinsAssumption
<1> QED BY <1>2, <1>3, <1>4, <1>5 DEF Waiting, Nodes, BuiltinSet

LEMMA NobodyWaits ==
  ASSUME ListInv, InitialisedLibrary
  PROVE  Waiting = {} /\ allocated = Members
<1>1. (installed + 1)..Len(Builtins) = {}
  BY BuiltinsAssumption DEF InitialisedLibrary
<1> QED BY <1>1 DEF Waiting, ListInv, MembersOK

LEMMA ListInvInit == Init => ListInv
<1> SUFFICES ASSUME Init PROVE ListInv
  OBVIOUS
<1>1. order = <<>> /\ Len(order) = 0 /\ order \in Seq(Nodes) /\ installed = 0
  BY EmptySeq DEF Init
<1>2. Shape
  BY <1>1 DEF Init, Shape, ListTypes, NoDuplicates, EmptyListOK, EndsOK, ChainOK
<1>3. Members = {} /\ Waiting = BuiltinSet /\ installed \in 0..Len(Builtins)
  BY <1>1, BuiltinsAssumption DEF Members, Waiting, BuiltinSet
<1> QED BY <1>2, <1>3 DEF ListInv, MembersOK, Init

LEMMA ListInvUnchanged ==
  ASSUME ListInv, UNCHANGED <<list, allocated, installed, order>>
  PROVE  ListInv'
<1>1. /\ first_loader' = first_loader /\ last_loader' = last_loader /\ next' = next
      /\ allocated' = allocated /\ installed' = installed /\ order' = order
  BY DEF list
<1>2. Members' = Members /\ Waiting' = Waiting
  BY <1>1 DEF Members, Waiting
<1>3. (ListTypes /\ NoDuplicates)'
  BY <1>1 DEF ListInv, Shape, ListTypes, NoDuplicates
<1>4. (EmptyListOK /\ EndsOK /\ ChainOK)'
  BY <1>1 DEF ListInv, Shape, EmptyListOK, EndsOK, ChainOK
<1> QED BY <1>1, <1>2, <1>3, <1>4 DEF ListInv, Shape, MembersOK

LEMMA ListInvStep == ListInv /\ [Next]_vars => ListInv'
<1> SUFFICES ASSUME ListInv, [Next]_vars PROVE ListInv'
  OBVIOUS
<1>1. CASE add_internal_loaders
  <2> DEFINE l == Builtins[installed + 1]
  <2>1. /\ installed < Len(Builtins) /\ add_loader(l, l \in Preferred)
        /\ installed' = installed + 1 /\ allocated' = allocated
    BY <1>1 DEF add_internal_loaders
  <2>2. l \in Waiting /\ l \in Nodes /\ Waiting' = Waiting \ {l}
    <3>1. installed' + 1 = installed + 2
      BY <2>1, BuiltinsAssumption DEF ListInv, MembersOK
    <3> QED BY <2>1, <3>1, NextBuiltinWaits DEF Waiting
  <2> HIDE DEF l
  <2>3. l \notin Members /\ (l \in Preferred) \in BOOLEAN
    BY <2>2 DEF ListInv, MembersOK
  <2>4. Shape' /\ Members' = Members \cup {l}
    BY <2>1, <2>2, <2>3, AddKeepsShape DEF ListInv
  <2>5. installed' \in 0..Len(Builtins)
    BY <2>1, BuiltinsAssumption DEF ListInv, MembersOK
  <2> QED BY <2>1, <2>2, <2>4, <2>5 DEF ListInv, MembersOK
<1>2. ASSUME NEW l \in Plugins, NEW b \in BOOLEAN, simage_add_loader(l, b) PROVE ListInv'
  <2>1. /\ l \in Nodes /\ l \notin Members /\ l \notin Waiting
        /\ add_loader(l, b) /\ allocated' = allocated \cup {l} /\ installed' = installed
    BY <1>2 DEF simage_add_loader, ListInv, MembersOK, Nodes
  <2>2. Shape' /\ Members' = Members \cup {l} /\ Waiting' = Waiting
    BY <2>1, AddKeepsShape DEF ListInv, Waiting
  <2> QED BY <2>1, <2>2 DEF ListInv, MembersOK
<1>3. ASSUME NEW h \in Plugins, simage_remove_loader(h) PROVE ListInv'
  <2>1. /\ allocated = Members /\ Waiting = {} /\ h \in Members /\ Unlink(h)
        /\ allocated' = allocated \ {h} /\ installed' = installed
        /\ order' = [i \in 1..(Len(order) - 1) |->
                       IF i < PositionOf(h) THEN order[i] ELSE order[i + 1]]
    BY <1>3, NobodyWaits DEF simage_remove_loader, ClientHasControl
  <2>2. Shape' /\ Members' = Members \ {h} /\ Waiting' = Waiting
    BY <2>1, UnlinkKeepsShape DEF ListInv, Waiting
  <2> QED BY <2>1, <2>2 DEF ListInv, MembersOK
<1>4. ASSUME NEW f \in Files, simage_read_image(f) \/ simage_check_supported(f) PROVE ListInv'
  BY <1>4, ListInvUnchanged DEF simage_read_image, simage_check_supported, history
<1>5. CASE CallStep
  BY <1>5, ListInvUnchanged DEF CallStep, TryNext, Recognised, NotRecognised, LoadSucceeds, LoadFails, history
<1>6. CASE UNCHANGED vars
  BY <1>6, ListInvUnchanged DEF vars, history
<1> QED BY <1>1, <1>2, <1>3, <1>4, <1>5, <1>6 DEF Next, CallStep

(* For any set of plugins, any internal loaders and any interleaving of    *)
(* registrations, removals and nested searches, the list is well formed    *)
(* (simage.c, add_loader and simage_remove_loader).                        *)
THEOREM ListInvariant == Spec => []ListInv
<1> QED BY ListInvInit, ListInvStep, PTL DEF Spec

(* The pointers always spell the order the clients asked for.              *)
THEOREM PointersAlwaysMatchOrder == Spec => []PointersMatchOrder
<1>1. ListInv => PointersMatchOrder
  BY DEF ListInv, Shape, MembersOK, Members, PointersMatchOrder, LiveOK
<1> QED BY <1>1, ListInvariant, PTL
-----------------------------------------------------------------------------
(* The calls in progress.                                                  *)

CallInv ==
  /\ stack \in Seq(Frames)
  /\ stack # <<>> => InitialisedLibrary
  /\ CursorLive

OtherTypes ==
  /\ simage_error_msg \in {Cleared, Unsupported} \cup Nodes
  /\ override \subseteq Plugins
  /\ found \in {Unasked} \cup [file : Files, loader : Nodes \cup {NoLoader}]
  /\ lastRead \in {Unasked} \cup
       [how : {"loaded", "failed", "unsupported"}, loader : Nodes \cup {NoLoader}]

IInv == ListInv /\ CallInv /\ OtherTypes

(* A frame pushed by an entry point starts on a listed node, or on none.   *)
LEMMA WalkStartsLive ==
  ASSUME ListInv, InitialisedLibrary, NEW op \in {"read", "check"}, NEW f \in Files
  PROVE  /\ StartOfWalk(op, f) \in Frames
         /\ StartOfWalk(op, f).at # "nomatch" => StartOfWalk(op, f).cursor \in allocated
<1>1. DOMAIN order = 1..Len(order) /\ \A i \in DOMAIN order : order[i] \in Nodes
  BY DEF ListInv, Shape, ListTypes
<1>2. {order[i] : i \in DOMAIN order} \in SUBSET Nodes
  BY <1>1
<1>3. CASE f \in Readable /\ first_loader # NoLoader
  <2>1. order # <<>> /\ 1 \in 1..Len(order)
    BY <1>3, EmptySeq DEF ListInv, Shape, ListTypes, EmptyListOK
  <2>2. first_loader \in allocated /\ first_loader \in Nodes
    BY <2>1, <1>1, NobodyWaits DEF ListInv, Shape, EndsOK, Members
  <2>3. StartOfWalk(op, f) = Frame(op, f, "identify", first_loader)
    BY <1>3 DEF StartOfWalk
  <2> QED BY <1>2, <2>2, <2>3 DEF Frame, Frames
<1>4. CASE ~(f \in Readable /\ first_loader # NoLoader)
  <2>1. StartOfWalk(op, f) = Frame(op, f, "nomatch", NoLoader)
    BY <1>4 DEF StartOfWalk
  <2> QED BY <1>2, <2>1 DEF Frame, Frames
<1> QED BY <1>3, <1>4

(* Following the chain from a listed node leads to a listed node or null.  *)
LEMMA NextIsListed ==
  ASSUME ListInv, NEW n \in Members
  PROVE  next[n] = NoLoader \/ next[n] \in Members
<1>1. PICK i \in 1..Len(order) : n = order[i]
  BY DEF Members
<1>2. CASE i = Len(order)
  BY <1>1, <1>2, EmptySeq DEF ListInv, Shape, EndsOK, ListTypes
<1>3. CASE i # Len(order)
  <2>1. i \in 1..(Len(order) - 1) /\ i + 1 \in 1..Len(order)
    BY <1>3 DEF ListInv, Shape, ListTypes
  <2> QED BY <2>1, <1>1 DEF ListInv, Shape, ChainOK, Members
<1> QED BY <1>2, <1>3

LEMMA PushKeepsCallInv ==
  ASSUME CallInv, InitialisedLibrary, NEW r \in Frames,
         r.at # "nomatch" => r.cursor \in allocated,
         stack' = Append(stack, r), UNCHANGED <<allocated, installed>>
  PROVE  CallInv'
<1>1. /\ stack' \in Seq(Frames) /\ Len(stack') = Len(stack) + 1
      /\ stack'[Len(stack) + 1] = r
      /\ \A i \in 1..Len(stack) : stack'[i] = stack[i]
      /\ Len(stack) \in Nat /\ DOMAIN stack' = 1..(Len(stack) + 1) /\ DOMAIN stack = 1..Len(stack)
  BY DEF CallInv
<1>2. CursorLive'
  BY <1>1 DEF CallInv, CursorLive
<1> QED BY <1>1, <1>2 DEF CallInv, InitialisedLibrary

LEMMA ReturnKeepsCallInv ==
  ASSUME CallInv, stack # <<>>, stack' = Return, UNCHANGED <<allocated, installed>>
  PROVE  CallInv'
<1>1. Len(stack) \in Nat /\ Len(stack) > 0 /\ DOMAIN stack = 1..Len(stack)
  BY EmptySeq DEF CallInv
<1>2. /\ stack' \in Seq(Frames) /\ Len(stack') = Len(stack) - 1
      /\ \A i \in 1..(Len(stack) - 1) : stack'[i] = stack[i]
  BY <1>1, SubSeqProperties DEF CallInv, Return
<1>3. DOMAIN stack' = 1..(Len(stack) - 1)
  BY <1>2
<1>4. CursorLive'
  BY <1>1, <1>2, <1>3 DEF CallInv, CursorLive
<1> QED BY <1>2, <1>4 DEF CallInv, InitialisedLibrary

LEMMA SetTopKeepsCallInv ==
  ASSUME CallInv, stack # <<>>, NEW r \in Frames,
         r.at # "nomatch" /\ ~r.stray => r.cursor \in allocated,
         stack' = SetTop(r), UNCHANGED <<allocated, installed>>
  PROVE  CallInv'
<1>1. Len(stack) \in Nat /\ Len(stack) \in 1..Len(stack) /\ DOMAIN stack = 1..Len(stack)
  BY EmptySeq DEF CallInv
<1>2. /\ stack' \in Seq(Frames) /\ DOMAIN stack' = DOMAIN stack
      /\ \A i \in DOMAIN stack : stack'[i] = IF i = Len(stack) THEN r ELSE stack[i]
  BY <1>1, ExceptSeq DEF CallInv, SetTop
<1>3. CursorLive'
  BY <1>1, <1>2 DEF CallInv, CursorLive
<1> QED BY <1>2, <1>3 DEF CallInv, InitialisedLibrary

LEMMA TopIsFrame ==
  ASSUME IInv, stack # <<>>
  PROVE  /\ Top \in Frames /\ InitialisedLibrary
         /\ Top.at # "nomatch" /\ ~Top.stray => Top.cursor \in Members
<1>1. Len(stack) \in 1..Len(stack) /\ DOMAIN stack = 1..Len(stack) /\ InitialisedLibrary
  BY EmptySeq DEF IInv, CallInv
<1>2. Top \in Frames /\ (Top.at # "nomatch" /\ ~Top.stray => Top.cursor \in allocated)
  BY <1>1 DEF IInv, CallInv, CursorLive, Top
<1> QED BY <1>1, <1>2, NobodyWaits DEF IInv

(* What a step of the call at the top makes of it: everything but its      *)
(* place stays, and a stray call stays stray.                              *)
Continues(r, s) ==
  /\ r.op = s.op /\ r.file = s.file
  /\ r.present = s.present /\ r.stray = s.stray

LEMMA WalkGoesOn ==
  ASSUME IInv, TryNext
  PROVE  \E r \in Frames :
           /\ stack' = SetTop(r) /\ Continues(r, Top)
           /\ r.at = IF r.cursor = NoLoader THEN "nomatch" ELSE "identify"
           /\ ~Top.stray => r.cursor = next[Top.cursor]
<1>1. stack # <<>> /\ Top.at = "identify"
  BY DEF TryNext
<1>2. Top \in Frames /\ (~Top.stray => Top.cursor \in Members)
  BY <1>1, TopIsFrame
<1>3. PICK n \in ReadPointer(next[Top.cursor]) : WalkTo(n)
  BY DEF TryNext
<1>4. n \in Nodes \cup {NoLoader} /\ (~Top.stray => n = next[Top.cursor])
  BY <1>2, <1>3 DEF ReadPointer, IInv, ListInv, Shape, ListTypes, Members
<1>5. CASE n = NoLoader
  <2>1. PICK r : r = [Top EXCEPT !.at = "nomatch", !.cursor = NoLoader]
    OBVIOUS
  <2>2. r \in Frames /\ Continues(r, Top) /\ r.at = "nomatch" /\ r.cursor = n
    BY <1>2, <1>5, <2>1 DEF Frames, Continues
  <2> QED BY <1>3, <1>4, <1>5, <2>1, <2>2 DEF WalkTo
<1>6. CASE n # NoLoader
  <2>1. PICK r : r = [Top EXCEPT !.cursor = n]
    OBVIOUS
  <2>2. r \in Frames /\ Continues(r, Top) /\ r.at = "identify" /\ r.cursor = n
    BY <1>1, <1>2, <1>4, <2>1 DEF Frames, Continues
  <2> QED BY <1>3, <1>4, <1>6, <2>1, <2>2 DEF WalkTo
<1> QED BY <1>5, <1>6

LEMMA ReadGoesOn ==
  ASSUME IInv, Recognised, Top.op = "read"
  PROVE  \E r \in Frames :
           /\ stack' = SetTop(r) /\ Continues(r, Top) /\ r.at = "load"
           /\ ~Top.stray => r.cursor = Top.cursor
<1>1. stack # <<>> /\ Top.at = "identify"
  BY DEF Recognised
<1>2. Top \in Frames
  BY <1>1, TopIsFrame
<1>3. PICK n \in ReadPointer(Top.cursor) \ {NoLoader} :
           stack' = SetTop([Top EXCEPT !.at = "load", !.cursor = n])
  BY DEF Recognised
<1>4. n \in Nodes \cup {NoLoader} /\ (~Top.stray => n = Top.cursor)
  BY <1>2, <1>3 DEF ReadPointer, Frames
<1>5. PICK r : r = [Top EXCEPT !.at = "load", !.cursor = n]
  OBVIOUS
<1>6. r \in Frames /\ Continues(r, Top) /\ r.at = "load" /\ r.cursor = n
  BY <1>2, <1>4, <1>5 DEF Frames, Continues
<1> QED BY <1>3, <1>4, <1>5, <1>6

LEMMA CallInvStep == IInv /\ [Next]_vars => (CallInv /\ OtherTypes)'
<1> SUFFICES ASSUME IInv, [Next]_vars PROVE (CallInv /\ OtherTypes)'
  OBVIOUS
<1>1. CASE add_internal_loaders
  <2>1. stack = <<>> /\ stack' = <<>>
    BY <1>1 DEF add_internal_loaders, IInv, CallInv, InitialisedLibrary
  <2>2. CallInv'
    BY <2>1, EmptySeq DEF CallInv, CursorLive
  <2> QED BY <2>2, <1>1 DEF add_internal_loaders, IInv, OtherTypes
<1>2. ASSUME NEW l \in Plugins, NEW b \in BOOLEAN, simage_add_loader(l, b)
      PROVE  (CallInv /\ OtherTypes)'
  <2>1. stack' = stack /\ installed' = installed /\ allocated' = allocated \cup {l}
    BY <1>2 DEF simage_add_loader
  <2>2. CallInv'
    BY <2>1 DEF IInv, CallInv, CursorLive, InitialisedLibrary
  <2> QED BY <2>2, <1>2 DEF simage_add_loader, IInv, OtherTypes
<1>3. ASSUME NEW h \in Plugins, simage_remove_loader(h) PROVE (CallInv /\ OtherTypes)'
  <2>1. /\ stack' = [i \in DOMAIN stack |->
                      [stack[i] EXCEPT !.present = @ \ {h}, !.stray = @ \/ stack[i].cursor = h]]
        /\ allocated' = allocated \ {h} /\ installed' = installed
        /\ InitialisedLibrary
    BY <1>3 DEF simage_remove_loader, ClientHasControl
  <2>2. DOMAIN stack = 1..Len(stack) /\ Len(stack) \in Nat
    BY DEF IInv, CallInv
  <2>3. ASSUME NEW i \in DOMAIN stack
        PROVE  /\ stack'[i] \in Frames
               /\ stack'[i].at = stack[i].at /\ stack'[i].cursor = stack[i].cursor
               /\ ~stack'[i].stray => ~stack[i].stray /\ stack[i].cursor # h
    <3>1. stack[i] \in Frames
      BY <2>2 DEF IInv, CallInv
    <3>2. stack'[i] = [stack[i] EXCEPT !.present = stack[i].present \ {h},
                                       !.stray = stack[i].stray \/ stack[i].cursor = h]
      BY <2>1
    <3> QED BY <3>1, <3>2 DEF Frames
  <2>4. stack' \in Seq(Frames) /\ DOMAIN stack' = DOMAIN stack
    <3>1. DOMAIN stack' = DOMAIN stack /\ stack' = [i \in DOMAIN stack |-> stack'[i]]
      BY <2>1
    <3>2. stack' \in [1..Len(stack) -> Frames]
      BY <2>2, <2>3, <3>1
    <3> QED BY <2>2, <3>1, <3>2
  <2>5. CursorLive'
    <3>1. SUFFICES ASSUME NEW i \in DOMAIN stack, stack'[i].at # "nomatch", ~stack'[i].stray
                   PROVE  stack'[i].cursor \in allocated \ {h}
      BY <2>1, <2>4 DEF CursorLive
    <3>2. stack[i].at # "nomatch" /\ ~stack[i].stray /\ stack[i].cursor # h
      BY <2>3, <3>1
    <3> QED BY <2>3, <3>2 DEF IInv, CallInv, CursorLive
  <2>6. CallInv'
    BY <2>1, <2>4, <2>5 DEF CallInv, InitialisedLibrary
  <2> QED BY <2>6, <1>3 DEF simage_remove_loader, IInv, OtherTypes
<1>4. ASSUME NEW f \in Files, simage_read_image(f) \/ simage_check_supported(f)
      PROVE  (CallInv /\ OtherTypes)'
  <2>1. CallInv'
    BY <1>4, PushKeepsCallInv, WalkStartsLive
       DEF simage_read_image, simage_check_supported, ClientHasControl, IInv
  <2> QED BY <2>1, <1>4 DEF simage_read_image, simage_check_supported, history, IInv, OtherTypes
<1>5. CASE TryNext
  <2>1. stack # <<>> /\ Top.at = "identify" /\ UNCHANGED <<allocated, installed>>
    BY <1>5 DEF TryNext
  <2>2. PICK r \in Frames :
            /\ stack' = SetTop(r) /\ Continues(r, Top)
            /\ r.at = IF r.cursor = NoLoader THEN "nomatch" ELSE "identify"
            /\ ~Top.stray => r.cursor = next[Top.cursor]
    BY <1>5, WalkGoesOn
  <2>3. r.at # "nomatch" /\ ~r.stray => r.cursor \in allocated
    <3>1. SUFFICES ASSUME r.at # "nomatch", ~r.stray PROVE r.cursor \in allocated
      OBVIOUS
    <3>2. ~Top.stray /\ r.cursor # NoLoader /\ r.cursor = next[Top.cursor]
      BY <2>2, <3>1 DEF Continues
    <3>3. Top.cursor \in Members
      BY <2>1, <3>2, TopIsFrame
    <3> QED BY <2>1, <3>2, <3>3, NextIsListed, NobodyWaits, TopIsFrame DEF IInv
  <2>4. CallInv'
    BY <2>1, <2>2, <2>3, SetTopKeepsCallInv DEF IInv
  <2> QED BY <2>4, <1>5 DEF TryNext, history, IInv, OtherTypes
<1>6. CASE Recognised
  <2>1. stack # <<>> /\ Top.at = "identify" /\ UNCHANGED <<allocated, installed>>
    BY <1>6 DEF Recognised
  <2>2. Top \in Frames /\ (~Top.stray => Top.cursor \in Members) /\ InitialisedLibrary
    BY <2>1, TopIsFrame
  <2>3. CallInv'
    <3>1. CASE Top.op = "read"
      <4>1. PICK r \in Frames :
                /\ stack' = SetTop(r) /\ Continues(r, Top) /\ r.at = "load"
                /\ ~Top.stray => r.cursor = Top.cursor
        BY <1>6, <3>1, ReadGoesOn
      <4>2. ~r.stray => r.cursor \in allocated
        BY <2>2, <4>1, NobodyWaits DEF IInv, Continues
      <4> QED BY <2>1, <4>1, <4>2, SetTopKeepsCallInv DEF IInv
    <3>2. CASE Top.op # "read"
      BY <3>2, <2>1, <1>6, ReturnKeepsCallInv DEF Recognised, IInv
    <3> QED BY <3>1, <3>2
  <2>4. found' \in [file : Files, loader : Nodes \cup {NoLoader}]
    BY <2>2, <1>6 DEF Recognised, FoundLoader, Frames
  <2> QED BY <2>3, <2>4, <1>6 DEF Recognised, IInv, OtherTypes
<1>7. CASE NotRecognised \/ LoadSucceeds \/ LoadFails
  <2>1. stack # <<>> /\ stack' = Return /\ UNCHANGED <<allocated, installed>>
    BY <1>7 DEF NotRecognised, LoadSucceeds, LoadFails
  <2>2. Top \in Frames /\ (Top.at = "load" /\ ~Top.stray => Top.cursor \in Members)
    BY <2>1, TopIsFrame
  <2>3. CallInv'
    BY <2>1, ReturnKeepsCallInv DEF IInv
  <2>4. Members \subseteq Nodes
    BY DEF IInv, ListInv, Shape, ListTypes, Members
  <2>5. OtherTypes'
    <3>1. CASE NotRecognised
      BY <3>1, <2>2 DEF NotRecognised, FoundLoader, Outcome, Frames, IInv, OtherTypes
    <3>2. CASE LoadSucceeds
      BY <3>2, <2>2 DEF LoadSucceeds, Outcome, Frames, IInv, OtherTypes
    <3>3. CASE LoadFails
      <4>1. PICK n \in ReadPointer(Top.cursor) \ {NoLoader} :
                simage_error_msg' = n \/ UNCHANGED simage_error_msg
        BY <3>3 DEF LoadFails
      <4>2. n \in Nodes
        BY <2>2, <4>1 DEF ReadPointer, Frames
      <4>3. lastRead' = [how |-> "failed", loader |-> Top.cursor]
        BY <3>3 DEF LoadFails, Outcome
      <4> QED BY <3>3, <2>2, <4>1, <4>2, <4>3 DEF LoadFails, Frames, IInv, OtherTypes
    <3> QED BY <1>7, <3>1, <3>2, <3>3
  <2> QED BY <2>3, <2>5
<1>8. CASE UNCHANGED vars
  BY <1>8 DEF vars, history, IInv, CallInv, OtherTypes, CursorLive, InitialisedLibrary
<1> QED BY <1>1, <1>2, <1>3, <1>4, <1>5, <1>6, <1>7, <1>8 DEF Next

LEMMA IInvInit == Init => IInv
<1>1. Init => CallInv /\ OtherTypes
  BY EmptySeq DEF Init, CallInv, CursorLive, OtherTypes
<1> QED BY <1>1, ListInvInit DEF IInv

THEOREM Invariant == Spec => []IInv
<1>1. IInv /\ [Next]_vars => IInv'
  BY ListInvStep, CallInvStep DEF IInv
<1> QED BY IInvInit, <1>1, PTL DEF Spec

(* Type correctness of the whole registry.                                 *)
THEOREM TypeCorrect == Spec => []TypeOK
<1>1. IInv => TypeOK
  <2> SUFFICES ASSUME IInv PROVE TypeOK
    OBVIOUS
  <2>1. allocated \subseteq Nodes
    BY DEF IInv, ListInv, Shape, MembersOK, ListTypes, Members, Waiting, Nodes, BuiltinSet
  <2> QED BY <2>1 DEF TypeOK, IInv, ListInv, Shape, ListTypes, MembersOK, CallInv, OtherTypes
<1> QED BY <1>1, Invariant, PTL

(* However the callbacks interleave removals with searches, a search in    *)
(* progress points to a freed node only if the loader it was waiting for   *)
(* has itself been removed (find_loader).                                  *)
THEOREM CursorsStayLive == Spec => []CursorLive
<1>1. IInv => CursorLive
  BY DEF IInv, CallInv
<1> QED BY <1>1, Invariant, PTL

-----------------------------------------------------------------------------
(* Who is asked before whom.                                               *)

Ahead(x, y) == \E a, c \in 1..Len(order) : a < c /\ order[a] = x /\ order[c] = y

LEMMA RankIsPosition ==
  ASSUME Shape, NEW i \in 1..Len(order)
  PROVE  Rank(order[i]) = i
<1>1. DOMAIN order = 1..Len(order)
  BY DEF Shape, ListTypes
<1> DEFINE r == CHOOSE j \in DOMAIN order : order[j] = order[i]
<1>2. r \in DOMAIN order /\ order[r] = order[i]
  BY <1>1
<1>3. r = i
  <2> HIDE DEF r
  <2> QED BY <1>1, <1>2 DEF Shape, NoDuplicates
<1> QED BY <1>3 DEF Rank

LEMMA AheadIsRank ==
  ASSUME Shape, NEW x \in Members, NEW y \in Members
  PROVE  Ahead(x, y) <=> Rank(x) < Rank(y)
<1>1. PICK i \in 1..Len(order) : x = order[i]
  BY DEF Members
<1>2. PICK j \in 1..Len(order) : y = order[j]
  BY DEF Members
<1>3. Rank(x) = i /\ Rank(y) = j
  BY <1>1, <1>2, RankIsPosition
<1> QED BY <1>1, <1>2, <1>3 DEF Ahead, Shape, NoDuplicates

(* Registration changes nothing about those registered before, and one     *)
(* with addbefore puts the new loader ahead of them all.                   *)
LEMMA AddKeepsAhead ==
  ASSUME Shape, NEW l \in Nodes, l \notin Members, NEW b \in BOOLEAN, add_loader(l, b)
  PROVE  /\ \A x, y \in Members : Ahead(x, y)' <=> Ahead(x, y)
         /\ b => \A y \in Members : Ahead(l, y)'
<1>1. PICK n \in Nat : n = Len(order)
  BY DEF Shape, ListTypes
<1>2. \A i \in 1..n : order[i] # l
  BY <1>1 DEF Members
<1>3. CASE b
  <2>1. order' = <<l>> \o order
    BY <1>3 DEF add_loader
  <2>2. Len(order') = n + 1 /\ order'[1] = l /\ \A i \in 2..(n + 1) : order'[i] = order[i - 1]
    BY <1>1, <2>1 DEF Shape, ListTypes
  <2>3. \A i \in 1..n : i + 1 \in 1..(n + 1) /\ order'[i + 1] = order[i]
    BY <2>2
  <2>4. ASSUME NEW x \in Members, NEW y \in Members PROVE Ahead(x, y)' => Ahead(x, y)
    <3> SUFFICES ASSUME NEW a \in 1..(n + 1), NEW c \in 1..(n + 1), a < c, order'[a] = x, order'[c] = y
        PROVE Ahead(x, y)
      BY <2>2 DEF Ahead
    <3>1. a # 1 /\ c # 1
      BY <1>1, <2>2 DEF Members
    <3>2. a - 1 \in 1..n /\ c - 1 \in 1..n /\ a - 1 < c - 1 /\ order[a - 1] = x /\ order[c - 1] = y
      BY <2>2, <3>1
    <3> QED BY <1>1, <3>2 DEF Ahead
  <2>5. ASSUME NEW x \in Members, NEW y \in Members, Ahead(x, y) PROVE Ahead(x, y)'
    <3>1. PICK a, c \in 1..n : a < c /\ order[a] = x /\ order[c] = y
      BY <1>1, <2>5 DEF Ahead
    <3>2. a + 1 < c + 1 /\ order'[a + 1] = x /\ order'[c + 1] = y
      BY <2>3, <3>1
    <3> QED BY <2>2, <2>3, <3>2 DEF Ahead
  <2>6. ASSUME NEW y \in Members PROVE Ahead(l, y)'
    <3>1. PICK c \in 1..n : order[c] = y
      BY <1>1 DEF Members
    <3>2. 1 < c + 1 /\ 1 \in 1..(n + 1) /\ c + 1 \in 1..(n + 1) /\ order'[c + 1] = y
      BY <2>3, <3>1
    <3> QED BY <2>2, <3>2 DEF Ahead
  <2> QED BY <2>4, <2>5, <2>6
<1>4. CASE ~b
  <2>1. order' = Append(order, l)
    BY <1>4 DEF add_loader
  <2>2. Len(order') = n + 1 /\ order'[n + 1] = l /\ \A i \in 1..n : order'[i] = order[i]
    BY <1>1, <2>1 DEF Shape, ListTypes
  <2>3. ASSUME NEW x \in Members, NEW y \in Members PROVE Ahead(x, y)' => Ahead(x, y)
    <3> SUFFICES ASSUME NEW a \in 1..(n + 1), NEW c \in 1..(n + 1), a < c, order'[a] = x, order'[c] = y
        PROVE Ahead(x, y)
      BY <2>2 DEF Ahead
    <3>1. a # n + 1 /\ c # n + 1
      BY <1>1, <2>2 DEF Members
    <3>2. a \in 1..n /\ c \in 1..n
      BY <3>1
    <3> QED BY <1>1, <2>2, <3>2 DEF Ahead
  <2>4. ASSUME NEW x \in Members, NEW y \in Members, Ahead(x, y) PROVE Ahead(x, y)'
    <3>1. PICK a, c \in 1..n : a < c /\ order[a] = x /\ order[c] = y
      BY <1>1, <2>4 DEF Ahead
    <3>2. a \in 1..(n + 1) /\ c \in 1..(n + 1)
      OBVIOUS
    <3> QED BY <2>2, <3>1, <3>2 DEF Ahead
  <2> QED BY <1>4, <2>3, <2>4
<1> QED BY <1>3, <1>4

(* Removal changes nothing about those that stay.                          *)
LEMMA RemovalKeepsAhead ==
  ASSUME Shape, NEW h \in Members,
         order' = [i \in 1..(Len(order) - 1) |->
                     IF i < PositionOf(h) THEN order[i] ELSE order[i + 1]]
  PROVE  \A x, y \in Members \ {h} : Ahead(x, y)' <=> Ahead(x, y)
<1>1. PICK n \in Nat : n = Len(order)
  BY DEF Shape, ListTypes
<1>2. PICK k \in 1..n : order[k] = h
  BY <1>1 DEF Members
<1>3. PositionOf(h) = k
  BY <1>1, <1>2, RankIsPosition DEF PositionOf, Rank
<1>4. /\ Len(order') = n - 1
      /\ \A i \in 1..(n - 1) : order'[i] = IF i < k THEN order[i] ELSE order[i + 1]
  BY <1>1, <1>2, <1>3
<1> DEFINE old == [i \in 1..(n - 1) |-> IF i < k THEN i ELSE i + 1]
           new == [i \in 1..n |-> IF i < k THEN i ELSE i - 1]
<1>5. /\ \A i \in 1..(n - 1) : old[i] \in 1..n
      /\ \A a, c \in 1..(n - 1) : a < c => old[a] < old[c]
      /\ \A i \in 1..(n - 1) : old[i] = IF i < k THEN i ELSE i + 1
  OBVIOUS
<1>6. /\ \A i \in 1..n : i # k => new[i] \in 1..(n - 1)
      /\ \A a, c \in 1..n : a < c /\ a # k /\ c # k => new[a] < new[c]
      /\ \A i \in 1..n : new[i] = IF i < k THEN i ELSE i - 1
  OBVIOUS
<1> HIDE DEF old, new
<1>7. \A i \in 1..(n - 1) : order'[i] = order[old[i]]
  BY <1>4, <1>5
<1>8. \A i \in 1..n : i # k => order'[new[i]] = order[i]
  <2> SUFFICES ASSUME NEW i \in 1..n, i # k PROVE order'[new[i]] = order[i]
    OBVIOUS
  <2>1. new[i] \in 1..(n - 1) /\ new[i] = IF i < k THEN i ELSE i - 1
    BY <1>6
  <2>2. order'[new[i]] = IF new[i] < k THEN order[new[i]] ELSE order[new[i] + 1]
    BY <1>4, <2>1
  <2> QED BY <2>1, <2>2
<1>9. ASSUME NEW x \in Members \ {h}, NEW y \in Members \ {h}, Ahead(x, y)' PROVE Ahead(x, y)
  <2>1. PICK a, c \in 1..(n - 1) : a < c /\ order'[a] = x /\ order'[c] = y
    BY <1>4, <1>9 DEF Ahead
  <2>2. old[a] \in 1..n /\ old[c] \in 1..n /\ old[a] < old[c] /\ order[old[a]] = x /\ order[old[c]] = y
    BY <1>5, <1>7, <2>1
  <2> QED BY <1>1, <2>2 DEF Ahead
<1>10. ASSUME NEW x \in Members \ {h}, NEW y \in Members \ {h}, Ahead(x, y) PROVE Ahead(x, y)'
  <2>1. PICK a, c \in 1..n : a < c /\ order[a] = x /\ order[c] = y
    BY <1>1, <1>10 DEF Ahead
  <2>2. a # k /\ c # k
    BY <1>2, <2>1
  <2>3. new[a] \in 1..(n - 1) /\ new[c] \in 1..(n - 1) /\ new[a] < new[c]
    BY <1>6, <2>1, <2>2
  <2>4. order'[new[a]] = x /\ order'[new[c]] = y
    BY <1>8, <2>1, <2>2
  <2> QED BY <1>4, <2>3, <2>4 DEF Ahead
<1> QED BY <1>9, <1>10

-----------------------------------------------------------------------------
(* The searches in progress: those a walk has passed said no.              *)

WalkOK(s) ==
  /\ s.present \subseteq Members
  /\ s.at # "nomatch" /\ ~s.stray =>
       /\ s.file \in Readable
       /\ \A l \in s.present : Ahead(l, s.cursor) => <<l, s.file>> \notin Recognises
  /\ s.at = "nomatch" /\ s.file \in Readable /\ ~s.stray =>
       \A l \in s.present : <<l, s.file>> \notin Recognises
WalksOK == \A i \in DOMAIN stack : WalkOK(stack[i])

(* Overrides are registered once the internal loaders are, and stay ahead  *)
(* of those.                                                               *)
OverridesOK ==
  /\ override \subseteq Members
  /\ ~InitialisedLibrary => override = {}
  /\ \A k \in 1..installed : Builtins[k] \in Members
  /\ \A l \in override, k \in 1..installed : Ahead(l, Builtins[k])

SearchInv == WalksOK /\ OverridesOK

(* A walk goes on undisturbed by what else happens to the list.            *)
LEMMA WalkStaysOK ==
  ASSUME NEW s, NEW t, WalkOK(s), NEW h,
         t.file = s.file, t.at = s.at, t.cursor = s.cursor,
         t.present \subseteq s.present \ {h},
         ~t.stray => ~s.stray,
         s.at # "nomatch" /\ ~t.stray => s.cursor \in Members \ {h},
         Members \ {h} \subseteq Members',
         \A x, y \in Members \ {h} : Ahead(x, y)' <=> Ahead(x, y)
  PROVE  WalkOK(t)'
<1>1. t.present \subseteq Members' /\ \A l \in t.present : l \in Members \ {h} /\ l \in s.present
  BY DEF WalkOK
<1>2. ASSUME t.at # "nomatch", ~t.stray
      PROVE  t.file \in Readable /\ \A l \in t.present : Ahead(l, t.cursor)' => <<l, t.file>> \notin Recognises
  BY <1>1, <1>2 DEF WalkOK
<1>3. ASSUME t.at = "nomatch", t.file \in Readable, ~t.stray
      PROVE  \A l \in t.present : <<l, t.file>> \notin Recognises
  BY <1>1, <1>3 DEF WalkOK
<1> QED BY <1>1, <1>2, <1>3 DEF WalkOK

LEMMA CursorsListed ==
  ASSUME IInv, NEW i \in DOMAIN stack
  PROVE  /\ stack[i] \in Frames /\ stack # <<>> /\ allocated = Members
         /\ stack[i].at # "nomatch" /\ ~stack[i].stray => stack[i].cursor \in Members
<1>1. stack \in Seq(Frames) /\ stack # <<>>
  BY DEF IInv, CallInv
<1>2. allocated = Members
  BY <1>1, NobodyWaits DEF IInv, CallInv
<1> QED BY <1>1, <1>2 DEF IInv, CallInv, CursorLive

(* Nobody is left out at the start, and the walk begins with the first.    *)
LEMMA WalkStartsOK ==
  ASSUME ListInv, NEW op, NEW f, NEW t, t = StartOfWalk(op, f)
  PROVE  WalkOK(t)
<1>1. order \in Seq(Nodes) /\ DOMAIN order = 1..Len(order) /\ Len(order) \in Nat
  BY DEF ListInv, Shape, ListTypes
<1>2. t.present = Members /\ t.file = f
  BY <1>1 DEF StartOfWalk, Frame, Members
<1>3. CASE f \in Readable /\ first_loader # NoLoader
  <2>1. t.at = "identify" /\ t.cursor = first_loader
    BY <1>3 DEF StartOfWalk, Frame
  <2>2. first_loader = order[1] /\ 1 \in 1..Len(order)
    BY <1>1, <1>3 DEF ListInv, Shape, EmptyListOK, EndsOK
  <2>3. \A l \in Members : ~Ahead(l, first_loader)
    BY <1>1, <2>2 DEF Ahead, ListInv, Shape, NoDuplicates
  <2> QED BY <1>2, <1>3, <2>1, <2>3 DEF WalkOK
<1>4. CASE f \in Readable /\ first_loader = NoLoader
  <2>1. t.at = "nomatch"
    BY <1>4 DEF StartOfWalk, Frame
  <2>2. order = <<>>
    BY <1>1, <1>4, NullAssumption DEF ListInv, Shape, EndsOK
  <2>3. Members = {}
    BY <2>2 DEF Members
  <2> QED BY <1>2, <2>1, <2>3 DEF WalkOK
<1>5. CASE f \notin Readable
  BY <1>2, <1>5 DEF StartOfWalk, Frame, WalkOK
<1> QED BY <1>3, <1>4, <1>5

(* The loader after a listed one has just that one and its predecessors    *)
(* ahead of it, and after the last there is none.                          *)
LEMMA NextIsBehind ==
  ASSUME ListInv, NEW n \in Members
  PROVE  /\ next[n] # NoLoader => \A l \in Members : Ahead(l, next[n]) => l = n \/ Ahead(l, n)
         /\ next[n] = NoLoader => \A l \in Members : l = n \/ Ahead(l, n)
<1>1. PICK i \in 1..Len(order) : n = order[i]
  BY DEF Members
<1>2. PICK m \in Nat : m = Len(order)
  BY DEF ListInv, Shape, ListTypes
<1>3. CASE i = m
  <2>1. next[n] = NoLoader
    BY <1>1, <1>2, <1>3, EmptySeq DEF ListInv, Shape, EndsOK, ListTypes
  <2>2. ASSUME NEW l \in Members PROVE l = n \/ Ahead(l, n)
    <3>1. PICK j \in 1..m : l = order[j]
      BY <1>2 DEF Members
    <3>2. j = i \/ j < i
      BY <1>3
    <3> QED BY <1>1, <1>2, <3>1, <3>2 DEF Ahead
  <2> QED BY <2>1, <2>2
<1>4. CASE i # m
  <2>1. i \in 1..(m - 1) /\ i + 1 \in 1..m
    BY <1>1, <1>2, <1>4
  <2>2. next[n] = order[i + 1] /\ next[n] # NoLoader
    BY <1>1, <1>2, <2>1, NullAssumption DEF ListInv, Shape, ChainOK, ListTypes
  <2>3. ASSUME NEW l \in Members, Ahead(l, next[n]) PROVE l = n \/ Ahead(l, n)
    <3>1. PICK a, c \in 1..m : a < c /\ order[a] = l /\ order[c] = next[n]
      BY <1>2, <2>3 DEF Ahead
    <3>2. c = i + 1
      BY <1>2, <2>1, <2>2, <3>1 DEF ListInv, Shape, NoDuplicates
    <3>3. a = i \/ a < i
      BY <3>1, <3>2
    <3> QED BY <1>1, <1>2, <3>1, <3>3 DEF Ahead
  <2> QED BY <2>2, <2>3
<1> QED BY <1>2, <1>3, <1>4

(* The frames of the stack after a push, a return and a step of the top.   *)
LEMMA PushKeepsWalks ==
  ASSUME IInv, WalksOK, NEW r, WalkOK(r)', stack' = Append(stack, r), UNCHANGED order
  PROVE  WalksOK'
<1>1. PICK n \in Nat : n = Len(stack) /\ DOMAIN stack = 1..n
  BY DEF IInv, CallInv
<1>2. DOMAIN stack' = 1..(n + 1) /\ stack'[n + 1] = r /\ \A i \in 1..n : stack'[i] = stack[i]
  BY <1>1 DEF IInv, CallInv
<1>3. ASSUME NEW i \in 1..n PROVE WalkOK(stack[i])'
  BY <1>1, <1>2 DEF WalksOK, WalkOK, Members, Ahead
<1>4. WalkOK(stack[n + 1])'
  BY <1>2
<1> QED BY <1>1, <1>2, <1>3, <1>4 DEF WalksOK

LEMMA ReturnKeepsWalks ==
  ASSUME IInv, WalksOK, stack # <<>>, stack' = Return, UNCHANGED order
  PROVE  WalksOK'
<1>1. PICK n \in Nat : n = Len(stack) /\ DOMAIN stack = 1..n /\ n > 0
  BY EmptySeq DEF IInv, CallInv
<1>2. DOMAIN stack' = 1..(n - 1) /\ \A i \in 1..(n - 1) : stack'[i] = stack[i]
  BY <1>1, SubSeqProperties DEF IInv, CallInv, Return
<1>3. ASSUME NEW i \in 1..(n - 1) PROVE WalkOK(stack[i])'
  BY <1>1, <1>2, SMTT(20) DEF WalksOK, WalkOK, Members, Ahead
<1> QED BY <1>2, <1>3 DEF WalksOK

LEMMA SetTopKeepsWalks ==
  ASSUME IInv, WalksOK, stack # <<>>, NEW r, WalkOK(r)', stack' = SetTop(r), UNCHANGED order
  PROVE  WalksOK'
<1>1. PICK n \in Nat : n = Len(stack) /\ DOMAIN stack = 1..n
  BY DEF IInv, CallInv
<1>2. DOMAIN stack' = 1..n /\ \A i \in 1..n : stack'[i] = IF i = n THEN r ELSE stack[i]
  BY <1>1 DEF SetTop
<1>3. ASSUME NEW i \in 1..n, i # n PROVE WalkOK(stack[i])'
  BY <1>1, <1>2, <1>3 DEF WalksOK, WalkOK, Members, Ahead
<1>4. ASSUME NEW i \in 1..n, i = n PROVE WalkOK(stack[i])'
  BY <1>2, <1>4
<1> QED BY <1>2, <1>3, <1>4 DEF WalksOK

(* When the list changes: h is who leaves it, or nobody that is in it.     *)
LEMMA ListChangeKeepsWalks ==
  ASSUME IInv, WalksOK, NEW h,
         DOMAIN stack' = DOMAIN stack,
         \A i \in DOMAIN stack :
           /\ stack'[i].file = stack[i].file /\ stack'[i].at = stack[i].at
           /\ stack'[i].cursor = stack[i].cursor
           /\ ~stack'[i].stray => ~stack[i].stray
           /\ stack[i].at # "nomatch" /\ ~stack'[i].stray => stack[i].cursor # h
           /\ stack'[i].present \subseteq stack[i].present \ {h},
         Members \ {h} \subseteq Members',
         \A x, y \in Members \ {h} : Ahead(x, y)' <=> Ahead(x, y)
  PROVE  WalksOK'
<1> SUFFICES ASSUME NEW i \in DOMAIN stack PROVE WalkOK(stack[i])'
  BY DEF WalksOK
<1>1. PICK s : s = stack[i]
  OBVIOUS
<1>2. PICK t : t = stack'[i]
  OBVIOUS
<1>3. WalkOK(s)
  BY <1>1 DEF WalksOK
<1>4. /\ t.file = s.file /\ t.at = s.at /\ t.cursor = s.cursor
      /\ t.present \subseteq s.present \ {h}
      /\ ~t.stray => ~s.stray
      /\ s.at # "nomatch" /\ ~t.stray => s.cursor \in Members \ {h}
  BY <1>1, <1>2, CursorsListed
<1>5. WalkOK(t)'
  BY <1>3, <1>4, WalkStaysOK
<1> QED BY <1>2, <1>5

LEMMA OverridesUnchanged ==
  ASSUME OverridesOK, UNCHANGED <<order, override, installed>>
  PROVE  OverridesOK'
<1>1. Members' = Members /\ (InitialisedLibrary' <=> InitialisedLibrary)
  BY DEF Members, InitialisedLibrary
<1>2. \A l \in override, k \in 1..installed : Ahead(l, Builtins[k])' <=> Ahead(l, Builtins[k])
  BY DEF Ahead
<1> QED BY <1>1, <1>2 DEF OverridesOK

(* One step of the walk at the top.                                        *)
LEMMA TryNextKeepsWalks ==
  ASSUME IInv, WalksOK, TryNext
  PROVE  WalksOK'
<1>1. /\ stack # <<>> /\ Top.at = "identify" /\ order' = order
      /\ <<Top.cursor, Top.file>> \notin Recognises
  BY DEF TryNext, history
<1>2. /\ Len(stack) \in DOMAIN stack /\ Top \in Frames
      /\ ~Top.stray => Top.cursor \in Members
  BY <1>1, TopIsFrame, EmptySeq DEF IInv, CallInv
<1>3. PICK s : s = Top
  OBVIOUS
<1>4. PICK t \in Frames :
          /\ stack' = SetTop(t) /\ Continues(t, s)
          /\ t.at = IF t.cursor = NoLoader THEN "nomatch" ELSE "identify"
          /\ ~s.stray => t.cursor = next[s.cursor]
  BY <1>3, WalkGoesOn
<1>5. WalkOK(s)
  BY <1>2, <1>3 DEF WalksOK, Top
<1>6. CASE s.stray
  <2>1. WalkOK(t)
    BY <1>4, <1>5, <1>6 DEF WalkOK, Continues
  <2>2. WalkOK(t)'
    BY <1>1, <2>1 DEF WalkOK, Members, Ahead
  <2> QED BY <1>1, <1>4, <2>2, SetTopKeepsWalks
<1>7. CASE ~s.stray
  <2>1. /\ s.present \subseteq Members /\ s.file \in Readable /\ s.cursor \in Members
        /\ \A l \in s.present : l = s.cursor \/ Ahead(l, s.cursor) => <<l, s.file>> \notin Recognises
    BY <1>1, <1>2, <1>3, <1>5, <1>7 DEF WalkOK
  <2>2. t.present = s.present /\ t.file = s.file /\ t.cursor = next[s.cursor]
    BY <1>4, <1>7 DEF Continues
  <2>3. ASSUME t.cursor = NoLoader PROVE WalkOK(t)
    BY <1>4, <2>1, <2>2, <2>3, NextIsBehind DEF WalkOK, IInv
  <2>4. ASSUME t.cursor # NoLoader PROVE WalkOK(t)
    BY <1>4, <2>1, <2>2, <2>4, NextIsBehind DEF WalkOK, IInv
  <2>5. WalkOK(t)'
    BY <1>1, <2>3, <2>4 DEF WalkOK, Members, Ahead
  <2> QED BY <1>1, <1>4, <2>5, SetTopKeepsWalks
<1> QED BY <1>6, <1>7

LEMMA SearchInvInit == Init => SearchInv
<1> SUFFICES ASSUME Init PROVE SearchInv
  OBVIOUS
<1>1. DOMAIN stack = {} /\ override = {} /\ 1..installed = {}
  BY EmptySeq DEF Init
<1> QED BY <1>1 DEF SearchInv, WalksOK, OverridesOK

(* An internal loader is added while nothing else has been.                *)
LEMMA add_internal_loadersKeepsSearch ==
  ASSUME IInv, SearchInv, add_internal_loaders
  PROVE  SearchInv'
<1>1. PICK l : l = Builtins[installed + 1]
  OBVIOUS
<1>2. /\ installed < Len(Builtins) /\ add_loader(l, l \in Preferred) /\ installed' = installed + 1
      /\ stack' = stack /\ override' = override
  BY <1>1 DEF add_internal_loaders
<1>3. l \in Nodes /\ l \notin Members /\ installed \in Nat /\ Len(Builtins) \in Nat /\ Shape
  BY <1>1, <1>2, NextBuiltinWaits, BuiltinsAssumption DEF IInv, ListInv, MembersOK
<1>4. stack = <<>> /\ override = {} /\ ~InitialisedLibrary
  BY <1>2, <1>3 DEF IInv, CallInv, SearchInv, OverridesOK, InitialisedLibrary
<1>5. Members' = Members \cup {l}
  <2>1. (l \in Preferred) \in BOOLEAN
    OBVIOUS
  <2> QED BY <1>2, <1>3, <2>1, AddKeepsShape
<1>6. \A k \in 1..installed' : Builtins[k] \in Members'
  BY <1>1, <1>2, <1>3, <1>5 DEF SearchInv, OverridesOK
<1>7. DOMAIN stack' = {}
  BY <1>2, <1>4
<1> QED BY <1>2, <1>4, <1>6, <1>7 DEF SearchInv, WalksOK, OverridesOK

LEMMA simage_add_loaderKeepsSearch ==
  ASSUME IInv, SearchInv, NEW l \in Plugins, NEW b \in BOOLEAN, simage_add_loader(l, b)
  PROVE  SearchInv'
<1>1. /\ InitialisedLibrary /\ l \notin allocated /\ add_loader(l, b)
      /\ override' = IF b THEN override \cup {l} ELSE override
      /\ installed' = installed /\ stack' = stack
  BY DEF simage_add_loader, ClientHasControl
<1>2. allocated = Members /\ l \in Nodes /\ l \notin Members /\ Shape
  BY <1>1, NobodyWaits DEF IInv, ListInv, Nodes
<1>3. Members' = Members \cup {l}
  BY <1>1, <1>2, AddKeepsShape
<1>4. /\ \A x, y \in Members : Ahead(x, y)' <=> Ahead(x, y)
      /\ b => \A y \in Members : Ahead(l, y)'
  BY <1>1, <1>2, AddKeepsAhead
<1>5. ASSUME NEW i \in DOMAIN stack
      PROVE  /\ stack'[i] = stack[i] /\ stack'[i].present \subseteq stack[i].present \ {l}
             /\ stack[i].at # "nomatch" /\ ~stack[i].stray => stack[i].cursor # l
  <2>1. WalkOK(stack[i]) /\ stack'[i] = stack[i]
    BY <1>1 DEF SearchInv, WalksOK
  <2> QED BY <1>2, <2>1, CursorsListed DEF WalkOK
<1>6. WalksOK'
  BY <1>1, <1>2, <1>3, <1>4, <1>5, ListChangeKeepsWalks DEF SearchInv
<1>7. OverridesOK'
  BY <1>1, <1>2, <1>3, <1>4 DEF SearchInv, OverridesOK, InitialisedLibrary
<1> QED BY <1>6, <1>7 DEF SearchInv

LEMMA simage_remove_loaderKeepsSearch ==
  ASSUME IInv, SearchInv, NEW h \in Plugins, simage_remove_loader(h)
  PROVE  SearchInv'
<1>1. /\ InitialisedLibrary /\ h \in allocated /\ Unlink(h)
      /\ order' = [i \in 1..(Len(order) - 1) |->
                     IF i < PositionOf(h) THEN order[i] ELSE order[i + 1]]
      /\ stack' = [i \in DOMAIN stack |->
                      [stack[i] EXCEPT !.present = @ \ {h}, !.stray = @ \/ stack[i].cursor = h]]
      /\ override' = override \ {h} /\ installed' = installed
  BY DEF simage_remove_loader, ClientHasControl
<1>2. allocated = Members /\ h \in Members /\ Shape
  BY <1>1, NobodyWaits DEF IInv, ListInv
<1>3. Members' = Members \ {h}
  BY <1>1, <1>2, UnlinkKeepsShape
<1>4. \A x, y \in Members \ {h} : Ahead(x, y)' <=> Ahead(x, y)
  BY <1>1, <1>2, RemovalKeepsAhead
<1>5. ASSUME NEW i \in DOMAIN stack
      PROVE  /\ stack'[i].file = stack[i].file /\ stack'[i].at = stack[i].at
             /\ stack'[i].cursor = stack[i].cursor
             /\ stack'[i].present \subseteq stack[i].present \ {h}
             /\ ~stack'[i].stray => ~stack[i].stray /\ stack[i].cursor # h
  <2>1. stack[i] \in Frames
    BY CursorsListed
  <2>2. stack'[i] = [stack[i] EXCEPT !.present = stack[i].present \ {h},
                                     !.stray = stack[i].stray \/ stack[i].cursor = h]
    BY <1>1
  <2> QED BY <2>1, <2>2 DEF Frames
<1>6. WalksOK'
  BY <1>1, <1>3, <1>4, <1>5, ListChangeKeepsWalks DEF SearchInv
<1>7. \A k \in 1..installed : Builtins[k] \in Members /\ Builtins[k] # h
  BY BuiltinsAssumption DEF SearchInv, OverridesOK, IInv, ListInv, MembersOK, BuiltinSet
<1>8. OverridesOK'
  BY <1>1, <1>3, <1>4, <1>7 DEF SearchInv, OverridesOK, InitialisedLibrary
<1> QED BY <1>6, <1>8 DEF SearchInv

LEMMA SearchInvStep == IInv /\ SearchInv /\ [Next]_vars => SearchInv'
<1> SUFFICES ASSUME IInv, SearchInv, [Next]_vars PROVE SearchInv'
  OBVIOUS
<1>1. ASSUME NEW f \in Files, simage_read_image(f) \/ simage_check_supported(f)
      PROVE  SearchInv'
  <2>1. PICK op \in {"read", "check"} : stack' = Append(stack, StartOfWalk(op, f))
    BY <1>1 DEF simage_read_image, simage_check_supported
  <2>2. order' = order /\ override' = override /\ installed' = installed
    BY <1>1 DEF simage_read_image, simage_check_supported, history
  <2>3. PICK t : t = StartOfWalk(op, f)
    OBVIOUS
  <2>4. WalkOK(t)
    BY <2>3, WalkStartsOK DEF IInv
  <2>5. WalkOK(t)'
    BY <2>2, <2>4 DEF WalkOK, Members, Ahead
  <2> QED BY <2>1, <2>2, <2>3, <2>5, PushKeepsWalks, OverridesUnchanged DEF SearchInv
<1>2. CASE TryNext
  BY <1>2, TryNextKeepsWalks, OverridesUnchanged DEF SearchInv, TryNext, history
<1>3. CASE Recognised
  <2>1. stack # <<>> /\ Top.at = "identify" /\ UNCHANGED <<order, override, installed>>
    BY <1>3 DEF Recognised
  <2>2. CASE stack' = Return
    BY <2>1, <2>2, ReturnKeepsWalks, OverridesUnchanged DEF SearchInv
  <2>3. CASE Top.op = "read"
    <3>1. PICK s : s = Top
      OBVIOUS
    <3>2. s \in Frames /\ Len(stack) \in DOMAIN stack
      BY <2>1, <3>1, TopIsFrame, EmptySeq DEF IInv, CallInv
    <3>3. WalkOK(s)
      BY <3>1, <3>2 DEF SearchInv, WalksOK, Top
    <3>4. PICK t \in Frames :
              /\ stack' = SetTop(t) /\ Continues(t, s) /\ t.at = "load"
              /\ ~s.stray => t.cursor = s.cursor
      BY <1>3, <2>3, <3>1, ReadGoesOn
    <3>5. WalkOK(t)
      BY <2>1, <3>1, <3>3, <3>4 DEF WalkOK, Continues
    <3>6. WalkOK(t)'
      BY <2>1, <3>5 DEF WalkOK, Members, Ahead
    <3> QED BY <2>1, <3>4, <3>6, SetTopKeepsWalks, OverridesUnchanged DEF SearchInv
  <2> QED BY <1>3, <2>2, <2>3 DEF Recognised
<1>4. CASE NotRecognised \/ LoadSucceeds \/ LoadFails
  BY <1>4, ReturnKeepsWalks, OverridesUnchanged DEF SearchInv, NotRecognised, LoadSucceeds, LoadFails
<1>5. CASE UNCHANGED vars
  <2>1. UNCHANGED <<order, override, installed, stack>>
    BY <1>5 DEF vars, history
  <2>2. WalksOK'
    BY <2>1 DEF SearchInv, WalksOK, WalkOK, Members, Ahead
  <2> QED BY <2>1, <2>2, OverridesUnchanged DEF SearchInv
<1> QED BY <1>1, <1>2, <1>3, <1>4, <1>5, add_internal_loadersKeepsSearch,
     simage_add_loaderKeepsSearch, simage_remove_loaderKeepsSearch DEF Next

THEOREM SearchInvariant == Spec => [](IInv /\ SearchInv)
<1>1. IInv /\ [Next]_vars => IInv'
  BY ListInvStep, CallInvStep DEF IInv
<1> QED BY IInvInit, SearchInvInit, SearchInvStep, <1>1, PTL DEF Spec

(* Whatever callbacks add and remove in the middle of a search, no loader  *)
(* that was there all along and recognises the file is passed over.        *)
THEOREM NobodyIsEverPassedOver == Spec => []NobodyPassedOver
<1>1. IInv /\ SearchInv => NobodyPassedOver
  <2> SUFFICES ASSUME IInv, SearchInv, NEW i \in DOMAIN stack, stack[i].file \in Readable, ~stack[i].stray,
                      NEW l \in stack[i].present,
                      stack[i].at = "nomatch" \/ Rank(l) < Rank(stack[i].cursor)
      PROVE  <<l, stack[i].file>> \notin Recognises
    BY DEF NobodyPassedOver, PassedOver
  <2>1. PICK s : s = stack[i]
    OBVIOUS
  <2>2. WalkOK(s) /\ ~s.stray /\ (s.at # "nomatch" => s.cursor \in Members) /\ Shape
    BY <2>1, CursorsListed DEF SearchInv, WalksOK, IInv, ListInv
  <2>3. CASE s.at = "nomatch"
    BY <2>1, <2>2, <2>3 DEF WalkOK
  <2>4. CASE s.at # "nomatch"
    BY <2>1, <2>2, <2>4, AheadIsRank DEF WalkOK
  <2> QED BY <2>3, <2>4
<1> QED BY <1>1, SearchInvariant, PTL

(* A plugin added with addbefore is asked before every internal loader.    *)
THEOREM OverridesAlwaysComeFirst == Spec => []OverridesComeFirst
<1>1. IInv /\ SearchInv => OverridesComeFirst
  BY AheadIsRank DEF IInv, ListInv, SearchInv, OverridesOK, OverridesComeFirst
<1> QED BY <1>1, SearchInvariant, PTL

-----------------------------------------------------------------------------
(* Callbacks that keep to themselves: one call at a time.                  *)

MessageFits ==
  lastRead # Unasked =>
    CASE lastRead.how = "loaded"      -> simage_error_msg = Cleared
      [] lastRead.how = "unsupported" -> simage_error_msg = Unsupported
      [] lastRead.how = "failed"      ->
           \/ simage_error_msg = lastRead.loader
           \/ lastRead.loader \in Silent /\ simage_error_msg = Cleared

(* A read clears the text before anything else, a check leaves it alone.   *)
OneCall ==
  /\ Len(stack) <= 1
  /\ stack = <<>> => MessageFits
  /\ stack # <<>> =>
       /\ Top.op = "read" => simage_error_msg = Cleared
       /\ Top.op = "check" => MessageFits /\ Top.at # "load"
       /\ Top.present = Members
       /\ ~Top.stray

LEMMA ClientsWait ==
  ASSUME Callbackers = {}, ClientHasControl
  PROVE  stack = <<>>
BY DEF ClientHasControl

LEMMA OneFrame ==
  ASSUME IInv, OneCall, stack # <<>>
  PROVE  Len(stack) = 1 /\ stack \in Seq(Frames) /\ DOMAIN stack = 1..1
<1>1. stack \in Seq(Frames) /\ Len(stack) <= 1
  BY DEF IInv, CallInv, OneCall
<1>2. PICK n \in Nat : n = Len(stack)
  BY <1>1
<1>3. n <= 1 /\ n # 0
  BY <1>1, <1>2, EmptySeq
<1>4. Len(stack) = 1
  BY <1>2, <1>3
<1> QED BY <1>1, <1>4

LEMMA ReturnToNothing ==
  ASSUME IInv, OneCall, stack # <<>>, stack' = Return
  PROVE  stack' = <<>> /\ Len(stack') = 0
<1>1. Len(stack) = 1 /\ stack \in Seq(Frames)
  BY OneFrame
<1>2. Return \in Seq(Frames) /\ Len(Return) = 0
  BY <1>1, SubSeqProperties DEF Return
<1> QED BY <1>2, EmptySeq

LEMMA TopIsSet ==
  ASSUME IInv, OneCall, stack # <<>>, NEW r, stack' = SetTop(r)
  PROVE  stack' # <<>> /\ Len(stack') = 1 /\ Top' = r
<1>1. Len(stack) = 1 /\ stack \in Seq(Frames) /\ DOMAIN stack = 1..1
  BY OneFrame
<1>2. DOMAIN stack' = 1..1 /\ stack'[1] = r
  BY <1>1 DEF SetTop
<1>3. Len(stack') = 1
  BY <1>1 DEF SetTop
<1> QED BY <1>2, <1>3, EmptySeq DEF Top

LEMMA OneCallStep ==
  ASSUME Callbackers = {}, IInv, OneCall, [Next]_vars
  PROVE  OneCall'
<1>1. CASE add_internal_loaders
  <2>1. stack = <<>> /\ UNCHANGED <<stack, simage_error_msg, lastRead>>
    BY <1>1 DEF add_internal_loaders, IInv, CallInv, InitialisedLibrary
  <2> QED BY <2>1 DEF OneCall, MessageFits
<1>2. ASSUME NEW l \in Plugins, NEW b \in BOOLEAN, simage_add_loader(l, b) PROVE OneCall'
  <2>1. stack = <<>> /\ UNCHANGED <<stack, simage_error_msg, lastRead>>
    BY <1>2, ClientsWait DEF simage_add_loader
  <2> QED BY <2>1 DEF OneCall, MessageFits
<1>3. ASSUME NEW h \in Plugins, simage_remove_loader(h) PROVE OneCall'
  <2>1. stack = <<>> /\ UNCHANGED <<simage_error_msg, lastRead>>
    BY <1>3, ClientsWait DEF simage_remove_loader
  <2>2. DOMAIN stack = {} /\ DOMAIN stack' = {}
    BY <1>3, <2>1 DEF simage_remove_loader
  <2>3. stack' = <<>>
    BY <1>3, <2>1, <2>2 DEF simage_remove_loader
  <2> QED BY <2>1, <2>3 DEF OneCall, MessageFits
<1>4. ASSUME NEW f \in Files, NEW op \in {"read", "check"},
             stack = <<>>, stack' = Append(stack, StartOfWalk(op, f)), UNCHANGED <<order, lastRead>>,
             op = "read" => simage_error_msg' = Cleared,
             op = "check" => simage_error_msg' = simage_error_msg
      PROVE  OneCall'
  <2>1. PICK t : t = StartOfWalk(op, f)
    OBVIOUS
  <2>2. t.op = op /\ t.at # "load" /\ t.present = Members /\ ~t.stray
    BY <2>1 DEF StartOfWalk, Frame, IInv, ListInv, Shape, ListTypes, Members
  <2>3. stack' = <<t>>
    BY <1>4, <2>1
  <2>4. Len(stack') = 1 /\ Top' = t /\ stack' # <<>>
    BY <2>3 DEF Top
  <2>5. Members' = Members
    BY <1>4 DEF Members
  <2>6. op = "check" => MessageFits'
    BY <1>4 DEF OneCall, MessageFits
  <2> QED BY <1>4, <2>2, <2>4, <2>5, <2>6 DEF OneCall
<1>5. CASE TryNext
  <2>1. /\ stack # <<>> /\ Top.at = "identify" /\ UNCHANGED <<order, lastRead, simage_error_msg>>
    BY <1>5 DEF TryNext, history
  <2>2. PICK r \in Frames :
            /\ stack' = SetTop(r) /\ Continues(r, Top)
            /\ r.at = IF r.cursor = NoLoader THEN "nomatch" ELSE "identify"
    BY <1>5, WalkGoesOn
  <2>4. r.op = Top.op /\ r.at # "load" /\ r.present = Top.present /\ r.stray = Top.stray
    BY <2>2 DEF Continues
  <2>5. stack' # <<>> /\ Len(stack') = 1 /\ Top' = r /\ Members' = Members
    BY <2>1, <2>2, TopIsSet DEF Members
  <2>6. MessageFits' <=> MessageFits
    BY <2>1 DEF MessageFits
  <2>7. Len(stack') <= 1
    BY <2>5
  <2>8. Top.op = "read" => simage_error_msg = Cleared
    BY <2>1 DEF OneCall
  <2>9. (Top.op = "check" => MessageFits) /\ Top.present = Members /\ ~Top.stray
    BY <2>1 DEF OneCall
  <2>10. Top'.op = "read" => simage_error_msg' = Cleared
    BY <2>1, <2>4, <2>5, <2>8
  <2>11. /\ Top'.op = "check" => MessageFits' /\ Top'.at # "load"
         /\ Top'.present = Members' /\ ~Top'.stray
    BY <2>4, <2>5, <2>6, <2>9
  <2> QED BY <2>5, <2>7, <2>10, <2>11 DEF OneCall
<1>6. CASE Recognised
  <2>1. stack # <<>> /\ Top.at = "identify" /\ UNCHANGED <<order, lastRead, simage_error_msg>>
    BY <1>6 DEF Recognised
  <2>2. Top \in Frames
    BY <2>1, TopIsFrame
  <2>3. CASE Top.op = "read"
    <3>1. PICK r \in Frames : stack' = SetTop(r) /\ Continues(r, Top)
      BY <1>6, <2>3, ReadGoesOn
    <3>2. r.op = "read" /\ r.present = Top.present /\ r.stray = Top.stray /\ stack' = SetTop(r)
      BY <2>3, <3>1 DEF Continues
    <3>3. stack' # <<>> /\ Len(stack') = 1 /\ Top' = r /\ Members' = Members
      BY <2>1, <3>2, TopIsSet DEF Members
    <3> QED BY <2>1, <2>3, <3>2, <3>3 DEF OneCall
  <2>4. CASE Top.op = "check"
    <3>1. stack' = <<>> /\ Len(stack') = 0
      BY <1>6, <2>1, <2>4, ReturnToNothing DEF Recognised
    <3>2. MessageFits' <=> MessageFits
      BY <2>1 DEF MessageFits
    <3> QED BY <2>1, <2>4, <3>1, <3>2 DEF OneCall
  <2> QED BY <2>2, <2>3, <2>4 DEF Frames
<1>7. CASE NotRecognised \/ LoadSucceeds \/ LoadFails
  <2>1. stack # <<>> /\ stack' = Return
    BY <1>7 DEF NotRecognised, LoadSucceeds, LoadFails
  <2>2. stack' = <<>> /\ Len(stack') = 0 /\ Top \in Frames
    BY <2>1, ReturnToNothing, TopIsFrame
  <2>3. MessageFits'
    <3>1. CASE NotRecognised /\ Top.op = "read"
      <4>1. simage_error_msg' = Unsupported /\ lastRead'.how = "unsupported"
        BY <3>1 DEF NotRecognised, Outcome
      <4> QED BY <4>1 DEF MessageFits
    <3>2. CASE NotRecognised /\ Top.op = "check"
      <4>1. MessageFits' <=> MessageFits
        BY <3>2 DEF NotRecognised, MessageFits
      <4> QED BY <2>1, <3>2, <4>1 DEF OneCall
    <3>3. CASE LoadSucceeds
      <4>1. Top.op = "read"
        BY <2>1, <2>2, <3>3 DEF LoadSucceeds, OneCall, Frames
      <4>2. simage_error_msg' = Cleared /\ lastRead'.how = "loaded"
        BY <2>1, <3>3, <4>1 DEF LoadSucceeds, Outcome, OneCall
      <4> QED BY <4>2 DEF MessageFits
    <3>4. CASE LoadFails
      <4>1. Top.op = "read"
        BY <2>1, <2>2, <3>4 DEF LoadFails, OneCall, Frames
      <4>2. /\ lastRead'.how = "failed" /\ lastRead'.loader = Top.cursor
            /\ simage_error_msg' = Top.cursor \/ (Top.cursor \in Silent /\ simage_error_msg' = Cleared)
        <5>1. simage_error_msg = Cleared
          BY <2>1, <4>1 DEF OneCall
        <5>2. lastRead' = [how |-> "failed", loader |-> Top.cursor]
          BY <3>4 DEF LoadFails, Outcome
        <5>3. simage_error_msg' = Top.cursor \/ (Top.cursor \in Silent /\ simage_error_msg' = simage_error_msg)
          BY <2>1, <3>4 DEF LoadFails, ReadPointer, OneCall
        <5> QED BY <5>1, <5>2, <5>3
      <4> QED BY <4>2 DEF MessageFits
    <3> QED BY <1>7, <2>2, <3>1, <3>2, <3>3, <3>4 DEF Frames
  <2> QED BY <2>2, <2>3 DEF OneCall
<1>8. CASE UNCHANGED vars
  BY <1>8 DEF vars, history, OneCall, MessageFits, Top, Members
<1>9. ASSUME NEW f \in Files, simage_read_image(f) PROVE OneCall'
  BY <1>4, <1>9, ClientsWait DEF simage_read_image, history
<1>10. ASSUME NEW f \in Files, simage_check_supported(f) PROVE OneCall'
  BY <1>4, <1>10, ClientsWait DEF simage_check_supported, history
<1> QED BY <1>1, <1>2, <1>3, <1>5, <1>6, <1>7, <1>8, <1>9, <1>10 DEF Next

LEMMA OneCallInit == Init => OneCall
BY EmptySeq DEF Init, OneCall, MessageFits

THEOREM OneCallInvariant ==
  ASSUME Callbackers = {} PROVE Spec => []OneCall
<1>1. IInv /\ OneCall /\ [Next]_vars => OneCall'
  BY OneCallStep
<1> QED BY <1>1, OneCallInit, Invariant, PTL DEF Spec

(* With callbacks that keep to themselves, the error text is that of the   *)
(* last simage_read_image(), whatever was checked, added or removed since. *)
THEOREM MessageIsOfLastRead ==
  ASSUME Callbackers = {} PROVE Spec => []MessageOfLastRead
<1>1. OneCall => MessageOfLastRead
  BY DEF OneCall, MessageFits, MessageOfLastRead
<1> QED BY <1>1, OneCallInvariant, PTL

-----------------------------------------------------------------------------
(* The registry as its clients see it.                                     *)

(* A set of naturals that is not empty has a least element.                *)
LEMMA SmallestIndex ==
  ASSUME NEW T \in SUBSET Nat, T # {}
  PROVE  \E x \in T : \A y \in T : x <= y
<1> DEFINE R == OpToRel(<, Nat)
<1>1. \A x, y \in Nat : <<y, x>> \in R <=> y < x
  BY DEF OpToRel
<1>2. IsWellFoundedOn(R, Nat)
  BY NatLessThanWellFounded
<1> HIDE DEF R
<1>3. PICK x \in T : \A y \in T : ~(<<y, x>> \in R)
  BY <1>2, WFMin
<1>4. ASSUME NEW y \in T PROVE x <= y
  <2>1. x \in Nat /\ y \in Nat /\ ~(y < x)
    BY <1>1, <1>3
  <2> QED BY <2>1
<1> QED BY <1>4

(* The pointers lead through the list, to its end and no further.          *)
LEMMA WalkSpellsOrder ==
  ASSUME ListInv
  PROVE  \A i \in Nat \ {0} : Walk[i] = IF i <= Len(order) THEN order[i] ELSE NoLoader
<1>1. PICK n \in Nat : n = Len(order)
  BY DEF ListInv, Shape, ListTypes
<1> DEFINE spelled == [i \in Nat |-> IF i = 0 THEN first_loader
                                     ELSE IF i <= n THEN order[i] ELSE NoLoader]
           After(w, i) == IF w[i - 1] = NoLoader THEN NoLoader ELSE next[w[i - 1]]
<1>2. spelled = [i \in Nat |-> IF i <= 1 THEN first_loader
                               ELSE IF spelled[i - 1] = NoLoader THEN NoLoader ELSE next[spelled[i - 1]]]
  <2> SUFFICES ASSUME NEW i \in Nat
      PROVE spelled[i] = IF i <= 1 THEN first_loader
                         ELSE IF spelled[i - 1] = NoLoader THEN NoLoader ELSE next[spelled[i - 1]]
    OBVIOUS
  <2>1. CASE i <= 1
    <3>1. n = 0 => first_loader = NoLoader
      BY <1>1, EmptySeq DEF ListInv, Shape, ListTypes, EmptyListOK
    <3>2. n > 0 => first_loader = order[1]
      BY <1>1, EmptySeq DEF ListInv, Shape, ListTypes, EndsOK
    <3> QED BY <2>1, <3>1, <3>2
  <2>2. CASE i > 1 /\ i - 1 < n
    <3>1. i - 1 \in 1..(n - 1) /\ i - 1 \in 1..n /\ (i - 1) + 1 = i
      BY <2>2
    <3>2. next[order[i - 1]] = order[i] /\ order[i - 1] \in Nodes
      BY <1>1, <3>1 DEF ListInv, Shape, ListTypes, ChainOK
    <3> QED BY <2>2, <3>1, <3>2, NullAssumption
  <2>3. CASE i > 1 /\ i - 1 = n
    <3>1. next[order[n]] = NoLoader /\ order[n] \in Nodes
      BY <1>1, <2>3, EmptySeq DEF ListInv, Shape, ListTypes, EndsOK
    <3> QED BY <2>3, <3>1, NullAssumption
  <2>4. CASE i > 1 /\ i - 1 > n
    <3>1. spelled[i - 1] = NoLoader /\ spelled[i] = NoLoader
      BY <2>4
    <3> QED BY <2>4, <3>1
  <2> QED BY <2>1, <2>2, <2>3, <2>4
<1>3. \A i \in Nat \ {0} : spelled[i] = IF i <= n THEN order[i] ELSE NoLoader
  OBVIOUS
<1>4. spelled[0] = first_loader
  OBVIOUS
<1> HIDE DEF spelled
<1>5. Walk = [i \in Nat |-> IF i <= 1 THEN first_loader
                            ELSE IF Walk[i - 1] = NoLoader THEN NoLoader ELSE next[Walk[i - 1]]]
  BY <1>2 DEF Walk
<1>6. \A i \in Nat : Walk[i] = IF i <= 1 THEN first_loader
                               ELSE IF Walk[i - 1] = NoLoader THEN NoLoader ELSE next[Walk[i - 1]]
  BY <1>5
<1>7. \A i \in Nat : spelled[i] = IF i <= 1 THEN first_loader
                                  ELSE IF spelled[i - 1] = NoLoader THEN NoLoader ELSE next[spelled[i - 1]]
  BY <1>2
<1>8. \A i \in Nat : Walk[i] = spelled[i]
  <2> DEFINE T == {i \in Nat : Walk[i] # spelled[i]}
  <2> SUFFICES ASSUME T # {} PROVE FALSE
    OBVIOUS
  <2>1. PICK m \in T : \A k \in T : m <= k
    BY SmallestIndex
  <2>2. m \in Nat /\ Walk[m] # spelled[m]
    OBVIOUS
  <2>3. ~(m <= 1)
    BY <1>6, <1>7, <2>2
  <2>4. m - 1 \in Nat /\ m - 1 \notin T
    BY <2>1, <2>2, <2>3
  <2>5. Walk[m - 1] = spelled[m - 1]
    BY <2>4
  <2> QED BY <1>6, <1>7, <2>2, <2>3, <2>5
<1> QED BY <1>1, <1>3, <1>8

(* What the abstraction reads off the pointers is what clients registered. *)
LEMMA ListIsOrder == ListInv => ListAsSequence = order
<1> SUFFICES ASSUME ListInv PROVE ListAsSequence = order
  OBVIOUS
<1>1. PICK n \in Nat : n = Len(order) /\ DOMAIN order = 1..n /\ order \in [1..n -> Nodes]
  BY DEF ListInv, Shape, ListTypes
<1>2. n <= Cardinality(Nodes)
  <2>1. order \in Injection(1..n, Nodes)
    BY <1>1 DEF ListInv, Shape, NoDuplicates, Injection, IsInjective
  <2>2. Cardinality(1..n) <= Cardinality(Nodes)
    BY <2>1, FS_Injection, MemoryAssumption
  <2>3. Cardinality(1..n) = n
    BY FS_Interval
  <2> QED BY <2>2, <2>3
<1>3. PICK m \in Nat : m = Cardinality(Nodes)
  BY FS_CardinalityType, MemoryAssumption
<1>4. \A i \in 1..(m + 1) : Walk[i] = IF i <= n THEN order[i] ELSE NoLoader
  BY <1>1, WalkSpellsOrder
<1>5. \A i \in 1..n : order[i] # NoLoader
  BY <1>1, NullAssumption
<1>6. Reached = 1..n
  BY <1>2, <1>3, <1>4, <1>5 DEF Reached
<1>7. \A i \in 1..n : Walk[i] = order[i]
  BY <1>2, <1>3, <1>4
<1> QED BY <1>1, <1>6, <1>7 DEF ListAsSequence

LEMMA FirstMatchIsFound ==
  ASSUME ListInv, NEW f \in Readable, NEW l \in Members, <<l, f>> \in Recognises,
         \A k \in Members : Ahead(k, l) => <<k, f>> \notin Recognises
  PROVE  Registry!FirstMatch(f) = l
<1>1. PICK n \in Nat : n = Len(order) /\ DOMAIN order = 1..n
  BY DEF ListInv, Shape, ListTypes
<1>2. PICK c \in 1..n : order[c] = l
  BY <1>1 DEF Members
<1> DEFINE M == {i \in 1..n : <<order[i], f>> \in Recognises}
<1>3. Registry!Matches(f) = M
  BY <1>1, ListIsOrder DEF Registry!Matches
<1>4. c \in M /\ \A j \in M : c <= j
  <2>1. ASSUME NEW j \in 1..n, j < c PROVE j \notin M
    <3>1. order[j] \in Members /\ Ahead(order[j], l)
      BY <1>1, <1>2, <2>1 DEF Members, Ahead
    <3> QED BY <3>1
  <2> QED BY <1>2, <2>1
<1>5. \A i \in M : (\A j \in M : i <= j) => i = c
  BY <1>4
<1> HIDE DEF M
<1>6. (CHOOSE i \in M : \A j \in M : i <= j) = c
  BY <1>4, <1>5
<1>7. Registry!FirstMatch(f) = order[CHOOSE i \in M : \A j \in M : i <= j]
  BY <1>3, <1>4, ListIsOrder DEF Registry!FirstMatch
<1> QED BY <1>2, <1>6, <1>7

LEMMA NoMatchIsNull ==
  ASSUME ListInv, NEW f, f \in Readable => \A k \in Members : <<k, f>> \notin Recognises
  PROVE  Registry!FirstMatch(f) = NoLoader
<1>1. DOMAIN order = 1..Len(order)
  BY DEF ListInv, Shape, ListTypes
<1>2. Registry!Matches(f) = {}
  BY <1>1, ListIsOrder DEF Registry!Matches, Members
<1> QED BY <1>2 DEF Registry!FirstMatch

LEMMA RegistryStep ==
  ASSUME Callbackers = {}, IInv, SearchInv, OneCall, [Next]_vars, IInv'
  PROVE  [Registry!Next]_(Registry!vars)
<1>1. ListAsSequence = order
  BY ListIsOrder DEF IInv
<1>2. ListAsSequence' = order'
  <2>1. (ListInv => ListAsSequence = order)'
    BY ListIsOrder, PTL
  <2> QED BY <2>1 DEF IInv
<1>3. Registry!Registered = Members
  BY <1>1 DEF Registry!Registered, Members, IInv, ListInv, Shape, ListTypes
<1>4. ASSUME NEW l \in Nodes, l \notin Members, NEW b \in BOOLEAN, add_loader(l, b), found' = found
      PROVE  Registry!Next
  <2>1. CASE b
    BY <1>1, <1>2, <1>3, <1>4, <2>1 DEF add_loader, Registry!Next, Registry!Prepend
  <2>2. CASE ~b
    BY <1>1, <1>2, <1>3, <1>4, <2>2 DEF add_loader, Registry!Next, Registry!Enlist
  <2> QED BY <2>1, <2>2
<1>5. ASSUME UNCHANGED <<order, found>> PROVE UNCHANGED Registry!vars
  BY <1>1, <1>2, <1>5 DEF Registry!vars
<1>6. CASE add_internal_loaders
  <2>1. PICK l : l = Builtins[installed + 1]
    OBVIOUS
  <2>2. installed < Len(Builtins) /\ add_loader(l, l \in Preferred) /\ found' = found
    BY <1>6, <2>1 DEF add_internal_loaders
  <2>3. l \in Nodes /\ l \notin Members /\ (l \in Preferred) \in BOOLEAN
    BY <2>1, <2>2, NextBuiltinWaits DEF IInv, ListInv, MembersOK
  <2> QED BY <1>4, <2>2, <2>3
<1>7. ASSUME NEW l \in Plugins, NEW b \in BOOLEAN, simage_add_loader(l, b) PROVE Registry!Next
  <2>1. add_loader(l, b) /\ found' = found /\ l \in Nodes /\ l \notin Members
    BY <1>7, NobodyWaits DEF simage_add_loader, ClientHasControl, Nodes, IInv
  <2> QED BY <1>4, <2>1
<1>8. ASSUME NEW h \in Plugins, simage_remove_loader(h) PROVE Registry!Next
  <2>1. /\ h \in Members /\ h \in Nodes /\ found' = found
        /\ order' = [i \in 1..(Len(order) - 1) |->
                       IF i < PositionOf(h) THEN order[i] ELSE order[i + 1]]
    BY <1>8, NobodyWaits DEF simage_remove_loader, ClientHasControl, IInv, Nodes
  <2>2. PICK k \in 1..Len(order) : order[k] = h
    BY <2>1 DEF Members
  <2>3. PositionOf(h) = k /\ k \in DOMAIN order
    BY <2>2, RankIsPosition DEF PositionOf, Rank, IInv, ListInv, Shape, ListTypes
  <2>4. Registry!Drop(h)
    BY <1>1, <1>2, <1>3, <2>1, <2>2, <2>3 DEF Registry!Drop
  <2> QED BY <2>1, <2>4 DEF Registry!Next
<1>9. CASE Recognised \/ NotRecognised
  <2>1. /\ stack # <<>> /\ order' = order /\ Top.present = Members /\ ~Top.stray
        /\ Len(stack) \in DOMAIN stack
    <3>1. stack # <<>> /\ order' = order
      BY <1>9 DEF Recognised, NotRecognised
    <3> QED BY <3>1, EmptySeq DEF OneCall, IInv, CallInv
  <2>2. Top \in Frames /\ WalkOK(Top) /\ (Top.at # "nomatch" => Top.cursor \in Members)
    BY <2>1, TopIsFrame DEF SearchInv, WalksOK, Top
  <2>3. found' = [file |-> Top.file, loader |-> Registry!FirstMatch(Top.file)]
    <3>1. CASE Recognised
      <4>1. Top.at = "identify" /\ <<Top.cursor, Top.file>> \in Recognises
        BY <3>1 DEF Recognised
      <4>2. Registry!FirstMatch(Top.file) = Top.cursor
        BY <2>1, <2>2, <4>1, FirstMatchIsFound DEF WalkOK, IInv
      <4> QED BY <3>1, <4>2 DEF Recognised, FoundLoader
    <3>2. CASE NotRecognised
      <4>1. Registry!FirstMatch(Top.file) = NoLoader
        BY <2>1, <2>2, <3>2, NoMatchIsNull DEF WalkOK, IInv, NotRecognised
      <4> QED BY <3>2, <4>1 DEF NotRecognised, FoundLoader
    <3> QED BY <1>9, <3>1, <3>2
  <2>4. Registry!Find(Top.file) /\ Top.file \in Files
    BY <1>1, <1>2, <2>1, <2>2, <2>3 DEF Registry!Find, Frames
  <2> QED BY <2>4 DEF Registry!Next
<1>10. ASSUME NEW f \in Files, simage_read_image(f) \/ simage_check_supported(f)
       PROVE  UNCHANGED Registry!vars
  BY <1>5, <1>10 DEF simage_read_image, simage_check_supported, history
<1>11. CASE TryNext \/ LoadSucceeds \/ LoadFails \/ UNCHANGED vars
  BY <1>5, <1>11 DEF TryNext, LoadSucceeds, LoadFails, vars, history
<1> QED BY <1>6, <1>7, <1>8, <1>9, <1>10, <1>11 DEF Next

(* The linked list of simage.c implements the ordered registry: whatever   *)
(* is added, removed, read and checked, what the pointers lead through is  *)
(* the sequence of registrations and find_loader() answers with its first  *)
(* loader that recognises the file.                                        *)
THEOREM ListImplementsRegistry ==
  ASSUME Callbackers = {} PROVE Spec => ImplementsRegistry
<1>1. Init => Registry!Init
  <2> SUFFICES ASSUME Init PROVE Registry!Init
    OBVIOUS
  <2>1. ListAsSequence = order
    BY ListInvInit, ListIsOrder
  <2> QED BY <2>1 DEF Init, Registry!Init
<1>2. IInv /\ SearchInv /\ OneCall /\ IInv' /\ [Next]_vars => [Registry!Next]_(Registry!vars)
  BY RegistryStep
<1> QED BY <1>1, <1>2, SearchInvariant, OneCallInvariant, PTL DEF Spec, ImplementsRegistry, Registry!Spec
=============================================================================
