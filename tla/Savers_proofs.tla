---------------------------- MODULE Savers_proofs ----------------------------
(***************************************************************************)
(* Proofs about the saver registry (Savers), for any savers, extensions    *)
(* and depth of nested saves: memory is freed exactly when a saver leaves  *)
(* the list, overrides are found, a check predicts the save, counting and  *)
(* asking agree, and the error text is that of the last save.              *)
(*                                                                         *)
(* find_saver() takes the first saver that matches, and that there is a    *)
(* first one needs that a set of indices has a least element, which the    *)
(* well-foundedness of the naturals gives (SmallestIndex).                 *)
(***************************************************************************)
EXTENDS Savers, WellFoundedInduction, TLAPS

(* Nothing has been registered before add_internal_savers() ran.           *)
NothingYet ==
  first => savers = <<>> /\ heap = {} /\ override = {} /\ checked = {} /\ counted = Never

MemoryFollows == freedStatic = {} /\ heap = ToSet(savers) \ ToSet(Static)

(* No internal saver is in front of one that was added with addbefore.     *)
OverridesAhead ==
  \A j \in DOMAIN savers : savers[j] \in override => \A i \in 1 .. j : savers[i] \in Plugins
OverridesListed == override \subseteq ToSet(savers)

ListInv == ListOK /\ MemoryFollows /\ OverridesAhead /\ OverridesListed

CountIsLength == counted # Never => counted = Len(savers)
HandleIsOfIndex ==
  handle # Never =>
    handle.saver = IF handle.idx < Len(savers) THEN savers[handle.idx + 1] ELSE NoSaver
CheckedAreFound == \A e \in checked : find_saver(savers, e) # NoSaver

(* Only savers that call the library have saves nested in theirs, and the  *)
(* others run with the text that simage_save_image() has cleared.          *)
SavesNest == \A i \in 1 .. Len(saving) - 1 : saving[i].saver \in Callbackers
TextIsCleared ==
  saving # <<>> /\ Last(saving).saver \notin Callbackers => simage_error_msg = Cleared

Inv ==
  /\ ListInv /\ NothingYet
  /\ CallsOK
  /\ CountIsLength /\ HandleIsOfIndex /\ CheckedAreFound
  /\ SavesNest /\ TextIsCleared /\ TextOfLastSave

-----------------------------------------------------------------------------
(* Operators.                                                              *)

(* A set of naturals that is not empty has a least element.                *)
LEMMA SmallestIndex ==
  ASSUME NEW T \in SUBSET Nat, T # {}
  PROVE  \E x \in T : \A y \in T : x <= y
<1> DEFINE R == OpToRel(<, Nat)
<1>1. \A x, y \in Nat : <<y, x>> \in R <=> y < x
  BY DEF OpToRel
<1>2. IsWellFoundedOn(R, Nat)
  BY NatLessThanWellFounded
<1> HIDE DEF R
<1>3. PICK x \in T : \A y \in T : ~(<<y, x>> \in R)
  BY <1>2, WFMin
<1>4. ASSUME NEW y \in T PROVE x <= y
  <2>1. x \in Nat /\ y \in Nat /\ ~(y < x)
    BY <1>1, <1>3
  <2> QED BY <2>1
<1> QED BY <1>4

(* find_saver() gives null just when no saver matches, and otherwise a     *)
(* matching one with none before it.                                       *)
LEMMA FindSaverFinds ==
  ASSUME NEW list \in Seq(Savers), NEW e \in Extensions
  PROVE  /\ (\A i \in DOMAIN list : ~Matches(list[i], e)) => find_saver(list, e) = NoSaver
         /\ \A i \in DOMAIN list : Matches(list[i], e) =>
              /\ find_saver(list, e) \in Savers
              /\ \E k \in 1 .. i : find_saver(list, e) = list[k]
<1> DEFINE foremost == {i \in DOMAIN list :
             Matches(list[i], e) /\ \A j \in 1 .. i-1 : ~Matches(list[j], e)}
<1>1. find_saver(list, e) = IF foremost = {} THEN NoSaver ELSE list[CHOOSE i \in foremost : TRUE]
  BY DEF find_saver
<1>2. ASSUME NEW i \in DOMAIN list, Matches(list[i], e)
      PROVE  find_saver(list, e) \in Savers /\ \E k \in 1 .. i : find_saver(list, e) = list[k]
  <2> DEFINE T == {k \in DOMAIN list : Matches(list[k], e)}
  <2>1. T \in SUBSET Nat /\ i \in T
    BY <1>2
  <2>2. PICK m \in T : \A k \in T : m <= k
    BY <2>1, SmallestIndex
  <2>3. m \in foremost
    <3>1. m \in DOMAIN list /\ Matches(list[m], e)
      OBVIOUS
    <3>2. ASSUME NEW j \in 1 .. m-1 PROVE ~Matches(list[j], e)
      <4>1. j \in DOMAIN list /\ ~(m <= j)
        BY <3>1
      <4> QED BY <2>2, <4>1
    <3> QED BY <3>1, <3>2
  <2>4. PICK k \in foremost : k = CHOOSE x \in foremost : TRUE
    BY <2>3
  <2>5. k <= i /\ k \in DOMAIN list
    <3>1. k \in DOMAIN list /\ \A j \in 1 .. k-1 : ~Matches(list[j], e)
      OBVIOUS
    <3>2. ~(i \in 1 .. k-1)
      BY <1>2, <3>1
    <3> QED BY <3>1, <3>2
  <2>6. find_saver(list, e) = list[k]
    BY <1>1, <2>3, <2>4
  <2> QED BY <2>5, <2>6
<1>3. ASSUME \A i \in DOMAIN list : ~Matches(list[i], e)
      PROVE  find_saver(list, e) = NoSaver
  BY <1>1, <1>3
<1> QED BY <1>2, <1>3

(* Two sequences put together, entry by entry.                             *)
LEMMA Concatenation ==
  ASSUME NEW S, NEW s \in Seq(S), NEW t \in Seq(S)
  PROVE  /\ s \o t \in Seq(S) /\ Len(s \o t) = Len(s) + Len(t)
         /\ Len(s) \in Nat /\ Len(t) \in Nat
         /\ DOMAIN s = 1 .. Len(s) /\ DOMAIN t = 1 .. Len(t)
         /\ DOMAIN (s \o t) = 1 .. Len(s) + Len(t)
         /\ \A k \in 1 .. Len(s) : (s \o t)[k] = s[k]
         /\ \A k \in Len(s) + 1 .. Len(s) + Len(t) : (s \o t)[k] = t[k - Len(s)]
<1>1. s \o t \in Seq(S) /\ Len(s \o t) = Len(s) + Len(t) /\ Len(s) \in Nat /\ Len(t) \in Nat
  OBVIOUS
<1>2. DOMAIN s = 1 .. Len(s) /\ DOMAIN t = 1 .. Len(t) /\ DOMAIN (s \o t) = 1 .. Len(s) + Len(t)
  BY <1>1
<1>3. \A k \in 1 .. Len(s) : (s \o t)[k] = s[k]
  BY <1>1
<1>4. \A k \in Len(s) + 1 .. Len(s) + Len(t) : (s \o t)[k] = t[k - Len(s)]
  BY <1>1
<1> QED BY <1>1, <1>2, <1>3, <1>4

(* What is left when the last entry is taken off.                          *)
LEMMA FrontDropsLast ==
  ASSUME NEW S, NEW s \in Seq(S), s # <<>>
  PROVE  /\ Front(s) \in Seq(S) /\ Len(Front(s)) = Len(s) - 1
         /\ \A k \in 1 .. Len(s) - 1 : Front(s)[k] = s[k]
<1> DEFINE n == Len(s) - 1
<1>1. n \in Nat
  OBVIOUS
<1> HIDE DEF n
<1>2. \A k \in 1 .. n : s[k] \in S
  BY <1>1 DEF n
<1>3. Front(s) = SubSeq(s, 1, n)
  BY DEF Front, n
<1>4. /\ SubSeq(s, 1, n) \in Seq(S) /\ Len(SubSeq(s, 1, n)) = n
      /\ \A k \in 1 .. n : SubSeq(s, 1, n)[k] = s[k]
  BY <1>1, <1>2
<1> QED BY <1>3, <1>4 DEF n

(* What is left when the entry at i is taken out of a sequence.            *)
LEMMA RemoveAtShifts ==
  ASSUME NEW S, NEW s \in Seq(S), NEW i \in DOMAIN s
  PROVE  /\ RemoveAt(s, i) \in Seq(S) /\ Len(RemoveAt(s, i)) = Len(s) - 1
         /\ \A k \in 1 .. Len(s) - 1 : RemoveAt(s, i)[k] = IF k < i THEN s[k] ELSE s[k + 1]
<1> DEFINE front == SubSeq(s, 1, i - 1)
           back == SubSeq(s, i + 1, Len(s))
<1>1. i \in 1 .. Len(s) /\ Len(s) \in Nat
  OBVIOUS
<1>2. front \in Seq(S) /\ Len(front) = i - 1 /\ \A k \in 1 .. i - 1 : front[k] = s[k]
  BY <1>1
<1>3. back \in Seq(S) /\ Len(back) = Len(s) - i /\ \A k \in 1 .. Len(s) - i : back[k] = s[k + i]
  BY <1>1
<1> HIDE DEF front, back
<1>4. RemoveAt(s, i) = front \o back
  BY DEF RemoveAt, front, back
<1>5. /\ front \o back \in Seq(S) /\ Len(front \o back) = Len(s) - 1
      /\ \A k \in 1 .. i - 1 : (front \o back)[k] = front[k]
      /\ \A k \in i .. Len(s) - 1 : (front \o back)[k] = back[k - (i - 1)]
  <2>1. Len(front) + Len(back) = Len(s) - 1 /\ Len(front) + 1 = i
    BY <1>1, <1>2, <1>3
  <2>2. /\ front \o back \in Seq(S) /\ Len(front \o back) = Len(front) + Len(back)
        /\ \A k \in 1 .. Len(front) : (front \o back)[k] = front[k]
        /\ \A k \in Len(front) + 1 .. Len(front) + Len(back) : (front \o back)[k] = back[k - Len(front)]
    BY <1>2, <1>3, Concatenation, SMTT(20)
  <2> QED BY <1>2, <2>1, <2>2
<1>6. ASSUME NEW k \in 1 .. Len(s) - 1
      PROVE  (front \o back)[k] = IF k < i THEN s[k] ELSE s[k + 1]
  <2>1. CASE k < i
    BY <1>1, <1>2, <1>5, <2>1
  <2>2. CASE ~(k < i)
    <3>1. (front \o back)[k] = back[k - (i - 1)]
      <4>1. k \in i .. Len(s) - 1
        BY <1>1, <2>2
      <4> QED BY <1>5, <4>1
    <3>2. k - (i - 1) \in 1 .. Len(s) - i /\ k - (i - 1) + i = k + 1
      BY <1>1, <2>2
    <3> QED BY <1>3, <2>2, <3>1, <3>2
  <2> QED BY <2>1, <2>2
<1> QED BY <1>4, <1>5, <1>6

(* Taking an entry out of a list without duplicates takes its saver out.   *)
LEMMA RemovalRemovesOne ==
  ASSUME NEW S, NEW s \in Seq(S), IsInjective(s), NEW i \in DOMAIN s
  PROVE  IsInjective(RemoveAt(s, i)) /\ ToSet(RemoveAt(s, i)) = ToSet(s) \ {s[i]}
<1> DEFINE r == RemoveAt(s, i)
<1>1. r \in Seq(S) /\ Len(r) = Len(s) - 1
      /\ \A k \in 1 .. Len(s) - 1 : r[k] = IF k < i THEN s[k] ELSE s[k + 1]
  BY RemoveAtShifts
<1> HIDE DEF r
<1>2. i \in 1 .. Len(s) /\ Len(s) \in Nat /\ \A a, b \in 1 .. Len(s) : s[a] = s[b] => a = b
  BY DEF IsInjective
<1>3. DOMAIN r = 1 .. Len(s) - 1
  BY <1>1, <1>2
<1>4. IsInjective(r)
  <2> SUFFICES ASSUME NEW a \in 1 .. Len(s) - 1, NEW b \in 1 .. Len(s) - 1, r[a] = r[b]
      PROVE  a = b
    BY <1>3 DEF IsInjective
  <2> DEFINE p(k) == IF k < i THEN k ELSE k + 1
  <2>1. p(a) \in 1 .. Len(s) /\ p(b) \in 1 .. Len(s) /\ (p(a) = p(b) => a = b)
    BY <1>2
  <2>2. r[a] = s[p(a)] /\ r[b] = s[p(b)]
    BY <1>1
  <2> QED BY <1>2, <2>1, <2>2
<1>5. ASSUME NEW k \in DOMAIN r PROVE r[k] \in ToSet(s) \ {s[i]}
  <2> DEFINE p == IF k < i THEN k ELSE k + 1
  <2>1. p \in 1 .. Len(s) /\ p # i /\ r[k] = s[p]
    BY <1>1, <1>2, <1>3
  <2> QED BY <1>2, <2>1 DEF ToSet
<1>6. ASSUME NEW k \in DOMAIN s, s[k] # s[i] PROVE s[k] \in ToSet(r)
  <2>1. CASE k < i
    <3>1. k \in DOMAIN r /\ r[k] = s[k]
      BY <1>1, <1>2, <1>3, <2>1
    <3> QED BY <3>1 DEF ToSet
  <2>2. CASE ~(k < i)
    <3>1. k - 1 \in DOMAIN r /\ r[k - 1] = s[k]
      BY <1>1, <1>2, <1>3, <1>6, <2>2
    <3> QED BY <3>1 DEF ToSet
  <2> QED BY <2>1, <2>2
<1> QED BY <1>4, <1>5, <1>6 DEF ToSet, r

(* The members of two sequences put together.                              *)
LEMMA MembersOfConcatenation ==
  ASSUME NEW S, NEW s \in Seq(S), NEW t \in Seq(S)
  PROVE  ToSet(s \o t) = ToSet(s) \cup ToSet(t)
<1>1. s \o t \in Seq(S) /\ Len(s \o t) = Len(s) + Len(t) /\ Len(s) \in Nat /\ Len(t) \in Nat
  OBVIOUS
<1>2. ASSUME NEW k \in DOMAIN (s \o t) PROVE (s \o t)[k] \in ToSet(s) \cup ToSet(t)
  <2>1. CASE k <= Len(s)
    BY <1>1, <2>1 DEF ToSet
  <2>2. CASE k > Len(s)
    <3>1. k - Len(s) \in DOMAIN t /\ (s \o t)[k] = t[k - Len(s)]
      BY <1>1, <2>2
    <3> QED BY <3>1 DEF ToSet
  <2> QED BY <1>1, <2>1, <2>2
<1>3. ASSUME NEW k \in DOMAIN s PROVE s[k] \in ToSet(s \o t)
  <2>1. k \in DOMAIN (s \o t) /\ (s \o t)[k] = s[k]
    BY <1>1
  <2> QED BY <2>1 DEF ToSet
<1>4. ASSUME NEW k \in DOMAIN t PROVE t[k] \in ToSet(s \o t)
  <2>1. k + Len(s) \in DOMAIN (s \o t) /\ (s \o t)[k + Len(s)] = t[k]
    BY <1>1
  <2> QED BY <2>1 DEF ToSet
<1> QED BY <1>2, <1>3, <1>4 DEF ToSet

(* What add_internal_savers() finds when it runs for the first time: the   *)
(* internal savers, each once.                                             *)
LEMMA InternalsOnce ==
  /\ Before \in Seq(Internal) /\ After \in Seq(Internal)
  /\ ToSet(Before \o After) = Internal
  /\ IsInjective(Before \o After)
<1> DEFINE sb == Static \o Behind
           all == sb \o InFront
           ba == Before \o sb
<1>1. Static \in Seq(Internal) /\ Behind \in Seq(Internal) /\ InFront \in Seq(Internal)
  BY SaversAssumption
<1>2. IsInjective(all)
  BY SaversAssumption
<1>3. PICK f \in Nat : f = Len(InFront)
  BY <1>1
<1>4. After = sb /\ sb \in Seq(Internal)
  BY <1>1 DEF After
<1>5. PICK n \in Nat : n = Len(sb)
  BY <1>4
<1>6. /\ Before \in Seq(Internal) /\ Len(Before) = f
      /\ DOMAIN Before = 1 .. f /\ DOMAIN InFront = 1 .. f
      /\ \A i \in 1 .. f : Before[i] = InFront[f - i + 1]
  BY <1>1, <1>3 DEF Before, Reverse
<1> HIDE DEF sb
<1>7. /\ DOMAIN all = 1 .. n + f
      /\ \A i \in 1 .. n : all[i] = sb[i]
      /\ \A i \in n + 1 .. n + f : all[i] = InFront[i - n]
  BY <1>1, <1>3, <1>4, <1>5, Concatenation
<1>8. /\ ba \in Seq(Internal) /\ DOMAIN ba = 1 .. f + n
      /\ \A i \in 1 .. f : ba[i] = Before[i]
      /\ \A i \in f + 1 .. f + n : ba[i] = sb[i - f]
  <2>1. /\ ba \in Seq(Internal) /\ DOMAIN ba = 1 .. Len(Before) + Len(sb)
        /\ \A i \in 1 .. Len(Before) : ba[i] = Before[i]
        /\ \A i \in Len(Before) + 1 .. Len(Before) + Len(sb) : ba[i] = sb[i - Len(Before)]
    <3>1. Before \in Seq(Internal) /\ sb \in Seq(Internal)
      BY <1>4, <1>6
    <3> QED BY <3>1, Concatenation
  <2> QED BY <1>5, <1>6, <2>1
<1> HIDE DEF all, ba
<1>9. IsInjective(ba)
  <2>1. \A i, j \in 1 .. n + f : all[i] = all[j] => i = j
    BY <1>2, <1>7 DEF IsInjective
  <2> SUFFICES ASSUME NEW i \in 1 .. f + n, NEW j \in 1 .. f + n, ba[i] = ba[j]
      PROVE  i = j
    BY <1>8 DEF IsInjective
  <2> DEFINE p(k) == IF k <= f THEN n + f - k + 1 ELSE k - f
  <2>2. ASSUME NEW k \in 1 .. f + n PROVE p(k) \in 1 .. n + f /\ ba[k] = all[p(k)]
    <3>1. CASE k <= f
      <4>1. /\ k \in 1 .. f /\ f - k + 1 \in 1 .. f /\ p(k) = n + f - k + 1
            /\ p(k) \in n + 1 .. n + f /\ p(k) - n = f - k + 1
        BY <3>1
      <4> HIDE DEF p
      <4> QED BY <1>6, <1>7, <1>8, <4>1
    <3>2. CASE k > f
      <4>1. k \in f + 1 .. f + n /\ k - f \in 1 .. n /\ p(k) = k - f
        BY <3>2
      <4> HIDE DEF p
      <4> QED BY <1>7, <1>8, <4>1
    <3> QED BY <3>1, <3>2
  <2>3. p(i) = p(j)
    <3> HIDE DEF p
    <3> QED BY <2>1, <2>2
  <2> QED BY <2>3
<1>10. ToSet(ba) = Internal
  <2>1. ToSet(ba) = ToSet(Before) \cup ToSet(After)
    BY <1>4, <1>6, MembersOfConcatenation DEF ba
  <2>2. ToSet(After) = ToSet(Static) \cup ToSet(Behind)
    BY <1>1, MembersOfConcatenation DEF After
  <2>3. ToSet(Before) = ToSet(InFront)
    <3>1. ASSUME NEW i \in 1 .. f PROVE InFront[i] \in ToSet(Before)
      <4>1. f - i + 1 \in DOMAIN Before /\ Before[f - i + 1] = InFront[i]
        <5>1. f - i + 1 \in 1 .. f /\ f - (f - i + 1) + 1 = i
          OBVIOUS
        <5> QED BY <1>6, <5>1
      <4> QED BY <4>1 DEF ToSet
    <3>2. ASSUME NEW i \in 1 .. f PROVE Before[i] \in ToSet(InFront)
      <4>1. f - i + 1 \in DOMAIN InFront /\ Before[i] = InFront[f - i + 1]
        BY <1>6
      <4> QED BY <4>1 DEF ToSet
    <3> QED BY <1>6, <3>1, <3>2 DEF ToSet
  <2> QED BY <2>1, <2>2, <2>3 DEF Internal, Allocated
<1> QED BY <1>4, <1>6, <1>9, <1>10 DEF ba

-----------------------------------------------------------------------------
(* The list.                                                               *)

LEMMA InvInit == Init => Inv
<1> SUFFICES ASSUME Init PROVE Inv
  OBVIOUS
<1>1. ListInv
  BY DEF Init, ListInv, ListOK, MemoryFollows, OverridesAhead, OverridesListed, IsInjective, ToSet
<1>2. CallsOK
  BY DepthAssumption DEF Init, CallsOK
<1> QED BY <1>1, <1>2 DEF Init, Inv, NothingYet, CountIsLength, HandleIsOfIndex, CheckedAreFound,
     SavesNest, TextIsCleared, TextOfLastSave

(* The list and the memory after add_internal_savers().                    *)
LEMMA WithInternalsIsList ==
  ASSUME ListInv, NothingYet
  PROVE  /\ WithInternals \in Seq(Savers) /\ IsInjective(WithInternals)
         /\ (IF first THEN heap \cup Allocated ELSE heap) = ToSet(WithInternals) \ ToSet(Static)
         /\ first => override = {}
         /\ ~first => WithInternals = savers
         /\ ToSet(savers) \subseteq ToSet(WithInternals)
<1> USE DEF ListInv, ListOK, MemoryFollows
<1>1. CASE ~first
  BY <1>1 DEF WithInternals
<1>2. CASE first
  <2>1. savers = <<>> /\ heap = {} /\ override = {}
    BY <1>2 DEF NothingYet
  <2>2. Before \in Seq(Internal) /\ After \in Seq(Internal)
    BY InternalsOnce
  <2>3. Before \o <<>> = Before
    BY <2>2
  <2>4. WithInternals = Before \o After
    BY <1>2, <2>1, <2>3 DEF WithInternals
  <2>5. WithInternals \in Seq(Savers)
    <3>1. Internal \subseteq Savers
      BY DEF Savers
    <3> QED BY <2>2, <2>4, <3>1
  <2>6. Allocated = Internal \ ToSet(Static)
    <3>1. ASSUME NEW x \in ToSet(Static) PROVE x \notin Allocated
      <4> DEFINE sb == Static \o Behind
                 all == sb \o InFront
      <4>1. IsInjective(all) /\ sb \in Seq(Internal)
        BY SaversAssumption
      <4>2. PICK i \in DOMAIN Static : x = Static[i]
        BY DEF ToSet
      <4>3. /\ DOMAIN Static = 1 .. Len(Static) /\ DOMAIN Behind = 1 .. Len(Behind)
            /\ Len(Static) \in Nat /\ Len(Behind) \in Nat /\ Len(sb) = Len(Static) + Len(Behind)
            /\ \A k \in 1 .. Len(Static) : sb[k] = Static[k]
            /\ \A k \in Len(Static) + 1 .. Len(Static) + Len(Behind) : sb[k] = Behind[k - Len(Static)]
        BY SaversAssumption, Concatenation
      <4> HIDE DEF sb
      <4>4. /\ DOMAIN InFront = 1 .. Len(InFront) /\ Len(InFront) \in Nat
            /\ DOMAIN all = 1 .. Len(sb) + Len(InFront)
            /\ \A k \in 1 .. Len(sb) : all[k] = sb[k]
            /\ \A k \in Len(sb) + 1 .. Len(sb) + Len(InFront) : all[k] = InFront[k - Len(sb)]
        BY <4>1, SaversAssumption, Concatenation
      <4> HIDE DEF all
      <4>5. i \in DOMAIN all /\ all[i] = x /\ \A a, c \in DOMAIN all : all[a] = all[c] => a = c
        BY <4>1, <4>2, <4>3, <4>4 DEF IsInjective
      <4>6. ASSUME NEW j \in DOMAIN Behind PROVE Behind[j] # x
        <5>1. j + Len(Static) \in DOMAIN all /\ all[j + Len(Static)] = Behind[j] /\ j + Len(Static) # i
          BY <4>2, <4>3, <4>4
        <5> QED BY <4>5, <5>1
      <4>7. ASSUME NEW j \in DOMAIN InFront PROVE InFront[j] # x
        <5>1. PICK k \in Nat : k = j + Len(sb)
          BY <4>3, <4>4
        <5>2. k \in Len(sb) + 1 .. Len(sb) + Len(InFront) /\ k - Len(sb) = j /\ k # i
          BY <4>2, <4>3, <4>4, <5>1
        <5>3. k \in DOMAIN all /\ all[k] = InFront[j]
          BY <4>3, <4>4, <5>2
        <5> QED BY <4>5, <5>2, <5>3
      <4> QED BY <4>6, <4>7 DEF Allocated, ToSet
    <3> QED BY <3>1 DEF Internal
  <2>7. ToSet(WithInternals) = Internal /\ IsInjective(WithInternals)
    BY <2>4, InternalsOnce
  <2>8. ToSet(savers) = {}
    BY <2>1 DEF ToSet
  <2> QED BY <1>2, <2>1, <2>5, <2>6, <2>7, <2>8
<1> QED BY <1>1, <1>2

(* add_internal_savers() keeps the list in order.                          *)
LEMMA AddingInternalsKeepsList ==
  ASSUME ListInv, NothingYet, add_internal_savers, savers' = WithInternals,
         UNCHANGED <<freedStatic, override>>
  PROVE  ListInv' /\ first' = FALSE
<1> USE DEF add_internal_savers
<1>1. /\ WithInternals \in Seq(Savers) /\ IsInjective(WithInternals)
      /\ heap' = ToSet(WithInternals) \ ToSet(Static)
      /\ first => override = {}
      /\ ~first => WithInternals = savers
      /\ ToSet(savers) \subseteq ToSet(WithInternals)
  BY WithInternalsIsList
<1>2. heap' \subseteq Savers
  BY <1>1 DEF ToSet
<1>3. ListOK'
  BY <1>1, <1>2 DEF ListInv, ListOK
<1>4. MemoryFollows' /\ OverridesAhead' /\ OverridesListed'
  BY <1>1 DEF ListInv, MemoryFollows, OverridesAhead, OverridesListed
<1> QED BY <1>3, <1>4 DEF ListInv

(* A plugin is added, in front of everything or behind it.                 *)
LEMMA AddingKeepsList ==
  ASSUME ListInv, NothingYet, NEW s \in Plugins, NEW addbefore \in BOOLEAN,
         simage_add_saver(s, addbefore)
  PROVE  ListInv' /\ first' = FALSE
<1> DEFINE w == WithInternals
<1>1. /\ w \in Seq(Savers) /\ IsInjective(w)
      /\ (IF first THEN heap \cup Allocated ELSE heap) = ToSet(w) \ ToSet(Static)
      /\ first => override = {}
      /\ ~first => w = savers
      /\ ToSet(savers) \subseteq ToSet(w)
  BY WithInternalsIsList
<1>2. s \in Savers /\ s \notin ToSet(w) /\ s \notin ToSet(Static)
  BY <1>1, SaversAssumption DEF simage_add_saver, Savers, Internal, Allocated
<1>3. /\ freedStatic' = freedStatic /\ first' = FALSE
      /\ heap' = (ToSet(w) \ ToSet(Static)) \cup {s}
  BY <1>1 DEF simage_add_saver
<1> HIDE DEF w
<1>4. /\ savers' \in Seq(Savers) /\ Len(savers') = Len(w) + 1
      /\ addbefore => savers'[1] = s /\ \A k \in 1 .. Len(w) : savers'[k + 1] = w[k]
      /\ ~addbefore => savers'[Len(w) + 1] = s /\ \A k \in 1 .. Len(w) : savers'[k] = w[k]
  <2>1. CASE addbefore
    <3>1. savers' = <<s>> \o w
      BY <2>1 DEF simage_add_saver, add_saver_data, w
    <3> QED BY <1>1, <1>2, <2>1, <3>1
  <2>2. CASE ~addbefore
    <3>1. savers' = Append(w, s)
      BY <2>2 DEF simage_add_saver, add_saver_data, w
    <3> QED BY <1>1, <1>2, <2>2, <3>1
  <2> QED BY <2>1, <2>2
<1>5. Len(w) \in Nat /\ DOMAIN w = 1 .. Len(w) /\ DOMAIN savers' = 1 .. Len(w) + 1
  BY <1>1, <1>4
<1>6. \A k \in 1 .. Len(w) : w[k] # s
  BY <1>2, <1>5 DEF ToSet
<1>7. IsInjective(savers')
  <2>1. \A a, b \in 1 .. Len(w) : w[a] = w[b] => a = b
    BY <1>1, <1>5 DEF IsInjective
  <2>2. CASE addbefore
    <3>1. \A k \in 2 .. Len(w) + 1 : savers'[k] = w[k - 1] /\ k - 1 \in 1 .. Len(w)
      <4> SUFFICES ASSUME NEW k \in 2 .. Len(w) + 1
          PROVE savers'[k] = w[k - 1] /\ k - 1 \in 1 .. Len(w)
        OBVIOUS
      <4>1. k - 1 \in 1 .. Len(w) /\ (k - 1) + 1 = k
        BY <1>5
      <4> QED BY <1>4, <2>2, <4>1
    <3>2. savers'[1] = s
      BY <1>4, <2>2
    <3> QED BY <1>5, <1>6, <2>1, <3>1, <3>2 DEF IsInjective
  <2>3. CASE ~addbefore
    BY <1>4, <1>5, <1>6, <2>1, <2>3 DEF IsInjective
  <2> QED BY <2>2, <2>3
<1>8. ToSet(savers') = ToSet(w) \cup {s}
  <2>0. ToSet(<<s>> \o w) = ToSet(w) \cup {s} /\ ToSet(w \o <<s>>) = ToSet(w) \cup {s}
    <3>1. PICK u \in Seq(Savers) : u = <<s>>
      <4>1. <<s>> \in Seq(Savers)
        BY <1>2
      <4> QED BY <4>1
    <3>2. ToSet(u) = {s}
      BY <3>1 DEF ToSet
    <3>3. ToSet(u \o w) = ToSet(u) \cup ToSet(w) /\ ToSet(w \o u) = ToSet(w) \cup ToSet(u)
      BY <1>1, MembersOfConcatenation
    <3> QED BY <3>1, <3>2, <3>3
  <2>1. CASE addbefore
    <3>1. savers' = <<s>> \o w
      BY <2>1 DEF simage_add_saver, add_saver_data, w
    <3> QED BY <2>0, <3>1
  <2>2. CASE ~addbefore
    <3>1. savers' = w \o <<s>>
      BY <1>1, <2>2 DEF simage_add_saver, add_saver_data, w
    <3> QED BY <2>0, <3>1
  <2> QED BY <2>1, <2>2
<1>9. ToSet(w) \subseteq Savers
  BY <1>1 DEF ToSet
<1>10. override' = IF addbefore THEN override \cup {s} ELSE override
  BY DEF simage_add_saver
<1>11. ListOK'
  BY <1>2, <1>3, <1>4, <1>7, <1>9, <1>10 DEF ListInv, ListOK
<1>12. MemoryFollows' /\ OverridesListed'
  BY <1>1, <1>2, <1>3, <1>8, <1>10 DEF ListInv, MemoryFollows, OverridesListed
<1>13. OverridesAhead'
  <2> SUFFICES ASSUME NEW j \in 1 .. Len(w) + 1, savers'[j] \in override', NEW i \in 1 .. j
      PROVE  savers'[i] \in Plugins
    BY <1>5 DEF OverridesAhead
  <2>1. \A k \in 1 .. Len(w) : w[k] \in override => \A l \in 1 .. k : w[l] \in Plugins
    BY <1>1, <1>5 DEF ListInv, OverridesAhead
  <2>2. CASE addbefore
    <3>1. i = 1 => savers'[i] = s
      BY <1>4, <2>2
    <3>2. i # 1 => savers'[i] = w[i - 1] /\ savers'[j] = w[j - 1] /\ j - 1 \in 1 .. Len(w) /\ i - 1 \in 1 .. j - 1
      <4> SUFFICES ASSUME i # 1
          PROVE savers'[i] = w[i - 1] /\ savers'[j] = w[j - 1] /\ j - 1 \in 1 .. Len(w) /\ i - 1 \in 1 .. j - 1
        OBVIOUS
      <4>1. i - 1 \in 1 .. Len(w) /\ j - 1 \in 1 .. Len(w) /\ (i - 1) + 1 = i /\ (j - 1) + 1 = j /\ i - 1 \in 1 .. j - 1
        BY <1>5
      <4> QED BY <1>4, <2>2, <4>1
    <3>3. i # 1 => savers'[j] \in override
      BY <1>6, <1>10, <2>2, <3>2
    <3> QED BY <2>1, <3>1, <3>2, <3>3
  <2>3. CASE ~addbefore
    <3>1. j = Len(w) + 1 => s \in override /\ s \in ToSet(savers)
      BY <1>4, <1>10, <2>3 DEF ListInv, OverridesListed
    <3>2. j \in 1 .. Len(w) /\ i \in 1 .. Len(w)
      BY <1>1, <1>2, <1>5, <3>1
    <3> QED BY <1>4, <1>10, <2>1, <2>3, <3>2
  <2> QED BY <2>2, <2>3
<1> QED BY <1>3, <1>11, <1>12, <1>13 DEF ListInv

(* A saver is removed, and freed unless it is a static struct.             *)
LEMMA RemovingKeepsList ==
  ASSUME ListInv, NEW s \in Savers, simage_remove_saver(s)
  PROVE  ListInv'
<1>1. PICK i \in DOMAIN savers : savers[i] = s /\ savers' = RemoveAt(savers, i)
  BY DEF simage_remove_saver
<1>2. savers \in Seq(Savers) /\ IsInjective(savers) /\ i \in 1 .. Len(savers) /\ Len(savers) \in Nat
  BY DEF ListInv, ListOK
<1>3. /\ savers' \in Seq(Savers) /\ Len(savers') = Len(savers) - 1
      /\ \A k \in 1 .. Len(savers) - 1 : savers'[k] = IF k < i THEN savers[k] ELSE savers[k + 1]
  BY <1>1, <1>2, RemoveAtShifts
<1>4. IsInjective(savers') /\ ToSet(savers') = ToSet(savers) \ {s}
  BY <1>1, <1>2, RemovalRemovesOne
<1>5. /\ first' = first /\ override' = override \ {s}
      /\ heap' = IF s \in ToSet(Static) THEN heap ELSE heap \ {s}
      /\ freedStatic' = IF s \in ToSet(Static) THEN freedStatic ELSE freedStatic \cup ({s} \ heap)
  BY DEF simage_remove_saver, Frees
<1>6. s \in ToSet(savers)
  BY <1>1 DEF ToSet
<1>7. MemoryFollows' /\ OverridesListed'
  BY <1>4, <1>5, <1>6 DEF ListInv, MemoryFollows, OverridesListed
<1>8. ListOK'
  BY <1>3, <1>4, <1>5, <1>7 DEF ListInv, ListOK, MemoryFollows
<1>9. OverridesAhead'
  <2> SUFFICES ASSUME NEW j \in 1 .. Len(savers) - 1, savers'[j] \in override', NEW h \in 1 .. j
      PROVE  savers'[h] \in Plugins
    BY <1>2, <1>3 DEF OverridesAhead
  <2> DEFINE p(k) == IF k < i THEN k ELSE k + 1
  <2>1. p(j) \in 1 .. Len(savers) /\ p(h) \in 1 .. p(j) /\ h \in 1 .. Len(savers) - 1
    BY <1>2
  <2>2. savers'[j] = savers[p(j)] /\ savers'[h] = savers[p(h)]
    BY <1>3, <2>1
  <2> HIDE DEF p
  <2> QED BY <1>2, <1>5, <2>1, <2>2 DEF ListInv, OverridesAhead
<1> QED BY <1>7, <1>8, <1>9 DEF ListInv

-----------------------------------------------------------------------------
(* The calls.                                                              *)

(* The savers listed and the extensions checked while add_internal_savers()*)
(* has nothing more to do.                                                 *)
LEMMA AddingInternalsKeepsFound ==
  ASSUME Inv, savers' = WithInternals, first' = FALSE
  PROVE  /\ \A e \in checked : find_saver(WithInternals, e) # NoSaver
         /\ counted # Never => counted = Len(WithInternals)
<1>1. ~first => WithInternals = savers
  BY DEF WithInternals
<1> QED BY <1>1 DEF Inv, CheckedAreFound, CountIsLength, NothingYet

(* A client adds a saver. *)
LEMMA simage_add_saverKeepsInv ==
  ASSUME Inv, NEW s \in Plugins, NEW addbefore \in BOOLEAN, simage_add_saver(s, addbefore)
  PROVE  Inv'
<1>1. ListInv' /\ first' = FALSE
  BY AddingKeepsList DEF Inv
<1>2. /\ handle' = Never /\ checked' = {} /\ counted' = Never
      /\ UNCHANGED <<simage_error_msg, saving, lastSave>>
  BY DEF simage_add_saver, ListChanges
<1>3. CallsOK'
  BY <1>2 DEF Inv, CallsOK
<1> QED BY <1>1, <1>2, <1>3 DEF Inv, NothingYet, CountIsLength, HandleIsOfIndex, CheckedAreFound,
     SavesNest, TextIsCleared, TextOfLastSave

(* A client removes a saver. *)
LEMMA simage_remove_saverKeepsInv ==
  ASSUME Inv, NEW s \in Savers, simage_remove_saver(s)
  PROVE  Inv'
<1>1. ListInv'
  BY RemovingKeepsList DEF Inv
<1>2. /\ handle' = Never /\ checked' = {} /\ counted' = Never
      /\ UNCHANGED <<first, simage_error_msg, lastSave>>
      /\ saving' = [i \in DOMAIN saving |->
                      [saving[i] EXCEPT !.stray = @ \/ saving[i].saver = s]]
  BY DEF simage_remove_saver, ListChanges
<1>3. ~first'
  <2>1. ~first
    BY DEF simage_remove_saver, Inv, NothingYet
  <2> QED BY <1>2, <2>1
<1>4. PICK n \in Nat : n = Len(saving) /\ DOMAIN saving = 1 .. n
  BY DEF Inv, CallsOK
<1>5. ASSUME NEW i \in 1 .. n PROVE saving'[i] \in Saves /\ saving'[i].saver = saving[i].saver
  <2>1. saving[i] \in Saves
    BY <1>4 DEF Inv, CallsOK
  <2>2. saving'[i] = [saving[i] EXCEPT !.stray = saving[i].stray \/ saving[i].saver = s]
    BY <1>2, <1>4
  <2> QED BY <2>1, <2>2 DEF Saves
<1>6. saving' \in Seq(Saves) /\ Len(saving') = n /\ DOMAIN saving' = 1 .. n
  <2>1. DOMAIN saving' = 1 .. n /\ saving' = [i \in 1 .. n |-> saving'[i]]
    BY <1>2, <1>4
  <2>2. saving' \in [1 .. n -> Saves]
    BY <1>5, <2>1
  <2> QED BY <2>1, <2>2
<1>7. CallsOK'
  BY <1>2, <1>4, <1>6 DEF Inv, CallsOK
<1>8. SavesNest' /\ TextIsCleared' /\ TextOfLastSave'
  <2>1. SavesNest'
    BY <1>4, <1>5, <1>6 DEF Inv, SavesNest
  <2>2. saving' # <<>> => saving # <<>> /\ Last(saving)'.saver = Last(saving).saver
    <3> SUFFICES ASSUME saving' # <<>> PROVE saving # <<>> /\ Last(saving)'.saver = Last(saving).saver
      OBVIOUS
    <3>1. n # 0
      BY <1>6
    <3> QED BY <1>4, <1>5, <1>6, <3>1 DEF Last
  <2>3. saving' = <<>> => saving = <<>>
    BY <1>4, <1>6 DEF Inv, CallsOK
  <2> QED BY <1>2, <2>1, <2>2, <2>3 DEF Inv, TextIsCleared, TextOfLastSave
<1> QED BY <1>1, <1>2, <1>3, <1>7, <1>8 DEF Inv, NothingYet, CountIsLength, HandleIsOfIndex, CheckedAreFound

(* A client asks for an extension. *)
LEMMA simage_check_save_supportedKeepsInv ==
  ASSUME Inv, NEW e \in Extensions, simage_check_save_supported(e)
  PROVE  Inv'
<1>1. /\ add_internal_savers /\ savers' = WithInternals /\ handle' = Never
      /\ checked' = IF find_saver(WithInternals, e) # NoSaver THEN checked \cup {e} ELSE checked
      /\ UNCHANGED <<freedStatic, simage_error_msg, saving, override, counted, lastSave>>
  BY DEF simage_check_save_supported
<1>2. ListInv' /\ first' = FALSE
  BY <1>1, AddingInternalsKeepsList DEF Inv
<1>3. CheckedAreFound' /\ CountIsLength'
  BY <1>1, <1>2, AddingInternalsKeepsFound DEF CheckedAreFound, CountIsLength
<1>4. CallsOK'
  BY <1>1 DEF Inv, CallsOK
<1> QED BY <1>1, <1>2, <1>3, <1>4 DEF Inv, NothingYet, HandleIsOfIndex, SavesNest, TextIsCleared,
     TextOfLastSave

(* A client counts the savers. *)
LEMMA simage_get_num_saversKeepsInv ==
  ASSUME Inv, simage_get_num_savers
  PROVE  Inv'
<1>1. /\ add_internal_savers /\ savers' = WithInternals /\ handle' = Never
      /\ counted' = Len(WithInternals)
      /\ UNCHANGED <<freedStatic, simage_error_msg, saving, override, checked, lastSave>>
  BY DEF simage_get_num_savers
<1>2. ListInv' /\ first' = FALSE
  BY <1>1, AddingInternalsKeepsList DEF Inv
<1>3. CheckedAreFound' /\ CountIsLength'
  BY <1>1, <1>2, AddingInternalsKeepsFound DEF CheckedAreFound, CountIsLength
<1>4. counted' \in Nat
  BY <1>1, <1>2 DEF ListInv, ListOK
<1>5. CallsOK'
  BY <1>1, <1>4 DEF Inv, CallsOK
<1> QED BY <1>1, <1>2, <1>3, <1>5 DEF Inv, NothingYet, HandleIsOfIndex, SavesNest, TextIsCleared,
     TextOfLastSave

(* A client asks for a handle. *)
LEMMA simage_get_saver_handleKeepsInv ==
  ASSUME Inv, NEW idx \in Nat, simage_get_saver_handle(idx)
  PROVE  Inv'
<1>1. /\ handle' = [idx |-> idx, saver |-> IF idx < Len(savers) THEN savers[idx + 1] ELSE NoSaver]
      /\ UNCHANGED <<first, savers, heap, freedStatic, simage_error_msg, saving, history>>
  BY DEF simage_get_saver_handle
<1>2. savers \in Seq(Savers) /\ Len(savers) \in Nat
  BY DEF Inv, ListInv, ListOK
<1>3. (IF idx < Len(savers) THEN savers[idx + 1] ELSE NoSaver) \in Savers \cup {NoSaver}
  BY <1>2
<1>4. handle' \in Answers
  BY <1>1, <1>3 DEF Answers
<1>5. CallsOK'
  BY <1>1, <1>4 DEF Inv, CallsOK, history
<1>6. HandleIsOfIndex'
  BY <1>1 DEF HandleIsOfIndex
<1>7. ListInv'
  BY <1>1 DEF Inv, ListInv, ListOK, MemoryFollows, OverridesAhead, OverridesListed, history
<1> QED BY <1>1, <1>5, <1>6, <1>7 DEF Inv, NothingYet, CountIsLength, CheckedAreFound, SavesNest,
     TextIsCleared, TextOfLastSave, history

(* A save begins, or finds no saver. *)
LEMMA simage_save_imageKeepsInv ==
  ASSUME Inv, NEW e \in Extensions, simage_save_image(e)
  PROVE  Inv'
<1>1. /\ add_internal_savers /\ savers' = WithInternals /\ handle' = Never
      /\ UNCHANGED <<freedStatic, override, checked, counted>>
      /\ ClientHasControl /\ Len(saving) < MaxDepth
  BY DEF simage_save_image
<1>2. ListInv' /\ first' = FALSE
  BY <1>1, AddingInternalsKeepsList DEF Inv
<1>3. CheckedAreFound' /\ CountIsLength' /\ NothingYet' /\ HandleIsOfIndex'
  BY <1>1, <1>2, AddingInternalsKeepsFound DEF CheckedAreFound, CountIsLength, NothingYet, HandleIsOfIndex
<1> DEFINE s == find_saver(WithInternals, e)
<1>4. saving \in Seq(Saves) /\ Len(saving) \in Nat /\ Len(saving) < MaxDepth
  BY <1>1 DEF Inv, CallsOK
<1>5. CASE /\ s # NoSaver /\ simage_error_msg' = Cleared
           /\ saving' = Append(saving, [saver |-> s, ext |-> e, stray |-> FALSE]) /\ UNCHANGED lastSave
  <2>1. s \in Savers
    <3>1. WithInternals \in Seq(Savers)
      BY <1>1, <1>2 DEF ListInv, ListOK
    <3>2. PICK i \in DOMAIN WithInternals : Matches(WithInternals[i], e)
      BY <1>5, <3>1, FindSaverFinds
    <3> QED BY <3>1, <3>2, FindSaverFinds
  <2> HIDE DEF s
  <2>2. [saver |-> s, ext |-> e, stray |-> FALSE] \in Saves
    BY <2>1 DEF Saves
  <2>3. /\ saving' \in Seq(Saves) /\ Len(saving') = Len(saving) + 1 /\ saving' # <<>>
        /\ \A i \in 1 .. Len(saving) : saving'[i] = saving[i]
    BY <1>4, <1>5, <2>2
  <2>4. CallsOK'
    BY <1>1, <1>4, <1>5, <2>3, DepthAssumption DEF Inv, CallsOK
  <2>5. SavesNest'
    <3> SUFFICES ASSUME NEW i \in 1 .. Len(saving) PROVE saving[i].saver \in Callbackers
      BY <1>4, <2>3 DEF SavesNest
    <3>1. i = Len(saving) => saving # <<>> /\ saving[i] = Last(saving)
      BY <1>4 DEF Last
    <3>2. i # Len(saving) => i \in 1 .. Len(saving) - 1
      BY <1>4
    <3> QED BY <1>1, <3>1, <3>2 DEF ClientHasControl, Inv, SavesNest
  <2>6. TextIsCleared' /\ TextOfLastSave'
    BY <1>5, <2>3 DEF TextIsCleared, TextOfLastSave
  <2> QED BY <1>2, <1>3, <2>4, <2>5, <2>6 DEF Inv
<1>6. CASE /\ s = NoSaver /\ simage_error_msg' = Unsupported
           /\ lastSave' = [how |-> "unsupported", ext |-> e, saver |-> NoSaver] /\ UNCHANGED saving
  <2>1. lastSave' \in Endings
    BY <1>6 DEF Endings
  <2>2. CallsOK'
    BY <1>1, <1>6, <2>1 DEF Inv, CallsOK
  <2>3. SavesNest' /\ TextOfLastSave'
    BY <1>6 DEF Inv, SavesNest, TextOfLastSave
  <2>4. TextIsCleared'
    BY <1>1, <1>6 DEF ClientHasControl, TextIsCleared
  <2> QED BY <1>2, <1>3, <2>2, <2>3, <2>4 DEF Inv
<1> QED BY <1>5, <1>6 DEF simage_save_image

(* The innermost save ends; the text is Cleared, that of its saver, or -   *)
(* if it calls the library, is silent or has been removed - anything.      *)
LEMMA EndingKeepsInv ==
  ASSUME Inv, NEW how \in {"saved", "failed", "astray"}, Saved(how),
         simage_error_msg' \in {simage_error_msg} \cup Savers,
         how = "saved" => simage_error_msg' = simage_error_msg,
         how = "failed" => simage_error_msg' = Last(saving).saver \/ Last(saving).saver \in Silent
  PROVE  Inv'
<1> DEFINE n == Len(saving)
           last == Last(saving)
<1>1. /\ saving # <<>> /\ saving' = Front(saving) /\ handle' = Never
      /\ lastSave' = [how |-> how, ext |-> last.ext, saver |-> last.saver]
      /\ UNCHANGED <<first, savers, heap, freedStatic, override, checked, counted>>
  BY DEF Saved
<1>2. saving \in Seq(Saves) /\ n \in Nat \ {0} /\ last = saving[n] /\ last \in Saves /\ n <= MaxDepth
  BY <1>1 DEF Inv, CallsOK, Last
<1>3. /\ saving' \in Seq(Saves) /\ Len(saving') = n - 1
      /\ \A i \in 1 .. n - 1 : saving'[i] = saving[i]
  BY <1>1, <1>2, FrontDropsLast
<1>4. last.saver \in Savers /\ last.ext \in Extensions
  BY <1>2 DEF Saves
<1>5. CallsOK'
  <2>1. lastSave' \in Endings
    BY <1>1, <1>4 DEF Endings
  <2>2. simage_error_msg' \in {Cleared, Unsupported} \cup Savers
    BY <1>4 DEF Inv, CallsOK
  <2>3. Len(saving') <= MaxDepth
    BY <1>2, <1>3, DepthAssumption
  <2> QED BY <1>1, <1>3, <2>1, <2>2, <2>3 DEF Inv, CallsOK
<1>6. ListInv' /\ NothingYet' /\ CountIsLength' /\ CheckedAreFound' /\ HandleIsOfIndex'
  BY <1>1 DEF Inv, ListInv, ListOK, MemoryFollows, OverridesAhead, OverridesListed, NothingYet,
       CountIsLength, CheckedAreFound, HandleIsOfIndex
<1>7. SavesNest'
  BY <1>2, <1>3 DEF Inv, SavesNest
<1>8. TextIsCleared'
  <2> SUFFICES ASSUME saving' # <<>> PROVE Last(saving)'.saver \in Callbackers
    BY DEF TextIsCleared
  <2>1. n - 1 \in 1 .. n - 1 /\ Last(saving)' = saving'[n - 1]
    BY <1>2, <1>3 DEF Last
  <2> QED BY <1>3, <2>1 DEF Inv, SavesNest
<1>9. TextOfLastSave'
  <2>1. last.saver \notin Callbackers => simage_error_msg = Cleared
    BY <1>1 DEF Inv, TextIsCleared
  <2>2. lastSave'.how = how /\ lastSave'.saver = last.saver
    BY <1>1
  <2> QED BY <2>1, <2>2 DEF TextOfLastSave
<1> QED BY <1>5, <1>6, <1>7, <1>8, <1>9 DEF Inv

(* Every step keeps the invariant.                                         *)
LEMMA InvStep == Inv /\ [Next]_vars => Inv'
<1> SUFFICES ASSUME Inv, [Next]_vars PROVE Inv'
  OBVIOUS
<1>1. CASE SaveSucceeds
  BY <1>1, EndingKeepsInv DEF SaveSucceeds
<1>2. CASE SaveFails \/ SaveFailsAstray
  <2>1. saving # <<>> /\ saving \in Seq(Saves)
    BY <1>2 DEF SaveFails, SaveFailsAstray, Saved, Inv, CallsOK
  <2>2. Last(saving) \in Saves
    BY <2>1 DEF Last
  <2>3. Last(saving).saver \in Savers
    BY <2>2 DEF Saves
  <2> QED BY <1>2, <2>3, EndingKeepsInv DEF SaveFails, SaveFailsAstray
<1>3. ASSUME NEW idx \in 0 .. Len(savers) + 1, simage_get_saver_handle(idx)
      PROVE  Inv'
  <2>1. idx \in Nat
    OBVIOUS
  <2> QED BY <1>3, <2>1, simage_get_saver_handleKeepsInv
<1>4. CASE UNCHANGED vars
  BY <1>4 DEF vars, history, Inv, ListInv, ListOK, MemoryFollows, OverridesAhead, OverridesListed,
       NothingYet, CallsOK, CountIsLength, HandleIsOfIndex, CheckedAreFound, SavesNest, TextIsCleared,
       TextOfLastSave
<1> QED BY <1>1, <1>2, <1>3, <1>4, simage_add_saverKeepsInv, simage_remove_saverKeepsInv,
     simage_check_save_supportedKeepsInv, simage_get_num_saversKeepsInv, simage_save_imageKeepsInv
     DEF Next

THEOREM InvHolds == Spec => []Inv
BY InvInit, InvStep, PTL DEF Spec

-----------------------------------------------------------------------------
(* What follows.                                                           *)

(* simage_remove_saver() frees what malloc() returned and nothing else,    *)
(* and what is on the heap is what the list holds.                         *)
THEOREM MemoryAlwaysMatchesList == Spec => []MemoryMatchesList
<1>1. Inv => MemoryMatchesList
  BY DEF Inv, ListInv, MemoryFollows, MemoryMatchesList, TypeOK
<1> QED BY <1>1, InvHolds, PTL

(* A saver added with addbefore wins over every internal one, and counting *)
(* the savers agrees with asking for them one by one.                      *)
THEOREM OverridesAreAlwaysFound == Spec => []OverridesAreFound
<1>1. Inv => OverridesWin
  <2> SUFFICES ASSUME Inv, NEW s \in override, NEW e \in Extensions, Matches(s, e)
      PROVE find_saver(savers, e) \in Plugins
    BY DEF OverridesWin
  <2>1. savers \in Seq(Savers)
    BY DEF Inv, ListInv, ListOK
  <2>2. PICK j \in DOMAIN savers : savers[j] = s
    BY DEF Inv, ListInv, OverridesListed, ToSet
  <2>3. PICK k \in 1 .. j : find_saver(savers, e) = savers[k]
    BY <2>1, <2>2, FindSaverFinds
  <2> QED BY <2>2, <2>3 DEF Inv, ListInv, OverridesAhead
<1>2. Inv => EnumerationIsComplete
  <2> SUFFICES ASSUME Inv, counted # Never, handle # Never
      PROVE handle.saver # NoSaver <=> handle.idx < counted
    BY DEF EnumerationIsComplete
  <2>1. /\ handle \in Answers /\ handle.idx \in Nat /\ savers \in Seq(Savers) /\ counted = Len(savers)
        /\ handle.saver = IF handle.idx < Len(savers) THEN savers[handle.idx + 1] ELSE NoSaver
    BY DEF Inv, CallsOK, CountIsLength, HandleIsOfIndex, Answers, ListInv, ListOK
  <2>2. handle.idx < Len(savers) => savers[handle.idx + 1] \in Savers
    BY <2>1
  <2> QED BY <2>1, <2>2, SaversAssumption
<1> QED BY <1>1, <1>2, InvHolds, PTL DEF OverridesAreFound

(* As long as the list stays as it is, an extension that was found to be   *)
(* supported is not refused.                                               *)
THEOREM CheckAlwaysPredictsSave == Spec => CheckPredictsSave
<1> DEFINE Refused == \E e \in checked :
             lastSave' # lastSave /\ lastSave'.how = "unsupported" /\ lastSave'.ext = e
<1>1. ASSUME Inv, [Next]_vars PROVE ~Refused \/ UNCHANGED vars
  <2> SUFFICES ASSUME NEW e \in checked, lastSave' # lastSave, lastSave'.how = "unsupported", lastSave'.ext = e
      PROVE FALSE
    OBVIOUS
  <2>1. \/ \E x \in Extensions : simage_save_image(x)
        \/ \E how \in {"saved", "failed", "astray"} : Saved(how)
    BY <1>1 DEF Next, vars, history, simage_add_saver, simage_remove_saver, simage_check_save_supported,
         simage_get_num_savers, simage_get_saver_handle, SaveSucceeds, SaveFails, SaveFailsAstray
  <2>2. ASSUME NEW how \in {"saved", "failed", "astray"}, Saved(how) PROVE FALSE
    <3>1. lastSave'.how = how
      BY <2>2 DEF Saved
    <3> QED BY <3>1
  <2>3. ASSUME NEW x \in Extensions, simage_save_image(x) PROVE FALSE
    <3>1. lastSave' = [how |-> "unsupported", ext |-> x, saver |-> NoSaver] /\ find_saver(WithInternals, x) = NoSaver
      BY <2>3 DEF simage_save_image
    <3>2. x = e
      BY <3>1
    <3>3. ~first /\ WithInternals = savers
      BY <1>1 DEF Inv, NothingYet, WithInternals
    <3> QED BY <1>1, <3>1, <3>2, <3>3 DEF Inv, CheckedAreFound
  <2> QED BY <2>1, <2>2, <2>3
<1>2. ASSUME Inv, [Next]_vars
      PROVE  [\A e \in checked :
               ~(lastSave' # lastSave /\ lastSave'.how = "unsupported" /\ lastSave'.ext = e)]_vars
  BY <1>1, <1>2
<1> QED BY <1>2, InvHolds, PTL DEF Spec, CheckPredictsSave

(* When no save is in progress the error text is that of the last one.     *)
THEOREM TextIsAlwaysOfLastSave == Spec => []TextOfLastSave
<1>1. Inv => TextOfLastSave
  BY DEF Inv
<1> QED BY <1>1, InvHolds, PTL

=============================================================================
