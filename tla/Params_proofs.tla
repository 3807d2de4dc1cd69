---------------------------- MODULE Params_proofs ----------------------------
(***************************************************************************)
(* Proofs about the parameter lists (Params).  A key stays unique because  *)
(* find_param() looks before it allocates.  A string stays with one owner  *)
(* because every string that is stored was just allocated, and it stays as *)
(* a client got it because only the destruction of its object frees it.    *)
(* IInv adds what that needs of a copy in progress: the new list follows   *)
(* the old one entry by entry, so nothing in it is ever replaced.  With    *)
(* keys unique, a list is a map, and the steps are those of ParamMaps.     *)
(***************************************************************************)
EXTENDS Params, TLAPS

(* Objects that do not exist have no entries, but for the one              *)
(* s_params_copy() is filling.                                             *)
NobodysEntries ==
  \A o \in Objects \ live : list[o] = <<>> \/ (Copying /\ call.to = o)

CopyFollows ==
  Copying =>
    /\ Len(list[call.to]) = call.next - 1
    /\ call.next - 1 <= Len(list[call.from])
    /\ \A j \in 1 .. Len(list[call.to]) :
         /\ list[call.to][j].name = list[call.from][j].name
         /\ list[call.to][j].type = list[call.from][j].type

GotIsListed ==
  Getting => \A k \in 1 .. Len(call.got) :
               \E i \in 1 .. Len(list[call.obj]) : call.got[k] = list[call.obj][i]

IsString(e) == e.type = StringType /\ e.data # Null

AnswersOwned ==
  \A k \in 1 .. Len(answer) : IsString(answer[k]) =>
    /\ strings[answer[k].data] # Free
    /\ \A o \in Objects : \A i \in 1 .. Len(list[o]) :
         list[o][i].type = StringType /\ list[o][i].data = answer[k].data => o = answerer

IInv ==
  /\ TypeOK /\ KeysUnique /\ StringsOwned
  /\ NobodysEntries /\ CopyFollows /\ GotIsListed
  /\ AnswersOwned /\ AnswersStay

-----------------------------------------------------------------------------
(* What find_param() and the assignment behind it do to a list without     *)
(* duplicate keys: entry n is replaced or allocated, the others stay.      *)
StoredAt(o, e, n) ==
  /\ list' \in [Objects -> Seq(Entries)]
  /\ \A p \in Objects \ {o} : list'[p] = list[p]
  /\ n \in 1 .. Len(list'[o]) /\ list'[o][n] = e
  /\ \A i \in 1 .. Len(list'[o]) :
       i # n => i \in 1 .. Len(list[o]) /\ list'[o][i] = list[o][i]
  /\ \/ /\ Found(o, e.name, e.type) = {n}
        /\ n \in 1 .. Len(list[o]) /\ Len(list'[o]) = Len(list[o])
        /\ list[o][n].name = e.name /\ list[o][n].type = e.type
     \/ /\ Found(o, e.name, e.type) = {}
        /\ n = Len(list[o]) + 1 /\ Len(list'[o]) = n
        /\ \A i \in 1 .. Len(list[o]) : list[o][i].name # e.name \/ list[o][i].type # e.type

LEMMA StoreStores ==
  ASSUME NEW o \in Objects, NEW e \in Entries,
         list \in [Objects -> Seq(Entries)], KeysUnique,
         Store(o, e.name, e.type, e.data)
  PROVE  \E n \in Nat : StoredAt(o, e, n)
<1>e. [name |-> e.name, type |-> e.type, data |-> e.data] = e
  BY DEF Entries
<1>s. list[o] \in Seq(Entries)
  OBVIOUS
<1>1. CASE \E i \in Found(o, e.name, e.type) :
             list' = [list EXCEPT ![o][i] = [name |-> e.name, type |-> e.type, data |-> e.data]]
  <2>1. PICK i \in Found(o, e.name, e.type) : list' = [list EXCEPT ![o][i] = e]
    BY <1>1, <1>e
  <2>2. /\ i \in 1 .. Len(list[o])
        /\ list[o][i].name = e.name /\ list[o][i].type = e.type
    BY <2>1 DEF Found
  <2>3. list'[o] = [list[o] EXCEPT ![i] = e] /\ \A p \in Objects \ {o} : list'[p] = list[p]
    BY <2>1
  <2>4. /\ [list[o] EXCEPT ![i] = e] \in Seq(Entries)
        /\ Len([list[o] EXCEPT ![i] = e]) = Len(list[o])
    BY <1>s, <2>2
  <2>5. list' \in [Objects -> Seq(Entries)]
    BY <2>1, <2>3, <2>4
  <2>6. Found(o, e.name, e.type) = {i}
    BY <2>1, <2>2 DEF Found, KeysUnique
  <2>7. /\ i \in 1 .. Len(list'[o]) /\ list'[o][i] = e
        /\ \A j \in 1 .. Len(list'[o]) :
             j # i => j \in 1 .. Len(list[o]) /\ list'[o][j] = list[o][j]
    BY <1>s, <2>2, <2>3, <2>4
  <2> QED
    BY <2>2, <2>3, <2>4, <2>5, <2>6, <2>7 DEF StoredAt
<1>2. CASE /\ Found(o, e.name, e.type) = {}
           /\ list' = [list EXCEPT ![o] =
                         Append(@, [name |-> e.name, type |-> e.type, data |-> e.data])]
  <2> DEFINE n == Len(list[o]) + 1
  <2>1. list'[o] = Append(list[o], e) /\ \A p \in Objects \ {o} : list'[p] = list[p]
    BY <1>2, <1>e
  <2>2. list' \in [Objects -> Seq(Entries)]
    BY <1>2, <1>e, <1>s
  <2>3. /\ n \in Nat /\ Len(list'[o]) = n /\ list'[o][n] = e
        /\ \A j \in 1 .. Len(list'[o]) :
             j # n => j \in 1 .. Len(list[o]) /\ list'[o][j] = list[o][j]
    BY <1>s, <2>1
  <2>4. \A i \in 1 .. Len(list[o]) : list[o][i].name # e.name \/ list[o][i].type # e.type
    <3>1. SUFFICES ASSUME NEW i \in 1 .. Len(list[o]),
                          list[o][i].name = e.name, list[o][i].type = e.type
                   PROVE  FALSE
      OBVIOUS
    <3>2. \A j \in 1 .. i-1 : list[o][j].name # e.name \/ list[o][j].type # e.type
      BY <1>s, <3>1 DEF KeysUnique
    <3> QED
      BY <1>2, <3>1, <3>2 DEF Found
  <2>5. StoredAt(o, e, n)
    BY <1>2, <2>1, <2>2, <2>3, <2>4 DEF StoredAt
  <2> QED
    BY <2>3, <2>5
<1> QED
  BY <1>1, <1>2 DEF Store

LEMMA StoreKeepsKeys ==
  ASSUME NEW o \in Objects, NEW e \in Entries, NEW n \in Nat,
         list \in [Objects -> Seq(Entries)], KeysUnique, StoredAt(o, e, n)
  PROVE  KeysUnique'
<1>1. SUFFICES ASSUME NEW p \in Objects,
                      NEW i \in 1 .. Len(list'[p]), NEW j \in 1 .. Len(list'[p]),
                      list'[p][i].name = list'[p][j].name,
                      list'[p][i].type = list'[p][j].type
               PROVE  i = j
  BY DEF KeysUnique
<1>2. CASE p # o
  BY <1>1, <1>2 DEF StoredAt, KeysUnique
<1>3. CASE p = o /\ i # n /\ j # n
  BY <1>1, <1>3 DEF StoredAt, KeysUnique
<1>4. CASE p = o /\ (i = n \/ j = n) /\ n \in 1 .. Len(list[o])
  BY <1>1, <1>4, SMTT(20) DEF StoredAt, KeysUnique
<1>5. CASE p = o /\ (i = n \/ j = n) /\ n \notin 1 .. Len(list[o])
  BY <1>1, <1>5 DEF StoredAt
<1> QED
  BY <1>2, <1>3, <1>4, <1>5

-----------------------------------------------------------------------------
(* Storing an entry whose string, if it has one, was allocated for it, and *)
(* of which no pointer is lost that overwritten does not know.             *)
BringsItsString(e) ==
  \/ ~IsString(e) /\ strings' = strings
  \/ /\ IsString(e) /\ strings[e.data] = Free
     /\ \E t \in Texts : strings' = [strings EXCEPT ![e.data] = t]

KeepsTrack(o, e) ==
  /\ overwritten \subseteq overwritten'
  /\ \A i \in Found(o, e.name, e.type) :
       IsString(list[o][i]) => list[o][i].data \in overwritten'

LEMMA StringsAreBlocks ==
  ASSUME NEW e \in Entries, IsString(e)
  PROVE  e.data \in Blocks
BY TypesAssumption DEF Entries, IsString

LEMMA BringsOne ==
  ASSUME NEW e \in Entries, strings \in [Blocks -> Texts \cup {Free}], BringsItsString(e)
  PROVE  /\ strings' \in [Blocks -> Texts \cup {Free}]
         /\ \A b \in Blocks : strings[b] # Free => strings'[b] = strings[b]
         /\ \A b \in Blocks : strings'[b] # Free => strings[b] # Free \/ (IsString(e) /\ b = e.data)
         /\ IsString(e) => strings[e.data] = Free /\ strings'[e.data] # Free
BY StringsAreBlocks, NullAssumption DEF BringsItsString

LEMMA StoreKeepsStrings ==
  ASSUME NEW o \in Objects, NEW e \in Entries, NEW n \in Nat,
         list \in [Objects -> Seq(Entries)], strings \in [Blocks -> Texts \cup {Free}],
         StringsOwned, StoredAt(o, e, n), BringsItsString(e), KeepsTrack(o, e)
  PROVE  StringsOwned'
<1>t. \A p \in Objects : \A i \in 1 .. Len(list[p]) : list[p][i] \in Entries
  OBVIOUS
<1>s. \A p \in Objects : \A i \in 1 .. Len(list'[p]) :
        \/ p = o /\ i = n /\ list'[p][i] = e
        \/ i \in 1 .. Len(list[p]) /\ list'[p][i] = list[p][i] /\ ~(p = o /\ i = n)
  BY DEF StoredAt
<1>a. \A p \in Objects : \A i \in 1 .. Len(list[p]) :
        IsString(list[p][i]) => list[p][i].data \in Blocks /\ strings[list[p][i].data] # Free
  BY <1>t, StringsAreBlocks DEF StringsOwned, StringsAllocated, IsString
<1>1. StringsAllocated'
  <2>1. SUFFICES ASSUME NEW p \in Objects, NEW i \in 1 .. Len(list'[p]), IsString(list'[p][i])
                 PROVE  strings'[list'[p][i].data] # Free
    BY DEF StringsAllocated, IsString
  <2>2. CASE p = o /\ i = n /\ list'[p][i] = e
    BY <2>1, <2>2, BringsOne
  <2>3. CASE i \in 1 .. Len(list[p]) /\ list'[p][i] = list[p][i]
    BY <2>1, <2>3, <1>a, BringsOne
  <2> QED
    BY <1>s, <2>2, <2>3
<1>2. StringsNotShared'
  <2>1. SUFFICES ASSUME NEW p \in Objects, NEW q \in Objects,
                        NEW i \in 1 .. Len(list'[p]), NEW j \in 1 .. Len(list'[q]),
                        IsString(list'[p][i]), IsString(list'[q][j]),
                        list'[p][i].data = list'[q][j].data
                 PROVE  p = q /\ i = j
    BY DEF StringsNotShared, IsString
  <2>2. CASE list'[p][i] = list[p][i] /\ list'[q][j] = list[q][j]
             /\ i \in 1 .. Len(list[p]) /\ j \in 1 .. Len(list[q])
    BY <2>1, <2>2 DEF StringsOwned, StringsNotShared, IsString
  <2>3. CASE p = o /\ i = n /\ list'[p][i] = e
    BY <2>1, <2>3, <1>s, <1>a, BringsOne, SMTT(20)
  <2>4. CASE q = o /\ j = n /\ list'[q][j] = e
    <3>1. CASE i \in 1 .. Len(list[p]) /\ list'[p][i] = list[p][i]
      <4>1. strings[list'[p][i].data] # Free
        BY <2>1, <3>1, <1>a
      <4> QED
        BY <2>1, <2>4, <4>1, BringsOne
    <3> QED
      BY <2>4, <3>1, <1>s
  <2> QED
    BY <1>s, <2>2, <2>3, <2>4
<1>3. StringsAccounted'
  <2>1. SUFFICES ASSUME NEW b \in Blocks, strings'[b] # Free
                 PROVE  b \in overwritten' \/ \E p \in Objects : b \in StringsOf(p)'
    BY DEF StringsAccounted
  <2>l. \A p \in Objects : \A i \in 1 .. Len(list'[p]) :
          IsString(list'[p][i]) => list'[p][i].data \in StringsOf(p)'
    BY DEF StringsOf, IsString
  <2>2. CASE IsString(e) /\ b = e.data
    <3>1. list'[o][n] = e /\ n \in 1 .. Len(list'[o])
      BY DEF StoredAt
    <3> QED
      BY <2>2, <2>l, <3>1
  <2>3. CASE strings[b] # Free /\ b \in overwritten
    BY <2>3 DEF KeepsTrack
  <2>4. CASE \E p \in Objects : b \in StringsOf(p)
    <3>p. PICK p \in Objects : b \in StringsOf(p)
      BY <2>4
    <3>1. PICK i \in 1 .. Len(list[p]) : IsString(list[p][i]) /\ b = list[p][i].data
      BY <3>p DEF StringsOf, IsString
    <3>2. CASE p = o /\ i = n
      <4>1. Found(o, e.name, e.type) = {n}
        BY <3>1, <3>2 DEF StoredAt
      <4> QED
        BY <3>1, <3>2, <4>1 DEF KeepsTrack
    <3>3. CASE ~(p = o /\ i = n)
      <4>1. i \in 1 .. Len(list'[p]) /\ list'[p][i] = list[p][i]
        BY <3>1, <3>3 DEF StoredAt
      <4> QED
        BY <3>1, <4>1, <2>l
    <3> QED
      BY <3>2, <3>3
  <2> QED
    BY <2>1, <2>2, <2>3, <2>4, BringsOne DEF StringsOwned, StringsAccounted
<1> QED
  BY <1>1, <1>2, <1>3 DEF StringsOwned

LEMMA StoreKeepsAnswers ==
  ASSUME NEW o \in Objects, NEW e \in Entries, NEW n \in Nat,
         TypeOK, AnswersOwned, AnswersStay, StoredAt(o, e, n), BringsItsString(e),
         UNCHANGED <<answer, texts, answerer>>
  PROVE  (AnswersOwned /\ AnswersStay)'
<1>t. \A k \in 1 .. Len(answer) : answer[k] \in Entries
  BY DEF TypeOK
<1>b. \A k \in 1 .. Len(answer) : IsString(answer[k]) =>
        /\ answer[k].data \in Blocks /\ strings[answer[k].data] # Free
        /\ strings'[answer[k].data] = strings[answer[k].data]
  BY <1>t, StringsAreBlocks, BringsOne DEF AnswersOwned, TypeOK
<1>1. AnswersOwned'
  <2>1. SUFFICES ASSUME NEW k \in 1 .. Len(answer), IsString(answer[k]),
                        NEW p \in Objects, NEW i \in 1 .. Len(list'[p]),
                        list'[p][i].type = StringType, list'[p][i].data = answer[k].data
                 PROVE  p = answerer
    BY <1>b DEF AnswersOwned
  <2>2. CASE p = o /\ i = n
    <3>1. IsString(e) /\ e.data = answer[k].data
      BY <2>1, <2>2 DEF StoredAt, IsString
    <3> QED
      BY <3>1, <1>b, <2>1, BringsOne DEF TypeOK
  <2>3. CASE ~(p = o /\ i = n)
    <3>1. i \in 1 .. Len(list[p]) /\ list'[p][i] = list[p][i]
      BY <2>3 DEF StoredAt
    <3> QED
      BY <3>1, <2>1 DEF AnswersOwned
  <2> QED
    BY <2>2, <2>3
<1>2. AnswersStay'
  BY <1>b DEF AnswersStay, Says, IsString
<1> QED
  BY <1>1, <1>2

-----------------------------------------------------------------------------
(* IInv holds at first and every step keeps it.                            *)
LEMMA IInvInit == Init => IInv
<1> SUFFICES ASSUME Init PROVE IInv
  OBVIOUS
<1>1. TypeOK
  BY DEF Init, TypeOK
<1>2. KeysUnique /\ StringsOwned
  BY DEF Init, KeysUnique, StringsOwned, StringsAllocated, StringsNotShared, StringsAccounted
<1>3. NobodysEntries /\ CopyFollows /\ GotIsListed
  BY DEF Init, Idle, NobodysEntries, CopyFollows, GotIsListed, Copying, Getting
<1>4. AnswersOwned /\ AnswersStay
  BY DEF Init, AnswersOwned, AnswersStay
<1> QED
  BY <1>1, <1>2, <1>3, <1>4 DEF IInv

(* The steps that leave lists and strings alone.                           *)
LEMMA KeepsLists ==
  ASSUME IInv, UNCHANGED <<list, strings, answer, texts, answerer, overwritten>>
  PROVE  (KeysUnique /\ StringsOwned /\ AnswersOwned /\ AnswersStay)'
<1>1. KeysUnique' /\ AnswersOwned' /\ AnswersStay'
  BY DEF IInv, KeysUnique, AnswersOwned, AnswersStay, Says
<1>2. StringsOwned'
  BY DEF IInv, StringsOwned, StringsAllocated, StringsNotShared, StringsAccounted, StringsOf
<1> QED
  BY <1>1, <1>2

LEMMA CreateKeepsIInv ==
  ASSUME IInv, NEW o \in Objects, s_params_create(o)
  PROVE  IInv'
<1> USE DEF s_params_create
<1>1. TypeOK'
  BY DEF IInv, TypeOK, Idle, CallsInProgress
<1>2. (NobodysEntries /\ CopyFollows /\ GotIsListed)'
  BY DEF IInv, Idle, NobodysEntries, CopyFollows, GotIsListed, Copying, Getting
<1> QED
  BY <1>1, <1>2, KeepsLists DEF IInv

LEMMA CallKeepsIInv ==
  ASSUME IInv, NEW o \in Objects,
         \/ \E args \in Calls : s_params_set(o, args)
         \/ \E args \in Questions : s_params_get(o, args)
  PROVE  IInv'
<1>1. TypeOK'
  <2>1. CASE \E args \in Calls : s_params_set(o, args)
    <3>1. call' \in CallsInProgress'
      BY <2>1, CallsAssumption DEF CallsInProgress, s_params_set
    <3> QED
      BY <2>1, <3>1 DEF IInv, TypeOK, s_params_set
  <2>2. CASE \E args \in Questions : s_params_get(o, args)
    <3>1. call' \in CallsInProgress'
      BY <2>2 DEF CallsInProgress, s_params_get
    <3> QED
      BY <2>2, <3>1 DEF IInv, TypeOK, s_params_get
  <2> QED
    BY <2>1, <2>2
<1>2. (NobodysEntries /\ CopyFollows /\ GotIsListed)'
  BY DEF IInv, TypeOK, Idle, NobodysEntries, CopyFollows, GotIsListed, Copying, Getting,
         s_params_set, s_params_get
<1> QED
  BY <1>1, <1>2, KeepsLists DEF IInv, s_params_set, s_params_get

LEMMA SetReturnsKeepsIInv ==
  ASSUME IInv, SetReturns
  PROVE  IInv'
<1> USE DEF SetReturns
<1>1. TypeOK'
  BY DEF IInv, TypeOK
<1>2. (NobodysEntries /\ CopyFollows /\ GotIsListed)'
  BY DEF IInv, TypeOK, Idle, NobodysEntries, CopyFollows, GotIsListed, Copying, Getting, Setting
<1> QED
  BY <1>1, <1>2, KeepsLists DEF IInv

LEMMA StartCopyKeepsIInv ==
  ASSUME IInv, NEW from \in Objects, NEW to \in Objects, s_params_copy(from, to)
  PROVE  IInv'
<1> USE DEF s_params_copy
<1>1. TypeOK'
  BY DEF IInv, TypeOK, CallsInProgress
<1>2. list[to] = <<>>
  BY DEF IInv, NobodysEntries, Copying, Idle
<1>3. (NobodysEntries /\ CopyFollows /\ GotIsListed)'
  BY <1>2 DEF IInv, TypeOK, Idle, NobodysEntries, CopyFollows, GotIsListed, Copying, Getting
<1> QED
  BY <1>1, <1>3, KeepsLists DEF IInv

LEMMA CopyReturnsKeepsIInv ==
  ASSUME IInv, CopyReturns
  PROVE  IInv'
<1> USE DEF CopyReturns
<1>1. TypeOK'
  BY DEF IInv, TypeOK, CallsInProgress, Copying, Idle
<1>2. (NobodysEntries /\ CopyFollows /\ GotIsListed)'
  BY DEF IInv, TypeOK, Idle, NobodysEntries, CopyFollows, GotIsListed, Copying, Getting
<1> QED
  BY <1>1, <1>2, KeepsLists DEF IInv

LEMMA CallTypes ==
  ASSUME TypeOK
  PROVE  /\ Setting => call \in [op : {"set"}, obj : live, left : Seq(Arguments)]
         /\ Getting => call \in [op : {"get"}, obj : live, asked : Questions, got : Seq(Entries)]
         /\ Copying => call \in [op : {"copy"}, from : live, to : Objects \ live, next : Nat \ {0}]
BY DEF TypeOK, CallsInProgress, Idle, Setting, Getting, Copying

LEMMA GetOneKeepsIInv ==
  ASSUME IInv, GetOne
  PROVE  IInv'
<1> USE DEF GetOne
<1>1. PICK i \in Found(call.obj, Asked.name, Asked.type) :
        call' = [call EXCEPT !.got = Append(@, list[call.obj][i])]
  OBVIOUS
<1>c. call \in [op : {"get"}, obj : live, asked : Questions, got : Seq(Entries)]
  BY CallTypes DEF IInv
<1>2. i \in 1 .. Len(list[call.obj]) /\ list[call.obj][i] \in Entries
  BY <1>c DEF IInv, TypeOK, Found
<1>3. /\ call' \in [op : {"get"}, obj : live, asked : Questions, got : Seq(Entries)]
      /\ call'.obj = call.obj /\ call'.got = Append(call.got, list[call.obj][i])
  <2>1. Append(call.got, list[call.obj][i]) \in Seq(Entries)
    BY <1>2, <1>c
  <2> HIDE DEF GetOne
  <2> QED
    BY <1>1, <1>c, <2>1
<1>4. TypeOK'
  BY <1>3 DEF IInv, TypeOK, CallsInProgress
<1>5. (NobodysEntries /\ CopyFollows)'
  BY <1>3 DEF IInv, NobodysEntries, CopyFollows, Copying, Getting
<1>6. GotIsListed'
  BY <1>2, <1>3, <1>c DEF IInv, GotIsListed, Getting
<1> QED
  BY <1>4, <1>5, <1>6, KeepsLists DEF IInv

LEMMA GetReturnsKeepsIInv ==
  ASSUME IInv, GetReturns
  PROVE  IInv'
<1> USE DEF GetReturns
<1>c. call \in [op : {"get"}, obj : live, asked : Questions, got : Seq(Entries)]
  BY CallTypes DEF IInv
<1>1. TypeOK'
  BY <1>c DEF IInv, TypeOK
<1>2. (NobodysEntries /\ CopyFollows /\ GotIsListed)'
  BY DEF IInv, Idle, NobodysEntries, CopyFollows, GotIsListed, Copying, Getting
<1>3. (KeysUnique /\ StringsOwned)'
  BY DEF IInv, KeysUnique, StringsOwned, StringsAllocated, StringsNotShared, StringsAccounted, StringsOf
<1>4. AnswersStay'
  BY <1>c DEF AnswersStay, Says
<1>5. AnswersOwned'
  <2>1. SUFFICES ASSUME NEW k \in 1 .. Len(call.got), IsString(call.got[k])
                 PROVE  /\ strings[call.got[k].data] # Free
                        /\ \A o \in Objects : \A i \in 1 .. Len(list[o]) :
                             list[o][i].type = StringType /\ list[o][i].data = call.got[k].data
                             => o = call.obj
    BY DEF AnswersOwned
  <2>2. PICK j \in 1 .. Len(list[call.obj]) : call.got[k] = list[call.obj][j]
    BY DEF IInv, GotIsListed
  <2>3. call.obj \in Objects
    BY <1>c DEF IInv, TypeOK
  <2> QED
    BY <2>1, <2>2, <2>3 DEF IInv, IsString, StringsOwned, StringsAllocated, StringsNotShared
<1> QED
  BY <1>1, <1>2, <1>3, <1>4, <1>5 DEF IInv

(* A stored argument.                                                      *)
LEMMA SetOneKeepsIInv ==
  ASSUME IInv, Setting, call.left # <<>>, NEW e \in Entries,
         Store(call.obj, e.name, e.type, e.data),
         BringsItsString(e), KeepsTrack(call.obj, e),
         call' = [call EXCEPT !.left = Tail(@)],
         overwritten' \subseteq Blocks,
         UNCHANGED <<live, answer, texts, answerer>>
  PROVE  IInv'
<1>c. call \in [op : {"set"}, obj : live, left : Seq(Arguments)]
  BY CallTypes DEF IInv
<1>o. call.obj \in live /\ call.obj \in Objects
  BY <1>c DEF IInv, TypeOK
<1>1. PICK n \in Nat : StoredAt(call.obj, e, n)
  BY <1>o, StoreStores DEF IInv, TypeOK
<1>2. call' \in [op : {"set"}, obj : live, left : Seq(Arguments)]
  BY <1>c, SMTT(20)
<1>3. strings' \in [Blocks -> Texts \cup {Free}]
  BY BringsOne DEF IInv, TypeOK
<1>4. TypeOK'
  BY <1>1, <1>2, <1>3 DEF IInv, TypeOK, CallsInProgress, StoredAt
<1>5. NobodysEntries'
  BY <1>1, <1>o DEF IInv, NobodysEntries, StoredAt, Setting, Copying
<1>6. (CopyFollows /\ GotIsListed)'
  BY <1>2 DEF CopyFollows, GotIsListed, Copying, Getting
<1>7. KeysUnique'
  BY <1>1, <1>o, StoreKeepsKeys DEF IInv, TypeOK
<1>8. StringsOwned'
  BY <1>1, <1>o, StoreKeepsStrings DEF IInv, TypeOK
<1>9. (AnswersOwned /\ AnswersStay)'
  BY <1>1, <1>o, StoreKeepsAnswers DEF IInv
<1> QED
  BY <1>4, <1>5, <1>6, <1>7, <1>8, <1>9 DEF IInv

LEMMA PlainKeepsIInv ==
  ASSUME IInv, add_plain_param
  PROVE  IInv'
<1> USE DEF add_plain_param
<1> DEFINE a == Head(call.left)
           e == [name |-> a.name, type |-> a.type, data |-> a.val]
<1>c. call.left \in Seq(Arguments)
  BY CallTypes DEF IInv
<1>1. a \in Arguments
  BY <1>c
<1>2. a.type \in PlainTypes
  OBVIOUS
<1>3. e \in Entries
  BY <1>1, <1>2, TypesAssumption DEF Arguments, Entries
<1>5. BringsItsString(e) /\ KeepsTrack(call.obj, e)
  BY <1>2, TypesAssumption DEF BringsItsString, KeepsTrack, IsString, Found
<1>6. Store(call.obj, e.name, e.type, e.data)
  OBVIOUS
<1>7. overwritten' \subseteq Blocks
  BY DEF IInv, TypeOK
<1> QED
  BY <1>3, <1>5, <1>6, <1>7, SetOneKeepsIInv

LEMMA StringKeepsIInv ==
  ASSUME IInv, add_string_param
  PROVE  IInv'
<1> USE DEF add_string_param
<1> DEFINE a == Head(call.left)
           old == {list[call.obj][i].data : i \in Found(call.obj, a.name, StringType)} \ {Null}
<1>c. call \in [op : {"set"}, obj : live, left : Seq(Arguments)]
  BY CallTypes DEF IInv
<1>1. a \in Arguments /\ a.type = StringType
  BY <1>c
<1>2. a.name \in Names /\ (a.val # Null => a.val \in Texts)
  <2> HIDE DEF a, add_string_param
  <2> QED
    BY <1>1, TypesAssumption DEF Arguments, Types
<1>3. overwritten' = overwritten \cup old
  OBVIOUS
<1>4. old \subseteq Blocks
  <2>1. SUFFICES ASSUME NEW i \in Found(call.obj, a.name, StringType),
                        list[call.obj][i].data # Null
                 PROVE  list[call.obj][i].data \in Blocks
    OBVIOUS
  <2>2. list[call.obj][i] \in Entries /\ list[call.obj][i].type = StringType
    BY <1>c DEF IInv, TypeOK, Found
  <2> QED
    BY <2>1, <2>2, StringsAreBlocks DEF IsString
<1>5. overwritten' \subseteq Blocks
  BY <1>3, <1>4 DEF IInv, TypeOK
<1>6. ASSUME NEW e \in Entries, e.name = a.name, e.type = StringType
      PROVE  KeepsTrack(call.obj, e)
  BY <1>3, <1>6 DEF KeepsTrack, IsString
<1>7. CASE a.val = Null /\ Store(call.obj, a.name, StringType, Null) /\ UNCHANGED strings
  <2> DEFINE e == [name |-> a.name, type |-> StringType, data |-> Null]
  <2>1. e \in Entries /\ ~IsString(e) /\ e.name = a.name /\ e.type = StringType /\ e.data = Null
    BY <1>2 DEF Entries, IsString
  <2>2. BringsItsString(e)
    BY <1>7, <2>1 DEF BringsItsString
  <2> HIDE DEF e, a
  <2>3. KeepsTrack(call.obj, e) /\ Store(call.obj, e.name, e.type, e.data)
    BY <1>6, <1>7, <2>1
  <2> QED
    BY <1>5, <2>1, <2>2, <2>3, SetOneKeepsIInv
<1>8. CASE a.val # Null /\ \E b \in Blocks :
             Allocate(b, a.val) /\ Store(call.obj, a.name, StringType, b)
  <2>1. PICK b \in Blocks : Allocate(b, a.val) /\ Store(call.obj, a.name, StringType, b)
    BY <1>8
  <2> DEFINE e == [name |-> a.name, type |-> StringType, data |-> b]
  <2>2. e \in Entries /\ IsString(e) /\ e.name = a.name /\ e.type = StringType /\ e.data = b
    BY <1>2, NullAssumption DEF Entries, IsString
  <2>3. BringsItsString(e)
    BY <1>2, <1>8, <2>1, <2>2 DEF BringsItsString, Allocate
  <2> HIDE DEF e, a
  <2>4. KeepsTrack(call.obj, e) /\ Store(call.obj, e.name, e.type, e.data)
    BY <1>6, <2>1, <2>2
  <2> QED
    BY <1>5, <2>2, <2>3, <2>4, SetOneKeepsIInv
<1> QED
  BY <1>7, <1>8

(* Where a copy stands, and the entry it takes next.                       *)
LEMMA CopyOneAt ==
  ASSUME IInv, CopyOne
  PROVE  /\ Copying /\ call \in [op : {"copy"}, from : live, to : Objects \ live, next : Nat \ {0}]
         /\ call.from \in Objects /\ call.to \in Objects /\ call.from # call.to
         /\ call.next \in 1 .. Len(list[call.from])
         /\ list[call.from][call.next] \in Entries
         /\ call' = [call EXCEPT !.next = @ + 1]
<1>1. Copying /\ call.next <= Len(list[call.from]) /\ call' = [call EXCEPT !.next = @ + 1]
  BY DEF CopyOne
<1>2. TypeOK
  BY DEF IInv
<1>3. call \in [op : {"copy"}, from : live, to : Objects \ live, next : Nat \ {0}]
  BY <1>1, <1>2, CallTypes
<1>4. call.from \in Objects /\ call.to \in Objects /\ call.from # call.to /\ call.next \in Nat \ {0}
  BY <1>2, <1>3 DEF TypeOK
<1>5. list[call.from] \in Seq(Entries)
  BY <1>2, <1>4 DEF TypeOK
<1>6. Len(list[call.from]) \in Nat
  BY <1>5
<1>7. call.next \in 1 .. Len(list[call.from])
  BY <1>1, <1>4, <1>6
<1>8. list[call.from][call.next] \in Entries
  BY <1>5, <1>7
<1> QED BY <1>1, <1>3, <1>4, <1>7, <1>8

LEMMA CopyOneKeepsIInv ==
  ASSUME IInv, CopyOne
  PROVE  IInv'
<1> DEFINE e0 == list[call.from][call.next]
<1>c. call \in [op : {"copy"}, from : live, to : Objects \ live, next : Nat \ {0}]
  BY CopyOneAt
<1>o. /\ call.from \in Objects /\ call.to \in Objects /\ call.from # call.to
      /\ call.next \in 1 .. Len(list[call.from])
  BY CopyOneAt
<1>e. e0 \in Entries
  BY CopyOneAt
<1>p. call' = [call EXCEPT !.next = @ + 1]
  BY CopyOneAt
<1> USE DEF CopyOne
<1>l. /\ Len(list[call.to]) = call.next - 1
      /\ \A j \in 1 .. Len(list[call.to]) :
           /\ list[call.to][j].name = list[call.from][j].name
           /\ list[call.to][j].type = list[call.from][j].type
  BY DEF IInv, CopyFollows
<1>1. PICK e \in Entries : /\ e.name = e0.name /\ e.type = e0.type
                           /\ Store(call.to, e.name, e.type, e.data) /\ BringsItsString(e)
  <2>1. CASE /\ e0.type \in PlainTypes \/ e0.data = Null
             /\ Store(call.to, e0.name, e0.type, e0.data)
             /\ UNCHANGED strings
    <3>1. BringsItsString(e0)
      BY <2>1, TypesAssumption DEF BringsItsString, IsString
    <3> QED
      BY <2>1, <3>1, <1>e
  <2>2. CASE /\ e0.type = StringType /\ e0.data # Null
             /\ \E b \in Blocks :
                  Allocate(b, strings[e0.data]) /\ Store(call.to, e0.name, e0.type, b)
    <3>1. PICK b \in Blocks :
            Allocate(b, strings[e0.data]) /\ Store(call.to, e0.name, e0.type, b)
      BY <2>2
    <3> DEFINE e == [name |-> e0.name, type |-> StringType, data |-> b]
    <3>2. e \in Entries /\ IsString(e) /\ e.name = e0.name /\ e.type = e0.type /\ e.data = b
      BY <1>e, <2>2, NullAssumption DEF Entries, IsString
    <3>3. strings[e0.data] \in Texts
      <4>1. e0.data \in Blocks
        BY <1>e, <2>2, StringsAreBlocks DEF IsString
      <4>2. strings[e0.data] # Free
        BY <1>o, <2>2 DEF IInv, StringsOwned, StringsAllocated
      <4> QED
        BY <4>1, <4>2 DEF IInv, TypeOK
    <3>4. BringsItsString(e)
      BY <3>1, <3>2, <3>3 DEF BringsItsString, Allocate
    <3> QED
      BY <3>1, <3>2, <3>4
  <2> QED
    BY <2>1, <2>2
<1>2. Found(call.to, e.name, e.type) = {}
  <2>1. SUFFICES ASSUME NEW i \in Found(call.to, e.name, e.type) PROVE FALSE
    OBVIOUS
  <2>2. /\ i \in 1 .. Len(list[call.to])
        /\ list[call.to][i].name = e.name /\ list[call.to][i].type = e.type
    BY DEF Found
  <2>3. i \in 1 .. Len(list[call.from]) /\ i # call.next
    <3> HIDE DEF CopyOne
    <3>0. list \in [Objects -> Seq(Entries)] /\ call.next \in Nat
      BY <1>c DEF IInv, TypeOK
    <3>1. Len(list[call.from]) \in Nat /\ Len(list[call.to]) \in Nat /\ call.next \in Nat
      BY <1>o, <3>0
    <3> QED
      BY <1>o, <2>2, <1>l, <3>1
  <2>4. list[call.from][i].name = e0.name /\ list[call.from][i].type = e0.type
    BY <1>1, <1>l, <2>2
  <2> QED
    BY <1>o, <2>3, <2>4 DEF IInv, KeysUnique
<1>3. KeepsTrack(call.to, e)
  BY <1>2 DEF KeepsTrack
<1>4. PICK n \in Nat : StoredAt(call.to, e, n)
  BY <1>1, <1>o, StoreStores DEF IInv, TypeOK
<1>5. /\ call' \in [op : {"copy"}, from : live, to : Objects \ live, next : Nat \ {0}]
      /\ call'.from = call.from /\ call'.to = call.to /\ call'.next = call.next + 1
  <2> HIDE DEF CopyOne
  <2> QED BY <1>c, <1>p
<1>6. TypeOK'
  <2>1. strings' \in [Blocks -> Texts \cup {Free}]
    BY <1>1, BringsOne DEF IInv, TypeOK
  <2> QED
    BY <1>4, <1>5, <2>1 DEF IInv, TypeOK, CallsInProgress, StoredAt
<1>7. NobodysEntries'
  BY <1>4, <1>5, <1>c DEF IInv, NobodysEntries, StoredAt, Copying
<1>8. CopyFollows'
  <2>1. list'[call.from] = list[call.from]
    BY <1>4, <1>o DEF StoredAt
  <2>2. n = Len(list[call.to]) + 1 /\ Len(list'[call.to]) = n
    BY <1>2, <1>4 DEF StoredAt
  <2>3. n = call.next
    <3> HIDE DEF CopyOne
    <3> QED BY <1>l, <1>o, <2>2
  <2>4. list'[call.to][n].name = list[call.from][n].name /\ list'[call.to][n].type = list[call.from][n].type
    BY <1>1, <1>4, <2>3 DEF StoredAt
  <2>5. \A j \in 1 .. n : j # n =>
          j \in 1 .. Len(list[call.to]) /\ list'[call.to][j] = list[call.to][j]
    BY <1>4, <2>2 DEF StoredAt
  <2>6. \A j \in 1 .. n : /\ list'[call.to][j].name = list[call.from][j].name
                          /\ list'[call.to][j].type = list[call.from][j].type
    BY <1>l, <2>4, <2>5
  <2>7. n = call'.next - 1 /\ n <= Len(list[call.from])
    <3> HIDE DEF CopyOne
    <3> QED BY <1>5, <1>o, <2>3
  <2> HIDE DEF CopyOne
  <2> QED
    BY <1>5, <2>1, <2>2, <2>6, <2>7 DEF CopyFollows
<1>9. GotIsListed'
  BY <1>5 DEF GotIsListed, Getting
<1>10. KeysUnique'
  BY <1>4, <1>o, StoreKeepsKeys DEF IInv, TypeOK
<1>11. StringsOwned'
  BY <1>1, <1>3, <1>4, <1>o, StoreKeepsStrings DEF IInv, TypeOK
<1>12. (AnswersOwned /\ AnswersStay)'
  BY <1>1, <1>4, <1>o, StoreKeepsAnswers DEF IInv
<1> QED
  BY <1>6, <1>7, <1>8, <1>9, <1>10, <1>11, <1>12 DEF IInv

(* Destruction frees the strings of one object, which no other shares.     *)
LEMMA DestroyKeepsIInv ==
  ASSUME IInv, NEW o \in Objects, s_params_destroy(o)
  PROVE  IInv'
<1> USE DEF s_params_destroy
<1>1. /\ list' \in [Objects -> Seq(Entries)]
      /\ list'[o] = <<>> /\ \A p \in Objects \ {o} : list'[p] = list[p]
  BY DEF IInv, TypeOK
<1>2. /\ strings' \in [Blocks -> Texts \cup {Free}]
      /\ \A b \in Blocks : b \notin StringsOf(o) => strings'[b] = strings[b]
      /\ \A b \in Blocks : b \in StringsOf(o) => strings'[b] = Free
  BY DEF IInv, TypeOK
<1>3. ASSUME NEW p \in Objects, NEW i \in 1 .. Len(list[p]), IsString(list[p][i])
      PROVE  /\ list[p][i].data \in Blocks
             /\ p # o => list[p][i].data \notin StringsOf(o)
  <2>1. list[p][i] \in Entries
    BY DEF IInv, TypeOK
  <2>2. list[p][i].data \in Blocks
    BY <1>3, <2>1, StringsAreBlocks
  <2>3. ASSUME p # o, list[p][i].data \in StringsOf(o) PROVE FALSE
    BY <1>3, <2>3 DEF StringsOf, IsString, IInv, StringsOwned, StringsNotShared
  <2> QED
    BY <2>2, <2>3
<1>4. TypeOK'
  BY <1>1, <1>2 DEF IInv, TypeOK, Idle
<1>5. (NobodysEntries /\ CopyFollows /\ GotIsListed)'
  BY <1>1 DEF IInv, NobodysEntries, CopyFollows, GotIsListed, Copying, Getting, Idle
<1>6. KeysUnique'
  BY <1>1 DEF IInv, KeysUnique
<1>7. StringsAllocated'
  BY <1>1, <1>2, <1>3 DEF IInv, StringsOwned, StringsAllocated, IsString
<1>8. StringsNotShared'
  BY <1>1 DEF IInv, StringsOwned, StringsNotShared
<1>9. StringsAccounted'
  <2>1. SUFFICES ASSUME NEW b \in Blocks, strings'[b] # Free, b \notin overwritten
                 PROVE  \E p \in Objects : b \in StringsOf(p)'
    BY DEF StringsAccounted
  <2>2. b \notin StringsOf(o) /\ strings[b] # Free
    BY <1>2, <2>1
  <2>3. PICK p \in Objects : b \in StringsOf(p)
    BY <2>1, <2>2 DEF IInv, StringsOwned, StringsAccounted
  <2>4. list'[p] = list[p]
    BY <1>1, <2>2, <2>3
  <2> QED
    BY <2>3, <2>4 DEF StringsOf
<1>10. CASE o = answerer
  <2>1. answer' = <<>>
    BY <1>10
  <2>2. (AnswersOwned /\ AnswersStay)'
    BY <2>1 DEF AnswersOwned, AnswersStay
  <2> QED
    BY <1>4, <1>5, <1>6, <1>7, <1>8, <1>9, <2>2 DEF IInv, StringsOwned
<1>11. CASE o # answerer
  <2>1. answer' = answer /\ answerer' = answerer /\ texts' = texts
    BY <1>11
  <2>2. ASSUME NEW k \in 1 .. Len(answer), IsString(answer[k])
        PROVE  strings'[answer[k].data] = strings[answer[k].data]
    <3>1. answer[k] \in Entries
      BY DEF IInv, TypeOK
    <3>2. answer[k].data \in Blocks
      BY <2>2, <3>1, StringsAreBlocks
    <3>3. answer[k].data \notin StringsOf(o)
      BY <1>11, <2>2 DEF IInv, AnswersOwned, StringsOf, IsString
    <3> QED
      BY <1>2, <3>2, <3>3
  <2>3. AnswersOwned'
    BY <1>1, <2>1, <2>2 DEF IInv, AnswersOwned
  <2>4. AnswersStay'
    BY <2>1, <2>2 DEF IInv, AnswersStay, Says, IsString
  <2> QED
    BY <1>4, <1>5, <1>6, <1>7, <1>8, <1>9, <2>3, <2>4 DEF IInv, StringsOwned
<1> QED
  BY <1>10, <1>11

LEMMA IInvStep == IInv /\ [Next]_vars => IInv'
<1> SUFFICES ASSUME IInv, [Next]_vars PROVE IInv'
  OBVIOUS
<1>1. CASE UNCHANGED vars
  <2>1. TypeOK'
    BY <1>1 DEF vars, IInv, TypeOK, CallsInProgress
  <2>2. (NobodysEntries /\ CopyFollows /\ GotIsListed)'
    BY <1>1 DEF vars, IInv, NobodysEntries, CopyFollows, GotIsListed, Copying, Getting
  <2> QED
    BY <1>1, <2>1, <2>2, KeepsLists DEF vars, IInv
<1>2. CASE \E o \in Objects : s_params_create(o) \/ s_params_destroy(o)
  BY <1>2, CreateKeepsIInv, DestroyKeepsIInv
<1>3. CASE \E o \in Objects, args \in Calls : s_params_set(o, args)
  BY <1>3, CallKeepsIInv
<1>4. CASE \E o \in Objects, args \in Questions : s_params_get(o, args)
  BY <1>4, CallKeepsIInv
<1>5. CASE add_plain_param \/ add_string_param \/ SetReturns
  BY <1>5, PlainKeepsIInv, StringKeepsIInv, SetReturnsKeepsIInv
<1>6. CASE GetOne \/ GetReturns
  BY <1>6, GetOneKeepsIInv, GetReturnsKeepsIInv
<1>7. CASE \E from, to \in Objects : s_params_copy(from, to)
  BY <1>7, StartCopyKeepsIInv
<1>8. CASE CopyOne \/ CopyReturns
  BY <1>8, CopyOneKeepsIInv, CopyReturnsKeepsIInv
<1> QED
  BY <1>1, <1>2, <1>3, <1>4, <1>5, <1>6, <1>7, <1>8 DEF Next

(* The inductive invariant holds throughout.                               *)
THEOREM Invariant == Spec => []IInv
BY IInvInit, IInvStep, PTL DEF Spec

(* Type correctness of the parameter lists and of the calls on them.       *)
THEOREM TypeCorrect == Spec => []TypeOK
<1>1. IInv => TypeOK
  BY DEF IInv
<1> QED
  BY <1>1, Invariant, PTL

(* Whatever is set and copied, a list has one entry per name and type, so  *)
(* find_param() cannot answer with an entry that was set before another.   *)
THEOREM KeysStayUnique == Spec => []KeysUnique
<1>1. IInv => KeysUnique
  BY DEF IInv
<1> QED
  BY <1>1, Invariant, PTL

(* Every string has one owner, for any number of objects: s_params_destroy *)
(* frees no string twice and none of another object.                       *)
THEOREM StringsStayOwned == Spec => []StringsOwned
<1>1. IInv => StringsOwned
  BY DEF IInv
<1> QED
  BY <1>1, Invariant, PTL

(* A string got from s_params_get() is good until its object is destroyed. *)
THEOREM AnswersAlwaysStay == Spec => []AnswersStay
<1>1. IInv => AnswersStay
  BY DEF IInv
<1> QED
  BY <1>1, Invariant, PTL

-----------------------------------------------------------------------------
(* The lists implement maps.  The two invariants more are what a get and a *)
(* copy in progress have done so far.                                      *)

Question(q) == <<q.name, q.type>>
KeysOf(o)   == {Key(list[o][i]) : i \in 1 .. Len(list[o])}

GotIsAsked ==
  Getting =>
    /\ Len(call.got) <= Len(call.asked)
    /\ \A k \in 1 .. Len(call.got) : Key(call.got[k]) = Question(call.asked[k])

CopySays ==
  Copying =>
    \A j \in 1 .. Len(list[call.to]) : Says(list[call.to][j]) = Says(list[call.from][j])

LEMMA SaidIs ==
  IInv => \A o \in Objects : \A i \in 1 .. Len(list[o]) :
            ValueIn(o, Key(list[o][i])) = Says(list[o][i])
<1> SUFFICES ASSUME IInv, NEW o \in Objects, NEW i \in 1 .. Len(list[o])
             PROVE  ValueIn(o, Key(list[o][i])) = Says(list[o][i])
  OBVIOUS
<1> DEFINE S == {list[o][j] : j \in 1 .. Len(list[o])}
           k == Key(list[o][i])
<1>1. list[o][i] \in S
  OBVIOUS
<1>2. \A e \in S : Key(e) = k => e = list[o][i]
  <2> SUFFICES ASSUME NEW j \in 1 .. Len(list[o]), Key(list[o][j]) = k
               PROVE  list[o][j] = list[o][i]
    OBVIOUS
  <2>1. list[o][j].name = list[o][i].name /\ list[o][j].type = list[o][i].type
    BY DEF Key
  <2> QED BY <2>1 DEF IInv, KeysUnique
<1> HIDE DEF S
<1>3. (CHOOSE e \in S : Key(e) = k) = list[o][i]
  BY <1>1, <1>2
<1> QED BY <1>3 DEF ValueIn, S

MapsSay ==
  \A o \in live : /\ Map(o) = [k \in KeysOf(o) |-> ValueIn(o, k)]
                  /\ \A i \in 1 .. Len(list[o]) : Map(o)[Key(list[o][i])] = Says(list[o][i])

LEMMA MapIs == IInv => MapsSay
<1> USE DEF MapsSay
<1> SUFFICES ASSUME IInv, NEW o \in live
             PROVE  /\ Map(o) = [k \in KeysOf(o) |-> ValueIn(o, k)]
                    /\ \A i \in 1 .. Len(list[o]) : Map(o)[Key(list[o][i])] = Says(list[o][i])
  OBVIOUS
<1>1. Map(o) = [k \in KeysOf(o) |-> ValueIn(o, k)]
  BY DEF Map, KeysOf
<1>2. ASSUME NEW i \in 1 .. Len(list[o]) PROVE Map(o)[Key(list[o][i])] = Says(list[o][i])
  <2>1. Key(list[o][i]) \in KeysOf(o)
    BY DEF KeysOf
  <2>2. ValueIn(o, Key(list[o][i])) = Says(list[o][i])
    BY SaidIs DEF IInv, TypeOK
  <2> QED BY <1>1, <2>1, <2>2
<1> QED BY <1>1, <1>2

LEMMA SaysTyped ==
  ASSUME TypeOK, StringsOwned, NEW o \in Objects, NEW i \in 1 .. Len(list[o])
  PROVE  Says(list[o][i]) \in Plain \cup Texts \cup {Null} /\ Key(list[o][i]) \in Names \X Types
<1>1. list[o][i] \in Entries
  BY DEF TypeOK
<1>2. Key(list[o][i]) \in Names \X Types
  BY <1>1 DEF Key, Entries, Types
<1>3. CASE IsString(list[o][i])
  <2>1. list[o][i].data \in Blocks /\ strings[list[o][i].data] # Free
    BY <1>1, <1>3, StringsAreBlocks DEF StringsOwned, StringsAllocated, IsString
  <2>2. strings[list[o][i].data] \in Texts
    BY <2>1 DEF TypeOK
  <2> QED BY <1>2, <1>3, <2>2 DEF Says, IsString
<1>4. CASE ~IsString(list[o][i])
  <2>1. Says(list[o][i]) = list[o][i].data
    BY <1>4 DEF Says, IsString
  <2>2. list[o][i].data \in Plain \cup {Null}
    BY <1>1, <1>4 DEF Entries, IsString
  <2> QED BY <1>2, <2>1, <2>2
<1> QED BY <1>3, <1>4

LEMMA MapsAreNotNull ==
  ASSUME IInv, NEW o \in live
  PROVE  Map(o) # Null
<1>1. o \in Objects
  BY DEF IInv, TypeOK
<1>2. Map(o) = [k \in KeysOf(o) |-> ValueIn(o, k)]
  BY MapIs DEF MapsSay
<1>3. ASSUME NEW k \in KeysOf(o)
      PROVE  k \in Names \X Types /\ ValueIn(o, k) \in Plain \cup Texts \cup {Null}
  <2>1. PICK i \in 1 .. Len(list[o]) : k = Key(list[o][i])
    BY DEF KeysOf
  <2>2. ValueIn(o, k) = Says(list[o][i])
    BY <1>1, <2>1, SaidIs
  <2> QED BY <1>1, <2>1, <2>2, SaysTyped DEF IInv
<1>4. KeysOf(o) \in SUBSET (Names \X Types)
  BY <1>3
<1>5. Map(o) \in [KeysOf(o) -> Plain \cup Texts \cup {Null}]
  BY <1>2, <1>3
<1> QED BY <1>4, <1>5, MapAssumption

(* An object whose list is left alone, and whose strings are, has the same *)
(* map after a step.                                                       *)
LEMMA SameMap ==
  ASSUME IInv, NEW p \in Objects, p \in live <=> p \in live', list'[p] = list[p],
         \A i \in 1 .. Len(list[p]) : IsString(list[p][i]) =>
           strings'[list[p][i].data] = strings[list[p][i].data]
  PROVE  Map(p)' = Map(p)
<1> DEFINE S == {list[p][i] : i \in 1 .. Len(list[p])}
           E(k) == CHOOSE e \in S : Key(e) = k
<1>1. ASSUME NEW e \in S PROVE Says(e)' = Says(e)
  BY DEF Says, IsString
<1>2. \A k \in KeysOf(p) : E(k) \in S
  BY DEF KeysOf
<1>3. KeysOf(p)' = KeysOf(p)
  BY DEF KeysOf, Key
<1>4. ASSUME NEW k \in KeysOf(p) PROVE ValueIn(p, k)' = ValueIn(p, k)
  <2>1. ValueIn(p, k) = Says(E(k))
    BY DEF ValueIn
  <2>2. ValueIn(p, k)' = Says(E(k))'
    BY DEF ValueIn
  <2>3. E(k)' = E(k)
    BY DEF Key
  <2>4. Says(E(k))' = Says(E(k))
    <3>1. PICK e \in S : e = E(k)
      BY <1>2
    <3>2. Says(e)' = Says(e)
      BY <1>1
    <3> QED BY <2>3, <3>1, <3>2 DEF Says
  <2> QED BY <2>1, <2>2, <2>4
<1>5. Map(p) = IF p \notin live THEN Null ELSE [k \in KeysOf(p) |-> ValueIn(p, k)]
  BY DEF Map, KeysOf
<1>6. Map(p)' = IF p \notin live' THEN Null ELSE [k \in KeysOf(p)' |-> ValueIn(p, k)']
  BY DEF Map, KeysOf
<1> QED BY <1>3, <1>4, <1>5, <1>6

(* Strings that are allocated are not touched by what stores an entry.     *)
LEMMA OtherStringsStay ==
  ASSUME IInv, NEW e \in Entries, BringsItsString(e)
  PROVE  \A p \in Objects : \A i \in 1 .. Len(list[p]) : IsString(list[p][i]) =>
           strings'[list[p][i].data] = strings[list[p][i].data]
<1> SUFFICES ASSUME NEW p \in Objects, NEW i \in 1 .. Len(list[p]), IsString(list[p][i])
             PROVE  strings'[list[p][i].data] = strings[list[p][i].data]
  OBVIOUS
<1>1. list[p][i] \in Entries
  BY DEF IInv, TypeOK
<1>2. list[p][i].data \in Blocks /\ strings[list[p][i].data] # Free
  BY <1>1, StringsAreBlocks DEF IInv, StringsOwned, StringsAllocated, IsString
<1> QED BY <1>2, BringsOne DEF IInv, TypeOK

LEMMA StorePuts ==
  ASSUME IInv, IInv', NEW o \in live, live' = live, texts' = texts,
         NEW e \in Entries, NEW n \in Nat, StoredAt(o, e, n), BringsItsString(e),
         NEW v, v = Says(e)'
  PROVE  Maps!Put(o, Key(e), v)
<1>o. o \in Objects
  BY DEF IInv, TypeOK
<1>n. Len(list[o]) \in Nat /\ Len(list'[o]) \in Nat /\ Len(list[o]) <= Len(list'[o])
  BY <1>o DEF StoredAt, IInv, TypeOK
<1>1. ASSUME NEW i \in 1 .. Len(list[o]), i # n
      PROVE  /\ i \in 1 .. Len(list'[o]) /\ list'[o][i] = list[o][i]
             /\ Says(list[o][i])' = Says(list[o][i])
  <2>1. i \in 1 .. Len(list'[o]) /\ list'[o][i] = list[o][i]
    BY <1>n, <1>1 DEF StoredAt
  <2>2. IsString(list[o][i]) => strings'[list[o][i].data] = strings[list[o][i].data]
    BY <1>o, OtherStringsStay
  <2> QED BY <2>1, <2>2 DEF Says, IsString
<1>2. n \in 1 .. Len(list[o]) => Key(list[o][n]) = Key(e)
  BY <1>n DEF StoredAt, Key
<1>3. n \in 1 .. Len(list'[o]) /\ list'[o][n] = e
  BY DEF StoredAt
<1>4. KeysOf(o)' = KeysOf(o) \cup {Key(e)}
  <2>1. ASSUME NEW i \in 1 .. Len(list'[o]) PROVE Key(list'[o][i]) \in KeysOf(o) \cup {Key(e)}
    <3>1. CASE i = n
      BY <1>3, <3>1
    <3>2. CASE i # n
      <4>1. i \in 1 .. Len(list[o]) /\ list'[o][i] = list[o][i]
        BY <3>2 DEF StoredAt
      <4> QED BY <4>1 DEF KeysOf
    <3> QED BY <3>1, <3>2
  <2>2. Key(e) \in KeysOf(o)'
    BY <1>3 DEF KeysOf, Key
  <2>3. ASSUME NEW i \in 1 .. Len(list[o]) PROVE Key(list[o][i]) \in KeysOf(o)'
    <3>1. CASE i = n
      BY <1>2, <2>2, <3>1
    <3>2. CASE i # n
      BY <1>1, <3>2 DEF KeysOf, Key
    <3> QED BY <3>1, <3>2
  <2>4. KeysOf(o)' = {Key(list'[o][i]) : i \in 1 .. Len(list'[o])}
    BY DEF KeysOf, Key
  <2> QED BY <2>1, <2>2, <2>3, <2>4 DEF KeysOf
<1>5. Map(o) = [k \in KeysOf(o) |-> ValueIn(o, k)]
  BY MapIs DEF MapsSay
<1>6. /\ Map(o)' = [k \in KeysOf(o)' |-> ValueIn(o, k)']
      /\ \A i \in 1 .. Len(list'[o]) : Map(o)'[Key(list[o][i])'] = Says(list[o][i])'
  <2>1. (IInv => MapsSay)'
    BY MapIs, PTL
  <2> QED BY <2>1 DEF MapsSay
<1>7. \A i \in 1 .. Len(list'[o]) : Key(list[o][i])' = Key(list'[o][i])
  BY DEF Key
<1>8. Map(o)'[Key(e)] = v
  BY <1>3, <1>6, <1>7 DEF Says
<1>9. ASSUME NEW k \in KeysOf(o), k # Key(e) PROVE Map(o)'[k] = Map(o)[k]
  <2>1. PICK i \in 1 .. Len(list[o]) : k = Key(list[o][i])
    BY DEF KeysOf
  <2>2. i # n
    BY <1>2, <1>9, <2>1
  <2>3. Map(o)'[k] = Says(list[o][i])'
    BY <1>1, <1>6, <1>7, <2>1, <2>2
  <2>4. Map(o)[k] = Says(list[o][i])
    BY <2>1, MapIs DEF MapsSay
  <2> QED BY <1>1, <2>2, <2>3, <2>4
<1>10. Map(o)' = [x \in DOMAIN Map(o) \cup {Key(e)} |-> IF x = Key(e) THEN v ELSE Map(o)[x]]
  <2>1. DOMAIN Map(o) = KeysOf(o)
    BY <1>5
  <2>2. Map(o)' = [k \in KeysOf(o) \cup {Key(e)} |-> ValueIn(o, k)']
    BY <1>4, <1>6
  <2>3. \A k \in KeysOf(o) \cup {Key(e)} : Map(o)'[k] = ValueIn(o, k)'
    BY <2>2
  <2>4. \A k \in KeysOf(o) \cup {Key(e)} : ValueIn(o, k)' = IF k = Key(e) THEN v ELSE Map(o)[k]
    BY <1>8, <1>9, <2>3
  <2> QED BY <2>1, <2>2, <2>4
<1>11. ASSUME NEW p \in Objects, p # o PROVE Map(p)' = Map(p)
  <2>1. list'[p] = list[p]
    BY <1>11 DEF StoredAt
  <2> QED BY <2>1, OtherStringsStay, SameMap
<1>12. Map(o) # Null
  BY <1>5, MapsAreNotNull
<1> QED BY <1>o, <1>10, <1>11, <1>12 DEF Maps!Put

-----------------------------------------------------------------------------
(* The two invariants more.                                                *)

LEMMA GotIsAskedStep == IInv /\ GotIsAsked /\ [Next]_vars => GotIsAsked'
<1> SUFFICES ASSUME IInv, GotIsAsked, [Next]_vars PROVE GotIsAsked'
  OBVIOUS
<1>1. CASE GetOne
  <2>1. call \in [op : {"get"}, obj : live, asked : Questions, got : Seq(Entries)]
    BY <1>1, CallTypes DEF IInv, GetOne
  <2>2. PICK i \in Found(call.obj, Asked.name, Asked.type) :
          call' = [call EXCEPT !.got = Append(@, list[call.obj][i])]
    BY <1>1 DEF GetOne
  <2>3. /\ list[call.obj][i] \in Entries
        /\ list[call.obj][i].name = Asked.name /\ list[call.obj][i].type = Asked.type
    BY <2>1 DEF Found, IInv, TypeOK
  <2>4. PICK n \in Nat : n = Len(call.got)
    BY <2>1
  <2>5. PICK m \in Nat : m = Len(call.asked)
    BY <2>1, CallsAssumption
  <2>6. n < m
    BY <1>1, <2>4, <2>5 DEF GetOne, More
  <2>7. Key(list[call.obj][i]) = Question(call.asked[n + 1])
    BY <2>3, <2>4 DEF Key, Question, Asked
  <2>8. call'.asked = call.asked /\ call'.got = Append(call.got, list[call.obj][i])
    BY <2>1, <2>2
  <2>9. /\ Len(call'.got) = n + 1 /\ call'.got[n + 1] = list[call.obj][i]
        /\ \A k \in 1 .. n : call'.got[k] = call.got[k]
    BY <2>1, <2>3, <2>4, <2>8
  <2>10. \A k \in 1 .. n : Key(call.got[k]) = Question(call.asked[k])
    BY <1>1, <2>4 DEF GotIsAsked, GetOne
  <2>11. ASSUME NEW k \in 1 .. n + 1 PROVE Key(call'.got[k]) = Question(call'.asked[k])
    <3>1. CASE k = n + 1
      BY <2>7, <2>8, <2>9, <3>1
    <3>2. CASE k \in 1 .. n
      BY <2>8, <2>9, <2>10, <3>2
    <3> QED BY <2>4, <3>1, <3>2
  <2>12. Len(call'.got) <= Len(call'.asked)
    BY <2>4, <2>5, <2>6, <2>8, <2>9
  <2> QED BY <2>9, <2>11, <2>12 DEF GotIsAsked, Key, Question
<1>2. ASSUME NEW o \in Objects, NEW args \in Questions, s_params_get(o, args) PROVE GotIsAsked'
  <2>1. call'.got = <<>> /\ call'.asked = args /\ Len(args) \in Nat
    BY <1>2, CallsAssumption DEF s_params_get
  <2> QED BY <2>1 DEF GotIsAsked
<1>3. CASE add_plain_param \/ add_string_param
  <2>1. ~Getting'
    <3>1. call \in [op : {"set"}, obj : live, left : Seq(Arguments)]
      BY <1>3, CallTypes DEF IInv, add_plain_param, add_string_param
    <3> QED BY <1>3, <3>1 DEF Getting, add_plain_param, add_string_param
  <2> QED BY <2>1 DEF GotIsAsked
<1>4. CASE CopyOne
  <2>1. ~Getting'
    <3>1. call \in [op : {"copy"}, from : live, to : Objects \ live, next : Nat \ {0}]
      BY <1>4, CallTypes DEF IInv, CopyOne
    <3> QED BY <1>4, <3>1 DEF Getting, CopyOne
  <2> QED BY <2>1 DEF GotIsAsked
<1>5. CASE SetReturns \/ GetReturns \/ CopyReturns
  BY <1>5 DEF SetReturns, GetReturns, CopyReturns, Idle, GotIsAsked, Getting
<1>6. ASSUME NEW o \in Objects, s_params_create(o) \/ s_params_destroy(o) PROVE GotIsAsked'
  BY <1>6 DEF s_params_create, s_params_destroy, Idle, GotIsAsked, Getting
<1>7. ASSUME NEW o \in Objects, NEW args \in Calls, s_params_set(o, args) PROVE GotIsAsked'
  BY <1>7 DEF s_params_set, GotIsAsked, Getting
<1>8. ASSUME NEW from \in Objects, NEW to \in Objects, s_params_copy(from, to) PROVE GotIsAsked'
  BY <1>8 DEF s_params_copy, GotIsAsked, Getting
<1>9. CASE UNCHANGED vars
  BY <1>9 DEF vars, GotIsAsked, Getting, Key, Question
<1> QED BY <1>1, <1>2, <1>3, <1>4, <1>5, <1>6, <1>7, <1>8, <1>9 DEF Next

(* What an entry says after the step.                                      *)
SaysNext(e) == IF e.type = StringType /\ e.data # Null THEN strings'[e.data] ELSE e.data

(* An entry copied says what it says in the list it comes from.            *)
LEMMA CopyOneCopies ==
  ASSUME IInv, CopyOne
  PROVE  \E e \in Entries, n \in Nat :
           /\ e.name = list[call.from][call.next].name /\ e.type = list[call.from][call.next].type
           /\ Says(e)' = Says(list[call.from][call.next])
           /\ StoredAt(call.to, e, n) /\ BringsItsString(e)
<1> DEFINE e0 == list[call.from][call.next]
<1>c. call \in [op : {"copy"}, from : live, to : Objects \ live, next : Nat \ {0}]
  BY CopyOneAt
<1>o. call.from \in Objects /\ call.to \in Objects /\ call.next \in 1 .. Len(list[call.from])
  BY CopyOneAt
<1>e. e0 \in Entries
  BY CopyOneAt
<1>k. list \in [Objects -> Seq(Entries)] /\ KeysUnique
  BY DEF IInv, TypeOK
<1>1. CASE /\ e0.type \in PlainTypes \/ e0.data = Null
           /\ Store(call.to, e0.name, e0.type, e0.data)
           /\ UNCHANGED strings
  <2>1. BringsItsString(e0) /\ ~IsString(e0)
    BY <1>1, TypesAssumption DEF BringsItsString, IsString
  <2>2. PICK n \in Nat : StoredAt(call.to, e0, n)
    BY <1>1, <1>e, <1>k, <1>o, StoreStores
  <2>3. ASSUME NEW e \in Entries, ~IsString(e) PROVE Says(e)' = Says(e)
    BY <2>3 DEF Says, IsString
  <2>4. PICK e \in Entries : e = e0
    BY <1>e
  <2>5. Says(e)' = Says(e0)
    BY <2>1, <2>3, <2>4
  <2> QED BY <2>1, <2>2, <2>4, <2>5
<1>2. CASE /\ e0.type = StringType /\ e0.data # Null
           /\ \E b \in Blocks :
                Allocate(b, strings[e0.data]) /\ Store(call.to, e0.name, e0.type, b)
  <2>1. PICK b \in Blocks : Allocate(b, strings[e0.data]) /\ Store(call.to, e0.name, e0.type, b)
    BY <1>2
  <2>2. PICK e : e = [name |-> e0.name, type |-> StringType, data |-> b]
    OBVIOUS
  <2>3. e \in Entries /\ IsString(e) /\ e.name = e0.name /\ e.type = e0.type /\ e.data = b
    BY <1>e, <1>2, <2>2, NullAssumption DEF Entries, IsString
  <2>4. strings[e0.data] \in Texts
    <3>1. e0.data \in Blocks
      BY <1>e, <1>2, StringsAreBlocks DEF IsString
    <3>2. strings[e0.data] # Free
      BY <1>o, <1>2 DEF IInv, StringsOwned, StringsAllocated
    <3> QED BY <3>1, <3>2 DEF IInv, TypeOK
  <2>5. BringsItsString(e)
    BY <2>1, <2>3, <2>4 DEF BringsItsString, Allocate
  <2>6. PICK n \in Nat : StoredAt(call.to, e, n)
    <3>1. Store(call.to, e.name, e.type, e.data)
      BY <2>1, <2>3
    <3> QED BY <1>k, <1>o, <2>3, <3>1, StoreStores
  <2>7. Says(e)' = strings'[b]
    BY <2>3 DEF Says, IsString
  <2>8. strings'[b] = strings[e0.data]
    BY <2>1 DEF Allocate, IInv, TypeOK
  <2>9. Says(e0) = strings[e0.data]
    BY <1>2 DEF Says
  <2> QED BY <2>3, <2>5, <2>6, <2>7, <2>8, <2>9
<1> QED BY <1>1, <1>2 DEF CopyOne

LEMMA CopySaysStep == IInv /\ CopySays /\ IInv' /\ [Next]_vars => CopySays'
<1> SUFFICES ASSUME IInv, CopySays, IInv', [Next]_vars PROVE CopySays'
  OBVIOUS
<1>1. CASE CopyOne
  <2>1. call \in [op : {"copy"}, from : live, to : Objects \ live, next : Nat \ {0}]
    BY <1>1, CallTypes DEF IInv, CopyOne
  <2>2. call'.from = call.from /\ call'.to = call.to /\ Copying
    BY <1>1, <2>1 DEF CopyOne
  <2>3. PICK e \in Entries, n \in Nat :
           /\ e.name = list[call.from][call.next].name /\ e.type = list[call.from][call.next].type
           /\ Says(e)' = Says(list[call.from][call.next])
           /\ StoredAt(call.to, e, n) /\ BringsItsString(e)
    BY <1>1, CopyOneCopies
  <2>4. call.from \in Objects /\ call.to \in Objects /\ call.from # call.to
    BY <2>1 DEF IInv, TypeOK
  <2>5. n = call.next
    <3>1. Len(list'[call.to]) = call.next
      <4>1. Copying' /\ Len(list'[call'.to]) = call'.next - 1
        BY <1>1, <2>1 DEF IInv, CopyFollows, CopyOne, Copying
      <4>2. call'.next = call.next + 1 /\ call.next \in Nat
        BY <1>1, <2>1 DEF CopyOne
      <4> QED BY <2>2, <4>1, <4>2
    <3>2. Len(list[call.to]) = call.next - 1 /\ call.next \in Nat
      BY <2>1, <2>2 DEF IInv, CopyFollows
    <3>3. Len(list'[call.to]) = Len(list[call.to])
          \/ (n = Len(list[call.to]) + 1 /\ Len(list'[call.to]) = n)
      BY <2>3 DEF StoredAt
    <3> QED BY <3>1, <3>2, <3>3
  <2>6. \A j \in 1 .. Len(list[call.from]) :
          IsString(list[call.from][j]) => strings'[list[call.from][j].data] = strings[list[call.from][j].data]
    BY <2>3, <2>4, OtherStringsStay
  <2>7. list'[call.from] = list[call.from] /\ list'[call.to][n] = e
    BY <2>3, <2>4 DEF StoredAt
  <2>8. ASSUME NEW j \in 1 .. Len(list'[call.to])
        PROVE  SaysNext(list'[call.to][j]) = SaysNext(list'[call.from][j])
    <3>1. Len(list[call.to]) = call.next - 1 /\ call.next \in 1 .. Len(list[call.from])
      BY <1>1, <2>2, CopyOneAt DEF IInv, CopyFollows
    <3>2. \A i \in 1 .. Len(list[call.from]) : SaysNext(list[call.from][i]) = Says(list[call.from][i])
      BY <2>6 DEF Says, SaysNext, IsString
    <3>3. CASE j = n
      <4>1. SaysNext(e) = Says(list[call.from][n])
        BY <2>3, <2>5 DEF Says, SaysNext
      <4> QED BY <2>5, <2>7, <3>1, <3>2, <3>3, <4>1
    <3>4. CASE j # n
      <4>1. j \in 1 .. Len(list[call.to]) /\ list'[call.to][j] = list[call.to][j]
        BY <2>3, <3>4 DEF StoredAt
      <4>2. j \in 1 .. Len(list[call.from])
        BY <2>1, <2>4, <3>1, <4>1 DEF IInv, TypeOK
      <4>3. Says(list[call.to][j]) = Says(list[call.from][j])
        BY <2>2, <4>1 DEF CopySays
      <4>4. SaysNext(list[call.to][j]) = Says(list[call.to][j])
        <5>1. IsString(list[call.to][j]) => strings'[list[call.to][j].data] = strings[list[call.to][j].data]
          BY <2>3, <2>4, <4>1, OtherStringsStay
        <5> QED BY <5>1 DEF Says, SaysNext, IsString
      <4> QED BY <2>7, <3>2, <4>1, <4>2, <4>3, <4>4
    <3> QED BY <3>3, <3>4
  <2> QED BY <2>2, <2>8 DEF CopySays, Says, SaysNext
<1>2. CASE CopyReturns \/ SetReturns \/ GetReturns
  BY <1>2 DEF CopyReturns, SetReturns, GetReturns, Idle, CopySays, Copying
<1>3. ASSUME NEW o \in Objects, NEW args, s_params_set(o, args) \/ s_params_get(o, args)
      PROVE  CopySays'
  BY <1>3 DEF s_params_set, s_params_get, CopySays, Copying
<1>4. ASSUME NEW o \in Objects, s_params_create(o) \/ s_params_destroy(o) PROVE CopySays'
  BY <1>4 DEF s_params_create, s_params_destroy, Idle, CopySays, Copying
<1>5. CASE add_plain_param \/ add_string_param \/ GetOne
  <2>1. ~Copying'
    <3>1. call.op \in {"set", "get"} /\ call'.op = call.op
      <4>1. CASE Setting
        <5>1. call \in [op : {"set"}, obj : live, left : Seq(Arguments)]
          BY <4>1, CallTypes DEF IInv
        <5> QED BY <1>5, <5>1 DEF add_plain_param, add_string_param, GetOne
      <4>2. CASE Getting
        <5>1. call \in [op : {"get"}, obj : live, asked : Questions, got : Seq(Entries)]
          BY <4>2, CallTypes DEF IInv
        <5> QED BY <1>5, <5>1 DEF add_plain_param, add_string_param, GetOne
      <4> QED BY <1>5, <4>1, <4>2 DEF add_plain_param, add_string_param, GetOne
    <3> QED BY <3>1 DEF Copying
  <2> QED BY <2>1 DEF CopySays
<1>6. ASSUME NEW from \in Objects, NEW to \in Objects, s_params_copy(from, to) PROVE CopySays'
  <2>1. list[to] = <<>> /\ list' = list /\ call'.to = to
    BY <1>6 DEF s_params_copy, IInv, NobodysEntries, Idle, Copying
  <2> QED BY <2>1 DEF CopySays
<1>7. CASE UNCHANGED vars
  BY <1>7 DEF vars, CopySays, Copying, Says
<1> QED BY <1>1, <1>2, <1>3, <1>4, <1>5, <1>6, <1>7 DEF Next

-----------------------------------------------------------------------------
(* The steps of the lists are steps of the maps.                           *)

(* What a step leaves alone, but for its own object.                       *)
LEMMA OthersSame ==
  ASSUME IInv, UNCHANGED <<list, strings>>, NEW p \in Objects, p \in live <=> p \in live'
  PROVE  Map(p)' = Map(p)
BY SameMap

LEMMA MapsStutter ==
  ASSUME IInv, UNCHANGED <<live, list, strings, texts>>
  PROVE  UNCHANGED Maps!vars
BY OthersSame DEF Maps!vars

LEMMA CreateMaps ==
  ASSUME IInv, IInv', NEW o \in Objects, s_params_create(o)
  PROVE  Maps!Create(o)
<1> USE DEF s_params_create
<1>1. ASSUME NEW p \in Objects, p # o PROVE Map(p)' = Map(p)
  BY <1>1, OthersSame
<1>2. Map(o) = Null
  BY DEF Map
<1>3. list'[o] = <<>>
  BY DEF IInv, NobodysEntries, Copying, Idle
<1>4. Map(o)' = << >>
  <2>1. Map(o)' = [k \in {} |-> ValueIn(o, k)']
    BY <1>3 DEF Map
  <2>2. \A f : f = [k \in {} |-> f[k]] => f = << >>
    OBVIOUS
  <2> QED BY <2>1, <2>2
<1> QED BY <1>1, <1>2, <1>4 DEF Maps!Create

LEMMA DestroyMaps ==
  ASSUME IInv, IInv', NEW o \in Objects, s_params_destroy(o)
  PROVE  Maps!Destroy(o)
<1> USE DEF s_params_destroy
<1>1. Map(o) # Null
  BY MapsAreNotNull
<1>2. Map(o)' = Null
  BY DEF Map
<1>3. ASSUME NEW p \in Objects, p # o PROVE Map(p)' = Map(p)
  <2>1. list'[p] = list[p]
    BY <1>3 DEF IInv, TypeOK
  <2>2. ASSUME NEW i \in 1 .. Len(list[p]), IsString(list[p][i])
        PROVE  strings'[list[p][i].data] = strings[list[p][i].data]
    <3>1. list[p][i] \in Entries
      BY DEF IInv, TypeOK
    <3>2. list[p][i].data \in Blocks
      BY <2>2, <3>1, StringsAreBlocks
    <3>3. list[p][i].data \notin StringsOf(o)
      BY <1>3, <2>2 DEF StringsOf, IsString, IInv, StringsOwned, StringsNotShared
    <3> QED BY <3>2, <3>3
  <2> QED BY <1>3, <2>1, <2>2, SameMap
<1> QED BY <1>1, <1>2, <1>3 DEF Maps!Destroy

MapValues == Plain \cup Texts \cup {Null}
MapKeys   == Names \X Types

LEMMA PlainPuts ==
  ASSUME IInv, IInv', add_plain_param
  PROVE  \E o \in Objects, k \in MapKeys, v \in MapValues : Maps!Put(o, k, v)
<1>c. call \in [op : {"set"}, obj : live, left : Seq(Arguments)] /\ call.left # <<>>
  BY CallTypes DEF IInv, add_plain_param
<1>1. PICK a \in Arguments : a = Head(call.left)
  BY <1>c
<1>2. a.type \in PlainTypes /\ Store(call.obj, a.name, a.type, a.val)
      /\ UNCHANGED <<live, strings, texts>>
  BY <1>1 DEF add_plain_param
<1>3. PICK e : e = [name |-> a.name, type |-> a.type, data |-> a.val]
  OBVIOUS
<1>4. e \in Entries /\ e.name = a.name /\ e.type = a.type /\ e.data = a.val
  BY <1>2, <1>3, TypesAssumption DEF Arguments, Entries
<1>5. BringsItsString(e)
  BY <1>2, <1>4, TypesAssumption DEF BringsItsString, IsString
<1>6. call.obj \in live /\ call.obj \in Objects
  BY <1>c DEF IInv, TypeOK
<1>7. PICK n \in Nat : StoredAt(call.obj, e, n)
  BY <1>2, <1>4, <1>6, StoreStores DEF IInv, TypeOK
<1>0. PICK v : v = Says(e)'
  OBVIOUS
<1>8. Maps!Put(call.obj, Key(e), v)
  BY <1>0, <1>2, <1>4, <1>5, <1>6, <1>7, StorePuts
<1>9. Says(e)' \in MapValues /\ Key(e) \in MapKeys
  BY <1>2, <1>4, TypesAssumption DEF Says, Key, MapValues, MapKeys, Entries, Types
<1> QED BY <1>0, <1>6, <1>8, <1>9

LEMMA StringPuts ==
  ASSUME IInv, IInv', add_string_param
  PROVE  \E o \in Objects, k \in MapKeys, v \in MapValues : Maps!Put(o, k, v)
<1>c. call \in [op : {"set"}, obj : live, left : Seq(Arguments)] /\ call.left # <<>>
  BY CallTypes DEF IInv, add_string_param
<1>1. PICK a \in Arguments : a = Head(call.left)
  BY <1>c
<1>2. /\ a.type = StringType
      /\ \/ a.val = Null /\ Store(call.obj, a.name, StringType, Null) /\ UNCHANGED strings
         \/ /\ a.val # Null
            /\ \E b \in Blocks : Allocate(b, a.val) /\ Store(call.obj, a.name, StringType, b)
      /\ UNCHANGED <<live, texts>>
  BY <1>1 DEF add_string_param
<1>3. a.name \in Names /\ (a.val # Null => a.val \in Texts)
  BY <1>2, TypesAssumption DEF Arguments, Types
<1>4. PICK d \in Blocks \cup {Null} :
        /\ Store(call.obj, a.name, StringType, d)
        /\ d = Null => strings' = strings
        /\ d # Null => Allocate(d, a.val) /\ a.val \in Texts
  BY <1>2, <1>3, NullAssumption
<1>5. PICK e : e = [name |-> a.name, type |-> StringType, data |-> d]
  OBVIOUS
<1>6. e \in Entries /\ e.name = a.name /\ e.type = StringType /\ e.data = d
  BY <1>3, <1>5 DEF Entries
<1>7. BringsItsString(e)
  BY <1>4, <1>6 DEF BringsItsString, IsString, Allocate
<1>8. call.obj \in live /\ call.obj \in Objects
  BY <1>c DEF IInv, TypeOK
<1>9. PICK n \in Nat : StoredAt(call.obj, e, n)
  BY <1>4, <1>6, <1>8, StoreStores DEF IInv, TypeOK
<1>0. PICK v : v = Says(e)'
  OBVIOUS
<1>10. Maps!Put(call.obj, Key(e), v)
  BY <1>0, <1>2, <1>6, <1>7, <1>8, <1>9, StorePuts
<1>11. Says(e)' \in MapValues
  <2>1. CASE d = Null
    BY <1>6, <2>1 DEF Says, MapValues
  <2>2. CASE d # Null
    <3>1. strings'[d] = a.val /\ a.val \in Texts
      BY <1>4, <2>2 DEF Allocate, IInv, TypeOK
    <3>2. Says(e)' = strings'[d]
      BY <1>6, <2>2 DEF Says
    <3> QED BY <3>1, <3>2 DEF MapValues
  <2> QED BY <2>1, <2>2
<1>12. Key(e) \in MapKeys
  BY <1>3, <1>6 DEF Key, MapKeys, Types
<1> QED BY <1>0, <1>8, <1>10, <1>11, <1>12

MapQuestions == {[i \in 1 .. Len(q) |-> Question(q[i])] : q \in Questions}

(* s_params_get() answers up to the first argument that has no value.      *)
LEMMA GetReturnsGets ==
  ASSUME IInv, GotIsAsked, GetReturns
  PROVE  \E o \in Objects, asked \in MapQuestions : Maps!Get(o, asked)
<1>c. call \in [op : {"get"}, obj : live, asked : Questions, got : Seq(Entries)]
  BY CallTypes DEF IInv, GetReturns
<1>1. PICK o \in live : o = call.obj /\ o \in Objects
  BY <1>c DEF IInv, TypeOK
<1>2. PICK n \in Nat : n = Len(call.got)
  BY <1>c
<1>3. PICK m \in Nat : m = Len(call.asked)
  BY <1>c, CallsAssumption
<1>4. n <= m /\ \A k \in 1 .. n : Key(call.got[k]) = Question(call.asked[k])
  BY <1>2, <1>3 DEF GotIsAsked, GetReturns
<1>5. PICK asked : asked = [i \in 1 .. m |-> Question(call.asked[i])]
  OBVIOUS
<1>6. asked \in MapQuestions /\ Len(asked) = m
  BY <1>3, <1>5, <1>c DEF MapQuestions
<1>7. Map(o) = [k \in KeysOf(o) |-> ValueIn(o, k)] /\ Map(o) # Null
  BY MapIs, MapsAreNotNull DEF MapsSay
<1>8. ASSUME NEW i \in 1 .. n
      PROVE  asked[i] \in DOMAIN Map(o) /\ Map(o)[asked[i]] = Says(call.got[i])
  <2>1. PICK j \in 1 .. Len(list[o]) : call.got[i] = list[o][j]
    BY <1>1, <1>2 DEF IInv, GotIsListed, GetReturns
  <2>2. asked[i] = Key(list[o][j])
    BY <1>4, <1>5, <2>1
  <2>3. Key(list[o][j]) \in KeysOf(o) /\ Map(o)[Key(list[o][j])] = Says(list[o][j])
    BY MapIs DEF MapsSay, KeysOf
  <2> QED BY <1>7, <2>1, <2>2, <2>3
<1>9. ASSUME n < m PROVE asked[n + 1] \notin DOMAIN Map(o)
  <2> SUFFICES ASSUME NEW j \in 1 .. Len(list[o]), asked[n + 1] = Key(list[o][j]) PROVE FALSE
    BY <1>7 DEF KeysOf
  <2>1. Asked = call.asked[n + 1] /\ More
    BY <1>2, <1>3, <1>9 DEF Asked, More
  <2>2. asked[n + 1] = <<Asked.name, Asked.type>>
    BY <1>5, <1>9, <2>1 DEF Question
  <2>3. list[o][j].name = Asked.name /\ list[o][j].type = Asked.type
    BY <2>2 DEF Key
  <2>4. list[o][j].type \in Types
    <3>1. list[o][j] \in Entries
      BY <1>1 DEF IInv, TypeOK
    <3> QED BY <3>1 DEF Entries, Types
  <2>5. Found(o, Asked.name, Asked.type) = {}
    BY <1>1, <2>1, <2>3, <2>4 DEF GetReturns
  <2>6. \A i \in 1 .. j - 1 : list[o][i].name # Asked.name \/ list[o][i].type # Asked.type
    <3> SUFFICES ASSUME NEW i \in 1 .. j - 1,
                        list[o][i].name = Asked.name, list[o][i].type = Asked.type
                 PROVE  FALSE
      OBVIOUS
    <3>1. i \in 1 .. Len(list[o]) /\ i # j
      BY <1>1 DEF IInv, TypeOK
    <3> QED BY <1>1, <2>3, <3>1 DEF IInv, KeysUnique
  <2> QED BY <2>3, <2>5, <2>6 DEF Found
<1>10. texts' = [i \in 1 .. n |-> Map(o)[asked[i]]]
  BY <1>2, <1>8 DEF GetReturns
<1>11. ASSUME NEW p \in Objects PROVE Map(p)' = Map(p)
  BY OthersSame DEF GetReturns
<1>12. Maps!Get(o, asked)
  <2>1. n \in 0 .. Len(asked)
    BY <1>4, <1>6
  <2>2. n < Len(asked) => asked[n + 1] \notin DOMAIN Map(o)
    BY <1>6, <1>9
  <2> QED BY <1>1, <1>7, <1>8, <1>10, <1>11, <2>1, <2>2 DEF Maps!Get
<1> QED BY <1>1, <1>6, <1>12

(* A copy is returned with the map of the object it was made of.           *)
LEMMA CopyReturnsCopies ==
  ASSUME IInv, IInv', CopySays, CopyReturns
  PROVE  \E from, to \in Objects : Maps!Copy(from, to)
<1>c. call \in [op : {"copy"}, from : live, to : Objects \ live, next : Nat \ {0}]
  BY CallTypes DEF IInv, CopyReturns
<1>1. PICK from \in live, to \in Objects \ live : from = call.from /\ to = call.to /\ from \in Objects
  BY <1>c DEF IInv, TypeOK
<1>2. live' = live \cup {to} /\ UNCHANGED <<list, strings, texts>>
  BY <1>1 DEF CopyReturns
<1>3. Len(list[to]) = Len(list[from])
  <2>1. Len(list[to]) = call.next - 1 /\ call.next - 1 <= Len(list[from]) /\ call.next > Len(list[from])
    BY <1>1 DEF IInv, CopyFollows, CopyReturns
  <2>2. Len(list[from]) \in Nat /\ call.next \in Nat
    BY <1>1, <1>c DEF IInv, TypeOK
  <2> QED BY <2>1, <2>2
<1>4. \A j \in 1 .. Len(list[to]) : /\ Key(list[to][j]) = Key(list[from][j])
                                    /\ Says(list[to][j]) = Says(list[from][j])
  BY <1>1 DEF IInv, CopyFollows, CopySays, CopyReturns, Key
<1>5. Map(from) = [k \in KeysOf(from) |-> ValueIn(from, k)] /\ Map(from) # Null
  BY MapIs, MapsAreNotNull DEF MapsSay
<1>6. Map(to) = Null
  BY <1>1 DEF Map
<1>7. /\ Map(to)' = [k \in KeysOf(to)' |-> ValueIn(to, k)']
      /\ \A i \in 1 .. Len(list'[to]) : Map(to)'[Key(list[to][i])'] = Says(list[to][i])'
  <2>1. (IInv => MapsSay)'
    BY MapIs, PTL
  <2> QED BY <1>2, <2>1 DEF MapsSay
<1>8. KeysOf(to)' = KeysOf(from)
  <2>1. KeysOf(to)' = KeysOf(to)
    BY <1>2 DEF KeysOf, Key
  <2> QED BY <1>3, <1>4, <2>1 DEF KeysOf
<1>9. ASSUME NEW k \in KeysOf(from) PROVE Map(to)'[k] = Map(from)[k]
  <2>1. PICK j \in 1 .. Len(list[from]) : k = Key(list[from][j])
    BY DEF KeysOf
  <2>2. Map(from)[k] = Says(list[from][j])
    BY <2>1, MapIs DEF MapsSay
  <2>3. Key(list[to][j])' = k /\ Says(list[to][j])' = Says(list[to][j])
    BY <1>2, <1>3, <1>4, <2>1 DEF Key, Says
  <2>4. Map(to)'[k] = Says(list[to][j])'
    BY <1>2, <1>3, <1>7, <2>1, <2>3
  <2> QED BY <1>3, <1>4, <2>1, <2>2, <2>3, <2>4
<1>10. Map(to)' = Map(from)
  <2>1. \A k \in KeysOf(from) : ValueIn(to, k)' = Map(from)[k]
    BY <1>7, <1>8, <1>9
  <2>2. Map(from) = [k \in KeysOf(from) |-> Map(from)[k]]
    BY <1>5
  <2> QED BY <1>7, <1>8, <2>1, <2>2
<1>11. ASSUME NEW p \in Objects, p # to PROVE Map(p)' = Map(p)
  BY <1>2, <1>11, OthersSame
<1>12. Maps!Copy(from, to)
  BY <1>1, <1>2, <1>5, <1>6, <1>10, <1>11 DEF Maps!Copy
<1> QED BY <1>1, <1>12

(* What a copy in progress stores belongs to nobody yet.                   *)
LEMMA CopyOneStutters ==
  ASSUME IInv, CopyOne
  PROVE  UNCHANGED Maps!vars
<1>c. call \in [op : {"copy"}, from : live, to : Objects \ live, next : Nat \ {0}]
  BY CallTypes DEF IInv, CopyOne
<1>1. PICK e \in Entries, n \in Nat : StoredAt(call.to, e, n) /\ BringsItsString(e)
  BY CopyOneCopies
<1>2. live' = live /\ texts' = texts
  BY DEF CopyOne
<1>3. ASSUME NEW p \in Objects PROVE Map(p)' = Map(p)
  <2>1. CASE p = call.to
    BY <1>2, <1>c, <2>1 DEF Map
  <2>2. CASE p # call.to
    <3>1. list'[p] = list[p]
      BY <1>1, <2>2 DEF StoredAt
    <3> QED BY <1>1, <1>2, <3>1, OtherStringsStay, SameMap
  <2> QED BY <2>1, <2>2
<1> QED BY <1>2, <1>3 DEF Maps!vars

LEMMA MapsStep ==
  ASSUME IInv, GotIsAsked, CopySays, IInv', [Next]_vars
  PROVE  [Maps!Next]_(Maps!vars)
<1>1. CASE \E o \in Objects : s_params_create(o) \/ s_params_destroy(o)
  BY <1>1, CreateMaps, DestroyMaps DEF Maps!Next
<1>2. CASE add_plain_param \/ add_string_param
  BY <1>2, PlainPuts, StringPuts DEF Maps!Next, MapKeys, MapValues
<1>3. CASE GetReturns
  BY <1>3, GetReturnsGets DEF Maps!Next, MapQuestions, Question
<1>4. CASE CopyReturns
  BY <1>4, CopyReturnsCopies DEF Maps!Next
<1>5. CASE CopyOne
  BY <1>5, CopyOneStutters
<1>6. ASSUME NEW o \in Objects, NEW args, s_params_set(o, args) \/ s_params_get(o, args)
      PROVE  UNCHANGED Maps!vars
  BY <1>6, MapsStutter DEF s_params_set, s_params_get
<1>7. ASSUME NEW from \in Objects, NEW to \in Objects, s_params_copy(from, to)
      PROVE  UNCHANGED Maps!vars
  BY <1>7, MapsStutter DEF s_params_copy
<1>8. CASE SetReturns \/ GetOne \/ UNCHANGED vars
  BY <1>8, MapsStutter DEF SetReturns, GetOne, vars
<1> QED BY <1>1, <1>2, <1>3, <1>4, <1>5, <1>6, <1>7, <1>8 DEF Next

(* For any objects, types, texts and calls the lists of params.c implement *)
(* one map for each object: a set changes one key, a copy is a map of its  *)
(* own with the values of the first, and a get answers with what was set   *)
(* last, up to the first argument that has no value.                       *)
THEOREM ListsImplementMaps == Spec => ImplementsMaps
<1>1. Init => GotIsAsked /\ CopySays /\ Maps!Init
  <2> SUFFICES ASSUME Init PROVE GotIsAsked /\ CopySays /\ Maps!Init
    OBVIOUS
  <2>1. GotIsAsked /\ CopySays
    BY DEF Init, Idle, GotIsAsked, CopySays, Getting, Copying
  <2>2. \A o \in Objects : Map(o) = Null
    BY DEF Init, Map
  <2> QED BY <2>1, <2>2 DEF Init, Maps!Init
<1>2. IInv /\ GotIsAsked /\ CopySays /\ IInv' /\ [Next]_vars =>
        GotIsAsked' /\ CopySays' /\ [Maps!Next]_(Maps!vars)
  BY GotIsAskedStep, CopySaysStep, MapsStep
<1> QED BY <1>1, <1>2, Invariant, PTL DEF Spec, ImplementsMaps, Maps!Spec
=============================================================================
