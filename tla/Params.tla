------------------------------- MODULE Params -------------------------------
(***************************************************************************)
(* The parameter lists of src/params.c: lists of (name, type, data) that   *)
(* s_params_set() and s_params_get() walk for each of their arguments, and *)
(* the strings such a list owns.                                           *)
(*                                                                         *)
(* A call takes a step for each argument, and s_params_copy() one for each *)
(* entry; nothing else can happen in between.  Integers, floats, pointers  *)
(* and functions are values, a string is a heap block with a text.  The    *)
(* copies of the names, which s_params_destroy() leaves behind, and malloc *)
(* failure are left out.                                                   *)
(***************************************************************************)
EXTENDS Naturals, Sequences

CONSTANTS
  Objects,      \* s_params structures
  Names,
  PlainTypes,   \* the types whose data is a value
  StringType,   \* S_STRING_PARAM_TYPE
  BadType,      \* no type of simage.h
  Plain,        \* values of plain types
  Texts,        \* texts of strings
  Blocks,       \* heap blocks for strings
  Calls,        \* the arguments clients give s_params_set()
  Questions,    \* the arguments clients give s_params_get()
  Null,         \* the null pointer
  Free          \* no text: the block is free

Types == PlainTypes \cup {StringType}
Arguments ==
  [name : Names, type : PlainTypes \cup {BadType}, val : Plain]
    \cup [name : Names, type : {StringType}, val : Texts \cup {Null}]
Entries ==
  [name : Names, type : PlainTypes, data : Plain]
    \cup [name : Names, type : {StringType}, data : Blocks \cup {Null}]

Idle == [op |-> "none"]

ASSUME TypesAssumption == StringType \notin PlainTypes /\ BadType \notin Types
ASSUME CallsAssumption ==
  /\ Calls \subseteq Seq(Arguments)
  /\ Questions \subseteq Seq([name : Names, type : Types \cup {BadType}])
(* The null pointer that stands for no map is no map.                      *)
ASSUME MapAssumption ==
  \A keys \in SUBSET (Names \X Types) : Null \notin [keys -> Plain \cup Texts \cup {Null}]
ASSUME NullAssumption == Null \notin Blocks \cup Texts \cup Objects /\ Free \notin Texts \cup {Null}

VARIABLES
  live,         \* the objects that exist
  list,         \* list[o]: the entries from o.list on
  strings,      \* strings[b]: the text in block b
  call,         \* the call in progress
  answer,       \* what the last s_params_get() stored through its pointers
  texts,        \* history: what the strings among them said then
  answerer,     \* history: the object asked
  overwritten   \* history: strings whose pointer s_params_set() overwrote

vars == <<live, list, strings, call, answer, texts, answerer, overwritten>>

Init ==
  /\ live = {}
  /\ list = [o \in Objects |-> <<>>]
  /\ strings = [b \in Blocks |-> Free]
  /\ call = Idle
  /\ answer = <<>> /\ texts = <<>> /\ answerer = Null
  /\ overwritten = {}

-----------------------------------------------------------------------------
(* Lists.                                                                  *)

Says(e) == IF e.type = StringType /\ e.data # Null THEN strings[e.data] ELSE e.data

(* find_param() stops at the first entry with this name and this type.     *)
Found(o, name, type) ==
  {i \in 1 .. Len(list[o]) :
     /\ list[o][i].name = name /\ list[o][i].type = type
     /\ \A j \in 1 .. i-1 : list[o][j].name # name \/ list[o][j].type # type}

StringsOf(o) ==
  {list[o][i].data : i \in {j \in 1 .. Len(list[o]) : list[o][j].type = StringType}} \ {Null}

ReplacesAnyType(o, name, type, data) ==
  \/ \E i \in 1 .. Len(list[o]) :
       /\ list[o][i].name = name
       /\ list' = [list EXCEPT ![o][i] = [name |-> name, type |-> type, data |-> data]]
  \/ /\ \A i \in 1 .. Len(list[o]) : list[o][i].name # name
     /\ list' = [list EXCEPT ![o] = Append(@, [name |-> name, type |-> type, data |-> data])]

(* find_param() with allocnew, and the assignment its callers make.        *)
Store(o, name, type, data) ==
  \/ \E i \in Found(o, name, type) :
       list' = [list EXCEPT ![o][i] = [name |-> name, type |-> type, data |-> data]]
  \/ /\ Found(o, name, type) = {}
     /\ list' = [list EXCEPT ![o] = Append(@, [name |-> name, type |-> type, data |-> data])]

Allocate(b, text) == strings[b] = Free /\ strings' = [strings EXCEPT ![b] = text]

-----------------------------------------------------------------------------
(* Creation and destruction.                                               *)

s_params_create(o) ==
  /\ call = Idle /\ o \notin live
  /\ live' = live \cup {o}
  /\ UNCHANGED <<list, strings, call, answer, texts, answerer, overwritten>>

s_params_destroy(o) ==
  /\ call = Idle /\ o \in live
  /\ live' = live \ {o}
  /\ strings' = [b \in Blocks |-> IF b \in StringsOf(o) THEN Free ELSE strings[b]]
  /\ list' = [list EXCEPT ![o] = <<>>]
  /\ answer' = IF o = answerer THEN <<>> ELSE answer
  /\ answerer' = IF o = answerer THEN Null ELSE answerer
  /\ UNCHANGED <<call, texts, overwritten>>

-----------------------------------------------------------------------------
(* s_params_set(o, name, type, val, ..., NULL).                            *)

s_params_set(o, args) ==
  /\ call = Idle /\ o \in live
  /\ call' = [op |-> "set", obj |-> o, left |-> args]
  /\ UNCHANGED <<live, list, strings, answer, texts, answerer, overwritten>>

Setting == call.op = "set"

add_plain_param ==
  /\ Setting /\ call.left # <<>>
  /\ LET a == Head(call.left) IN
       a.type \in PlainTypes /\ Store(call.obj, a.name, a.type, a.val)
  /\ call' = [call EXCEPT !.left = Tail(@)]
  /\ UNCHANGED <<live, strings, answer, texts, answerer, overwritten>>

FreesTheOld ==
  /\ Setting /\ call.left # <<>>
  /\ LET a == Head(call.left)
         old == {list[call.obj][i].data : i \in Found(call.obj, a.name, StringType)} \ {Null}
         freed == [b \in Blocks |-> IF b \in old THEN Free ELSE strings[b]] IN
       /\ a.type = StringType
       /\ \/ /\ a.val = Null
             /\ Store(call.obj, a.name, StringType, Null)
             /\ strings' = freed
          \/ /\ a.val # Null
             /\ \E b \in Blocks :
                  /\ freed[b] = Free
                  /\ strings' = [freed EXCEPT ![b] = a.val]
                  /\ Store(call.obj, a.name, StringType, b)
  /\ call' = [call EXCEPT !.left = Tail(@)]
  /\ UNCHANGED <<live, answer, texts, answerer, overwritten>>

(* The string an entry pointed to before is not freed.                     *)
add_string_param ==
  /\ Setting /\ call.left # <<>>
  /\ LET a == Head(call.left) IN
       /\ a.type = StringType
       /\ \/ a.val = Null /\ Store(call.obj, a.name, StringType, Null) /\ UNCHANGED strings
          \/ /\ a.val # Null
             /\ \E b \in Blocks :
                  Allocate(b, a.val) /\ Store(call.obj, a.name, StringType, b)
       /\ overwritten' = overwritten \cup
            ({list[call.obj][i].data : i \in Found(call.obj, a.name, StringType)} \ {Null})
  /\ call' = [call EXCEPT !.left = Tail(@)]
  /\ UNCHANGED <<live, answer, texts, answerer>>

(* The terminating NULL, or "whoa, get out of here" at an unknown type.    *)
SetReturns ==
  /\ Setting
  /\ call.left # <<>> => Head(call.left).type \notin Types
  /\ call' = Idle
  /\ UNCHANGED <<live, list, strings, answer, texts, answerer, overwritten>>

-----------------------------------------------------------------------------
(* s_params_get(o, name, type, pointer, ..., NULL).                        *)

s_params_get(o, args) ==
  /\ call = Idle /\ o \in live
  /\ call' = [op |-> "get", obj |-> o, asked |-> args, got |-> <<>>]
  /\ UNCHANGED <<live, list, strings, answer, texts, answerer, overwritten>>

Getting == call.op = "get"

More == Len(call.got) < Len(call.asked)
Asked == call.asked[Len(call.got) + 1]

GetOne ==
  /\ Getting /\ More
  /\ Asked.type \in Types
  /\ \E i \in Found(call.obj, Asked.name, Asked.type) :
       call' = [call EXCEPT !.got = Append(@, list[call.obj][i])]
  /\ UNCHANGED <<live, list, strings, answer, texts, answerer, overwritten>>

(* Returns numok, the number of pointers it has stored through: all of     *)
(* them, or those before the first that was not found.                     *)
GetReturns ==
  /\ Getting
  /\ More => Asked.type \notin Types \/ Found(call.obj, Asked.name, Asked.type) = {}
  /\ answer' = call.got
  /\ texts' = [i \in 1 .. Len(call.got) |-> Says(call.got[i])]
  /\ answerer' = call.obj
  /\ call' = Idle
  /\ UNCHANGED <<live, list, strings, overwritten>>

-----------------------------------------------------------------------------
(* s_params_copy(): the new object is not live before it is returned.      *)

s_params_copy(from, to) ==
  /\ call = Idle /\ from \in live /\ to \notin live
  /\ call' = [op |-> "copy", from |-> from, to |-> to, next |-> 1]
  /\ UNCHANGED <<live, list, strings, answer, texts, answerer, overwritten>>

Copying == call.op = "copy"

SharesString ==
  /\ Copying /\ call.next <= Len(list[call.from])
  /\ LET e == list[call.from][call.next] IN Store(call.to, e.name, e.type, e.data)
  /\ call' = [call EXCEPT !.next = @ + 1]
  /\ UNCHANGED <<live, strings, answer, texts, answerer, overwritten>>

CopyOne ==
  /\ Copying /\ call.next <= Len(list[call.from])
  /\ LET e == list[call.from][call.next] IN
       \/ /\ e.type \in PlainTypes \/ e.data = Null
          /\ Store(call.to, e.name, e.type, e.data)
          /\ UNCHANGED strings
       \/ /\ e.type = StringType /\ e.data # Null
          /\ \E b \in Blocks :
               Allocate(b, strings[e.data]) /\ Store(call.to, e.name, e.type, b)
  /\ call' = [call EXCEPT !.next = @ + 1]
  /\ UNCHANGED <<live, answer, texts, answerer, overwritten>>

CopyReturns ==
  /\ Copying /\ call.next > Len(list[call.from])
  /\ live' = live \cup {call.to}
  /\ call' = Idle
  /\ UNCHANGED <<list, strings, answer, texts, answerer, overwritten>>

Next ==
  \/ \E o \in Objects : s_params_create(o) \/ s_params_destroy(o)
  \/ \E o \in Objects, args \in Calls : s_params_set(o, args)
  \/ add_plain_param \/ add_string_param \/ SetReturns
  \/ \E o \in Objects, args \in Questions : s_params_get(o, args)
  \/ GetOne \/ GetReturns
  \/ \E from, to \in Objects : s_params_copy(from, to)
  \/ CopyOne \/ CopyReturns

Spec == Init /\ [][Next]_vars

-----------------------------------------------------------------------------
(* Properties.                                                             *)

(* The lists, the heap of strings and the call in progress have their      *)
(* types.                                                                  *)
CallsInProgress ==
  [op : {"set"}, obj : live, left : Seq(Arguments)]
    \cup [op : {"get"}, obj : live, asked : Questions, got : Seq(Entries)]
    \cup [op : {"copy"}, from : live, to : Objects \ live, next : Nat \ {0}]
TypeOK ==
  /\ live \subseteq Objects
  /\ list \in [Objects -> Seq(Entries)]
  /\ strings \in [Blocks -> Texts \cup {Free}]
  /\ call \in {Idle} \cup CallsInProgress
  /\ answer \in Seq(Entries)
  /\ answerer \in live \cup {Null}
  /\ overwritten \subseteq Blocks

(* A list has one entry at most for a name and a type, whatever mixture of *)
(* sets and copies made it: an entry is never shadowed by an older one.    *)
KeysUnique ==
  \A o \in Objects : \A i, j \in 1 .. Len(list[o]) :
    list[o][i].name = list[o][j].name /\ list[o][i].type = list[o][j].type => i = j

(* Every string is allocated and belongs to one entry of one object only:  *)
(* destroying a copy leaves the original's strings alone, and no string is *)
(* freed twice; the strings the library loses are those s_params_set()     *)
(* overwrote the pointer to.                                               *)
StringsAllocated ==
  \A o \in Objects : \A i \in 1 .. Len(list[o]) :
    list[o][i].type = StringType /\ list[o][i].data # Null => strings[list[o][i].data] # Free
StringsNotShared ==
  \A o, p \in Objects : \A i \in 1 .. Len(list[o]), j \in 1 .. Len(list[p]) :
    /\ list[o][i].type = StringType /\ list[p][j].type = StringType
    /\ list[o][i].data # Null /\ list[o][i].data = list[p][j].data
    => o = p /\ i = j
StringsAccounted ==
  \A b \in Blocks : strings[b] # Free =>
    b \in overwritten \/ \E o \in Objects : b \in StringsOf(o)
StringsOwned == StringsAllocated /\ StringsNotShared /\ StringsAccounted

(* A string that s_params_get() handed out stays as it was until its       *)
(* object is destroyed, also when the parameter is set again: a client     *)
(* such as mpeg2enc_movie_create() keeps the pointer without copying.      *)
AnswersStay ==
  \A i \in 1 .. Len(answer) : Says(answer[i]) = texts[i]

(* The lists implement one map from names and types to values for each     *)
(* object that the client has.                                             *)
Key(e) == <<e.name, e.type>>
ValueIn(o, k) == Says(CHOOSE e \in {list[o][i] : i \in 1 .. Len(list[o])} : Key(e) = k)
Map(o) ==
  IF o \notin live THEN Null
  ELSE [k \in {Key(list[o][i]) : i \in 1 .. Len(list[o])} |-> ValueIn(o, k)]

Maps == INSTANCE ParamMaps WITH
  Keys <- Names \X Types, Values <- Plain \cup Texts \cup {Null}, NoMap <- Null,
  Questions <- {[i \in 1 .. Len(q) |-> <<q[i].name, q[i].type>>] : q \in Questions},
  maps <- [o \in Objects |-> Map(o)], answer <- texts
ImplementsMaps == Maps!Spec
=============================================================================
