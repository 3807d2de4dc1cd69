------------------------------- MODULE Loaders -------------------------------
(***************************************************************************)
(* The loader registry of src/simage.c: the singly linked list of loader   *)
(* nodes, its registration and removal, the search by file header and the  *)
(* two entry points that use it, simage_read_image() and                   *)
(* simage_check_supported(), with the global error text they share.        *)
(*                                                                         *)
(* The library has no threads, but it calls out: identify_func, load_func  *)
(* and error_func of a plugin are client code, and client code may call    *)
(* the library again (a wrapper format reads its payload through           *)
(* simage_read_image(), a plugin installs or retires another one).  So a   *)
(* search is not atomic: a stack of activation records holds the calls in  *)
(* progress and the list may change between two steps of one of them.      *)
(*                                                                         *)
(* add_internal_loaders() runs at the head of every entry point and only   *)
(* the first call does anything; here it is the first Len(Builtins) steps, *)
(* one per add_loader() call it makes.                                     *)
(***************************************************************************)
EXTENDS Naturals, Sequences

CONSTANTS
  Plugins,      \* nodes a client may add and remove (malloc may reuse one)
  Callbackers,  \* the plugins whose callbacks call the library
  Builtins,     \* the internal loaders, in the order of add_internal_loaders()
  Preferred,    \* the internal loaders registered with addbefore = 1
  Files,        \* the file names clients pass
  Readable,     \* those fopen() and fread() get a header from
  Recognises,   \* the pairs <<loader, file>> whose identify_func says yes
  Silent,       \* loaders whose error_func has no text for some error codes
  MaxDepth,     \* bound on nested calls
  NoLoader,     \* the null pointer
  Cleared,      \* simage_error_msg[0] = 0
  Unsupported,  \* "Unsupported image format."
  Unasked       \* no search, or no read, has completed yet

BuiltinSet == {Builtins[k] : k \in 1..Len(Builtins)}
Nodes == Plugins \cup BuiltinSet

ASSUME BuiltinsAssumption ==
  /\ Builtins \in Seq(BuiltinSet)
  /\ \A i, j \in 1..Len(Builtins) : Builtins[i] = Builtins[j] => i = j
  /\ Plugins \cap BuiltinSet = {}
ASSUME NullAssumption == NoLoader \notin Nodes
ASSUME SetsAssumption ==
  /\ Callbackers \subseteq Plugins
  /\ Preferred \subseteq BuiltinSet
  /\ Silent \subseteq Nodes
  /\ Readable \subseteq Files
  /\ Recognises \subseteq Nodes \X Files
ASSUME DepthAssumption == MaxDepth \in Nat \ {0}
ASSUME TextAssumption == {Cleared, Unsupported} \cap Nodes = {}

VARIABLES
  first_loader, \* head of the list
  last_loader,  \* tail of the list
  next,         \* next[n]: the next field of node n
  allocated,    \* nodes whose memory is valid: static ones and live mallocs
  installed,    \* how many internal loaders add_internal_loaders() has added
  simage_error_msg,
  stack,        \* calls in progress, innermost last
  order,        \* history: the registrations as the clients issued them
  override,     \* history: plugins registered with addbefore = 1
  found,        \* history: the last answer of find_loader()
  lastRead      \* history: how the last simage_read_image() ended

list    == <<first_loader, last_loader, next>>
history == <<order, override, found, lastRead>>
vars    == <<list, allocated, installed, simage_error_msg, stack, history>>

InitialisedLibrary == installed = Len(Builtins)
Top        == stack[Len(stack)]
Return     == SubSeq(stack, 1, Len(stack) - 1)
SetTop(r)  == [stack EXCEPT ![Len(stack)] = r]

(* Client code has control: no call is running, or a plugin's callback is. *)
ClientHasControl ==
  /\ InitialisedLibrary
  /\ stack # <<>> => Top.at \in {"identify", "load"} /\ Top.cursor \in Callbackers

Init ==
  /\ first_loader = NoLoader /\ last_loader = NoLoader
  /\ next = [n \in Nodes |-> NoLoader]
  /\ allocated = BuiltinSet
  /\ installed = 0
  /\ simage_error_msg = Cleared
  /\ stack = <<>>
  /\ order = <<>> /\ override = {} /\ found = Unasked /\ lastRead = Unasked

-----------------------------------------------------------------------------
(* Registration and removal.                                               *)

ToEmptyList(l) ==
  /\ first_loader = NoLoader
  /\ first_loader' = l /\ last_loader' = l
  /\ next' = [next EXCEPT ![l] = NoLoader]

AtHead(l) ==
  /\ first_loader # NoLoader
  /\ next' = [next EXCEPT ![l] = first_loader]
  /\ first_loader' = l
  /\ UNCHANGED last_loader

StaleNextAtTail(l) ==
  /\ first_loader # NoLoader
  /\ next' = [next EXCEPT ![last_loader] = l]
  /\ last_loader' = l
  /\ UNCHANGED first_loader

AtTail(l) ==
  /\ first_loader # NoLoader
  /\ next' = [next EXCEPT ![l] = NoLoader, ![last_loader] = l]
  /\ last_loader' = l
  /\ UNCHANGED first_loader

add_loader(l, addbefore) ==
  /\ \/ ToEmptyList(l)
     \/ addbefore /\ AtHead(l)
     \/ ~addbefore /\ AtTail(l)
  /\ order' = IF addbefore THEN <<l>> \o order ELSE Append(order, l)

add_internal_loaders ==
  /\ installed < Len(Builtins)
  /\ LET l == Builtins[installed + 1] IN add_loader(l, l \in Preferred)
  /\ installed' = installed + 1
  /\ UNCHANGED <<allocated, simage_error_msg, stack, override, found, lastRead>>

(* The same without the call that puts the internal loaders in first. *)
AddBeforeBuiltins(l, addbefore) ==
  /\ stack = <<>>
  /\ l \in Plugins \ allocated
  /\ allocated' = allocated \cup {l}
  /\ add_loader(l, addbefore)
  /\ override' = IF addbefore THEN override \cup {l} ELSE override
  /\ UNCHANGED <<installed, simage_error_msg, stack, found, lastRead>>

simage_add_loader(l, addbefore) ==
  /\ ClientHasControl
  /\ l \in Plugins \ allocated
  /\ allocated' = allocated \cup {l}
  /\ add_loader(l, addbefore)
  /\ override' = IF addbefore THEN override \cup {l} ELSE override
  /\ UNCHANGED <<installed, simage_error_msg, stack, found, lastRead>>

(* The removal loop finds h, and prev, null at the head.  Only a handle    *)
(* that is not in the list fails the assertion there, and none is passed.  *)
InList(h) == first_loader = h \/ \E p \in allocated : next[p] = h

Predecessor(h) ==
  IF first_loader = h THEN NoLoader
  ELSE CHOOSE p \in allocated : next[p] = h

KeepsLast(h) ==
  /\ UNCHANGED last_loader
  /\ IF first_loader = h
     THEN first_loader' = next[h] /\ UNCHANGED next
     ELSE next' = [next EXCEPT ![Predecessor(h)] = next[h]] /\ UNCHANGED first_loader

KeepsPredecessor(h) ==
  /\ last_loader' = IF last_loader = h THEN Predecessor(h) ELSE last_loader
  /\ IF first_loader = h THEN first_loader' = next[h] ELSE UNCHANGED first_loader
  /\ UNCHANGED next

Unlink(h) ==
  /\ last_loader' = IF last_loader = h THEN Predecessor(h) ELSE last_loader
  /\ IF first_loader = h
     THEN first_loader' = next[h] /\ UNCHANGED next
     ELSE next' = [next EXCEPT ![Predecessor(h)] = next[h]] /\ UNCHANGED first_loader

PositionOf(h) == CHOOSE i \in DOMAIN order : order[i] = h

(* A callback may remove the very loader it was called by: the calls in    *)
(* progress that wait for it go on in freed memory.                        *)
simage_remove_loader(h) ==
  /\ ClientHasControl
  /\ h \in Plugins \cap allocated
  /\ InList(h)
  /\ Unlink(h)
  /\ allocated' = allocated \ {h}
  /\ order' = [i \in 1..(Len(order) - 1) |->
                 IF i < PositionOf(h) THEN order[i] ELSE order[i + 1]]
  /\ override' = override \ {h}
  /\ stack' = [i \in DOMAIN stack |->
                 [stack[i] EXCEPT !.present = @ \ {h},
                                  !.stray = @ \/ stack[i].cursor = h]]
  /\ UNCHANGED <<installed, simage_error_msg, found, lastRead>>

-----------------------------------------------------------------------------
(* The search and the calls built on it.  A frame is at "identify" while   *)
(* identify_func of its cursor runs, at "load" while load_func does, and   *)
(* at "nomatch" when the walk has come to the end; present is history: the *)
(* loaders that have been registered ever since the walk began.  A call is *)
(* stray once the loader its cursor points to has been removed under it:   *)
(* what it reads through that pointer is freed memory, so anything, and so *)
(* is what it reads through the pointers it got that way.                  *)

Frame(op, f, at, l) ==
  [op |-> op, file |-> f, at |-> at, cursor |-> l,
   present |-> {order[i] : i \in DOMAIN order}, stray |-> FALSE]

(* A pointer read through the cursor, true when its node is there.         *)
ReadPointer(true) == IF Top.stray THEN Nodes \cup {NoLoader} ELSE {true}

WalkTo(n) ==
  stack' = IF n = NoLoader
           THEN SetTop([Top EXCEPT !.at = "nomatch", !.cursor = NoLoader])
           ELSE SetTop([Top EXCEPT !.cursor = n])

(* fopen(), fread(), then the head of the list *)
StartOfWalk(op, f) ==
  IF f \in Readable /\ first_loader # NoLoader
  THEN Frame(op, f, "identify", first_loader)
  ELSE Frame(op, f, "nomatch", NoLoader)

KeepsOldMessage(f) ==
  /\ ClientHasControl
  /\ Len(stack) < MaxDepth
  /\ stack' = Append(stack, StartOfWalk("read", f))
  /\ UNCHANGED <<list, allocated, installed, history, simage_error_msg>>

simage_read_image(f) ==
  /\ ClientHasControl
  /\ Len(stack) < MaxDepth
  /\ simage_error_msg' = Cleared
  /\ stack' = Append(stack, StartOfWalk("read", f))
  /\ UNCHANGED <<list, allocated, installed, history>>

simage_check_supported(f) ==
  /\ ClientHasControl
  /\ Len(stack) < MaxDepth
  /\ stack' = Append(stack, StartOfWalk("check", f))
  /\ UNCHANGED <<list, allocated, installed, simage_error_msg, history>>

FoundLoader(l) == found' = [file |-> Top.file, loader |-> l]

(* A walk that takes the next field twice before asking again.             *)
SkipsOne ==
  /\ stack # <<>> /\ Top.at = "identify"
  /\ <<Top.cursor, Top.file>> \notin Recognises
  /\ LET n == next[Top.cursor]
     IN WalkTo(IF n = NoLoader THEN NoLoader ELSE next[n])
  /\ UNCHANGED <<list, allocated, installed, simage_error_msg, history>>

(* identify_func answers no: the next field is read after the callback.    *)
TryNext ==
  /\ stack # <<>> /\ Top.at = "identify"
  /\ <<Top.cursor, Top.file>> \notin Recognises
  /\ \E n \in ReadPointer(next[Top.cursor]) : WalkTo(n)
  /\ UNCHANGED <<list, allocated, installed, simage_error_msg, history>>

(* find_loader() returns its cursor; a read calls load_func through it.    *)
Recognised ==
  /\ stack # <<>> /\ Top.at = "identify"
  /\ <<Top.cursor, Top.file>> \in Recognises
  /\ FoundLoader(Top.cursor)
  /\ \/ /\ Top.op = "read"
        /\ \E n \in ReadPointer(Top.cursor) \ {NoLoader} :
             stack' = SetTop([Top EXCEPT !.at = "load", !.cursor = n])
     \/ Top.op = "check" /\ stack' = Return
  /\ UNCHANGED <<list, allocated, installed, simage_error_msg, order, override, lastRead>>

Outcome(how) == lastRead' = [how |-> how, loader |-> Top.cursor]

NotRecognised ==
  /\ stack # <<>> /\ Top.at = "nomatch"
  /\ FoundLoader(NoLoader)
  /\ stack' = Return
  /\ \/ /\ Top.op = "read"
        /\ simage_error_msg' = Unsupported
        /\ Outcome("unsupported")
     \/ Top.op = "check" /\ UNCHANGED <<simage_error_msg, lastRead>>
  /\ UNCHANGED <<list, allocated, installed, order, override>>

LoadSucceeds ==
  /\ stack # <<>> /\ Top.at = "load"
  /\ stack' = Return
  /\ Outcome("loaded")
  /\ UNCHANGED <<list, allocated, installed, simage_error_msg, order, override, found>>

(* error_func writes its text into simage_error_msg, or nothing at all     *)
(* when its switch has no case for the error code.                         *)
LoadFails ==
  /\ stack # <<>> /\ Top.at = "load"
  /\ stack' = Return
  /\ \E n \in ReadPointer(Top.cursor) \ {NoLoader} :
       \/ simage_error_msg' = n
       \/ n \in Silent /\ UNCHANGED simage_error_msg
  /\ Outcome("failed")
  /\ UNCHANGED <<list, allocated, installed, order, override, found>>

Next ==
  \/ add_internal_loaders
  \/ \E l \in Plugins, b \in BOOLEAN : simage_add_loader(l, b)
  \/ \E h \in Plugins : simage_remove_loader(h)
  \/ \E f \in Files : simage_read_image(f) \/ simage_check_supported(f)
  \/ TryNext \/ Recognised \/ NotRecognised \/ LoadSucceeds \/ LoadFails

Spec == Init /\ [][Next]_vars

(* A call in progress runs on: no client decides whether find_loader()     *)
(* takes its next step.                                                    *)
CallStep == TryNext \/ Recognised \/ NotRecognised \/ LoadSucceeds \/ LoadFails
FairSpec == Spec /\ WF_vars(CallStep)

-----------------------------------------------------------------------------
(* Properties.                                                             *)

Frames ==
  [op : {"read", "check"}, file : Files, at : {"identify", "load", "nomatch"},
   cursor : Nodes \cup {NoLoader}, present : SUBSET Nodes, stray : BOOLEAN]

(* Every variable of simage.c's registry has the type its declaration says. *)
TypeOK ==
  /\ {first_loader, last_loader} \subseteq Nodes \cup {NoLoader}
  /\ next \in [Nodes -> Nodes \cup {NoLoader}]
  /\ allocated \subseteq Nodes
  /\ installed \in 0..Len(Builtins)
  /\ simage_error_msg \in {Cleared, Unsupported} \cup Nodes
  /\ stack \in Seq(Frames)
  /\ order \in Seq(Nodes)
  /\ override \subseteq Plugins
  /\ found \in {Unasked} \cup [file : Files, loader : Nodes \cup {NoLoader}]
  /\ lastRead \in {Unasked} \cup
       [how : {"loaded", "failed", "unsupported"}, loader : Nodes \cup {NoLoader}]

(* The pointers spell the registrations: whatever adds and removals came   *)
(* before, first_loader, the next fields and last_loader are exactly the   *)
(* list the clients asked for, ending in null and using live nodes only    *)
(* (add_loader and simage_remove_loader keep three pointers in step).      *)
EmptyListOK == order = <<>> => first_loader = NoLoader /\ last_loader = NoLoader
EndsOK ==
  order # <<>> => /\ first_loader = order[1]
                  /\ last_loader = order[Len(order)]
                  /\ next[order[Len(order)]] = NoLoader
ChainOK == \A i \in 1..(Len(order) - 1) : next[order[i]] = order[i + 1]
LiveOK == \A i \in 1..Len(order) : order[i] \in allocated
PointersMatchOrder == EmptyListOK /\ EndsOK /\ ChainOK /\ LiveOK

(* A search holds a pointer to a freed node only if that node was its own  *)
(* place in the list when it was removed: whatever else callbacks remove   *)
(* around a walk in progress, the next field it reads after identify_func  *)
(* has returned leads to a live node.  The exception is a real one: a      *)
(* plugin that removes itself from its own identify_func or load_func, or  *)
(* that a nested call removes, leaves find_loader() and                    *)
(* simage_read_image() reading freed memory.                               *)
CursorLive ==
  \A i \in DOMAIN stack :
    stack[i].at # "nomatch" /\ ~stack[i].stray => stack[i].cursor \in allocated

(* find_loader passes over nobody: a loader that was registered before the *)
(* walk began and still is, has answered no if the walk is beyond it (a    *)
(* stray walk, reading freed memory, may pass over anybody).               *)
Rank(l) == CHOOSE i \in DOMAIN order : order[i] = l
PassedOver(s) ==
  {l \in s.present : s.at = "nomatch" \/ Rank(l) < Rank(s.cursor)}
NobodyPassedOver ==
  \A i \in DOMAIN stack :
    stack[i].file \in Readable /\ ~stack[i].stray =>
      \A l \in PassedOver(stack[i]) : <<l, stack[i].file>> \notin Recognises

(* "useful if a user program finds a bug in this library (simply use       *)
(* addbefore)", simage.c:107: a plugin added with addbefore is asked       *)
(* before every internal loader, the ones add_internal_loaders itself puts *)
(* in front (QuickTime, CGImage) included.                                 *)
OverridesComeFirst ==
  \A l \in override, k \in 1..installed : Rank(l) < Rank(Builtins[k])

(* With callbacks that keep to themselves, the error text belongs to the   *)
(* last simage_read_image(), through any checks made since: cleared by a   *)
(* success, "Unsupported" when no loader was found, else the text of the   *)
(* loader that failed, if it has one for that error.                       *)
MessageOfLastRead ==
  stack = <<>> /\ lastRead # Unasked =>
    CASE lastRead.how = "loaded"      -> simage_error_msg = Cleared
      [] lastRead.how = "unsupported" -> simage_error_msg = Unsupported
      [] lastRead.how = "failed"      ->
           \/ simage_error_msg = lastRead.loader
           \/ lastRead.loader \in Silent /\ simage_error_msg = Cleared

(* Every search comes to an end: the next fields never form a cycle that a *)
(* walk could enter.                                                       *)
SearchesEnd == [](stack # <<>> => <>(stack = <<>>))
=============================================================================
