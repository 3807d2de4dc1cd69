------------------------------- MODULE Savers -------------------------------
(***************************************************************************)
(* The saver registry of src/simage_write.c: registration and removal of   *)
(* savers, the search by file name extension, simage_save_image() with the *)
(* error text it leaves, and the calls that enumerate the savers.          *)
(*                                                                         *)
(* The list is a sequence here; the pointers behind such a list are        *)
(* modelled in Loaders.  A saver of a client may call the library from its *)
(* save function, so a save in progress is an entry of a stack.            *)
(***************************************************************************)
EXTENDS Integers, SequencesExt

CONSTANTS
  Plugins,      \* savers that clients add and remove
  Static,       \* internal savers in static structs, in the order of registration
  Behind,       \* those malloc'ed by add_internal_savers() (GDI+, QImage),
  InFront,      \* and those with addbefore = 1 (QuickTime, CGImage), in that order
  Extensions,   \* the spellings clients use
  Folded,       \* Folded[e]: extension e in lower case
  ExtensionsOf, \* ExtensionsOf[s]: what saver s is registered for
  Callbackers,  \* plugins whose save function calls the library
  Silent,       \* savers whose error_func has no text for some error codes
  MaxDepth,     \* bound on nested saves
  NoSaver,      \* the null pointer
  Cleared, Unsupported,   \* texts of simage_error_msg
  Never         \* no such call has been made

Allocated == ToSet(Behind) \cup ToSet(InFront)
Internal == ToSet(Static) \cup Allocated
Savers == Plugins \cup Internal

(* A save in progress, stray if its saver has been removed under it; how   *)
(* one ended; and what simage_get_saver_handle() was asked for and gave.   *)
Saves   == [saver : Savers, ext : Extensions, stray : BOOLEAN]
Endings == [how : {"saved", "failed", "astray", "unsupported"}, ext : Extensions, saver : Savers \cup {NoSaver}]
Answers == [idx : Nat, saver : Savers \cup {NoSaver}]

ASSUME SaversAssumption ==
  /\ Static \in Seq(Internal) /\ Behind \in Seq(Internal) /\ InFront \in Seq(Internal)
  /\ IsInjective(Static \o Behind \o InFront) /\ Plugins \cap Internal = {}
  /\ Callbackers \subseteq Plugins /\ Silent \subseteq Savers
  /\ {NoSaver, Cleared, Unsupported, Never} \cap Savers = {}
  /\ Never \notin Nat /\ Never \notin Endings /\ Never \notin Answers
ASSUME ExtensionsAssumption ==
  /\ Folded \in [Extensions -> Extensions]
  /\ ExtensionsOf \in [Savers -> SUBSET Extensions]
ASSUME DepthAssumption == MaxDepth \in Nat \ {0}

VARIABLES
  first,        \* the flag of add_internal_savers()
  savers,       \* the list from first_saver to last_saver
  heap,         \* savers whose memory malloc() returned and nobody freed
  freedStatic,  \* savers passed to free() that malloc() did not return
  simage_error_msg,
  saving,       \* saves in progress, innermost last
  handle,       \* what simage_get_saver_handle() gave, if it was the last call
  override,     \* history: plugins registered with addbefore = 1
  checked,      \* history: extensions found supported since the list changed
  counted,      \* history: the count given since the list changed
  lastSave      \* history: how the last save ended

history == <<override, checked, counted, lastSave>>
vars == <<first, savers, heap, freedStatic, simage_error_msg, saving, handle, history>>

Init ==
  /\ first = TRUE
  /\ savers = <<>> /\ heap = {} /\ freedStatic = {}
  /\ simage_error_msg = Cleared
  /\ saving = <<>> /\ handle = Never
  /\ override = {} /\ checked = {} /\ counted = Never /\ lastSave = Never

-----------------------------------------------------------------------------
(* The list.                                                               *)

(* What add_internal_savers() puts in front of the list, each time before  *)
(* what is there, and what it appends.                                     *)
Before == Reverse(InFront)
After == Static \o Behind

(* The list after add_internal_savers(), which adds them on its first call.*)
WithInternals == IF first THEN Before \o savers \o After ELSE savers

add_internal_savers ==
  /\ first' = FALSE
  /\ heap' = IF first THEN heap \cup Allocated ELSE heap

add_saver_data(list, s, addbefore) == IF addbefore THEN <<s>> \o list ELSE Append(list, s)

Matches(s, e) == \E x \in ExtensionsOf[s] : Folded[x] = Folded[e]

find_saver(list, e) ==
  LET foremost == {i \in DOMAIN list : Matches(list[i], e) /\ \A j \in 1 .. i-1 : ~Matches(list[j], e)}
  IN  IF foremost = {} THEN NoSaver ELSE list[CHOOSE i \in foremost : TRUE]

ClientHasControl == saving # <<>> => Last(saving).saver \in Callbackers

ListChanges == checked' = {} /\ counted' = Never

-----------------------------------------------------------------------------
(* Registration and removal.                                               *)

AddBeforeInternals(s, addbefore) ==
  /\ ClientHasControl
  /\ s \in Plugins \ heap
  /\ savers' = add_saver_data(savers, s, addbefore)
  /\ heap' = heap \cup {s}
  /\ override' = IF addbefore THEN override \cup {s} ELSE override
  /\ handle' = Never
  /\ ListChanges
  /\ UNCHANGED <<first, freedStatic, simage_error_msg, saving, lastSave>>

simage_add_saver(s, addbefore) ==
  /\ ClientHasControl
  /\ s \in Plugins \ heap
  /\ savers' = add_saver_data(WithInternals, s, addbefore)
  /\ first' = FALSE
  /\ heap' = heap \cup {s} \cup (IF first THEN Allocated ELSE {})
  /\ override' = IF addbefore THEN override \cup {s} ELSE override
  /\ handle' = Never
  /\ ListChanges
  /\ UNCHANGED <<freedStatic, simage_error_msg, saving, lastSave>>

FreesAny(s) == heap' = heap \ {s} /\ freedStatic' = freedStatic \cup ({s} \ heap)

(* "The is_internal flag is used to determine whether the memory for the   *)
(* loader should be freed": it is set for the static structs only.         *)
Frees(s) ==
  /\ heap' = IF s \in ToSet(Static) THEN heap ELSE heap \ {s}
  /\ freedStatic' = IF s \in ToSet(Static) THEN freedStatic ELSE freedStatic \cup ({s} \ heap)

(* Any saver whose handle simage_add_saver() or simage_get_saver_handle()  *)
(* gave the client; it may be the one whose save function is running.      *)
simage_remove_saver(s) ==
  /\ ClientHasControl
  /\ \E i \in DOMAIN savers : savers[i] = s /\ savers' = RemoveAt(savers, i)
  /\ Frees(s)
  /\ saving' = [i \in DOMAIN saving |->
                  [saving[i] EXCEPT !.stray = @ \/ saving[i].saver = s]]
  /\ override' = override \ {s}
  /\ handle' = Never
  /\ ListChanges
  /\ UNCHANGED <<first, simage_error_msg, lastSave>>

-----------------------------------------------------------------------------
(* Asking.                                                                 *)

ChecksForAnySaver(e) ==
  /\ ClientHasControl
  /\ add_internal_savers
  /\ savers' = WithInternals
  /\ handle' = Never
  /\ checked' = IF WithInternals # <<>> THEN checked \cup {e} ELSE checked
  /\ UNCHANGED <<freedStatic, simage_error_msg, saving, override, counted, lastSave>>

simage_check_save_supported(e) ==
  /\ ClientHasControl
  /\ add_internal_savers
  /\ savers' = WithInternals
  /\ handle' = Never
  /\ checked' = IF find_saver(WithInternals, e) # NoSaver THEN checked \cup {e} ELSE checked
  /\ UNCHANGED <<freedStatic, simage_error_msg, saving, override, counted, lastSave>>

simage_get_num_savers ==
  /\ ClientHasControl
  /\ add_internal_savers
  /\ savers' = WithInternals
  /\ handle' = Never
  /\ counted' = Len(WithInternals)
  /\ UNCHANGED <<freedStatic, simage_error_msg, saving, override, checked, lastSave>>

simage_get_saver_handle(idx) ==
  /\ ClientHasControl
  /\ handle' = [idx |-> idx, saver |-> IF idx < Len(savers) THEN savers[idx + 1] ELSE NoSaver]
  /\ UNCHANGED <<first, savers, heap, freedStatic, simage_error_msg, saving, history>>

-----------------------------------------------------------------------------
(* Saving.                                                                 *)

KeepsOldText(e) ==
  /\ ClientHasControl /\ Len(saving) < MaxDepth
  /\ add_internal_savers
  /\ savers' = WithInternals
  /\ LET s == find_saver(WithInternals, e) IN
       \/ /\ s # NoSaver
          /\ saving' = Append(saving, [saver |-> s, ext |-> e, stray |-> FALSE])
          /\ UNCHANGED <<simage_error_msg, lastSave>>
       \/ /\ s = NoSaver
          /\ simage_error_msg' = Unsupported
          /\ lastSave' = [how |-> "unsupported", ext |-> e, saver |-> NoSaver]
          /\ UNCHANGED saving
  /\ handle' = Never
  /\ UNCHANGED <<freedStatic, override, checked, counted>>

simage_save_image(e) ==
  /\ ClientHasControl /\ Len(saving) < MaxDepth
  /\ add_internal_savers
  /\ savers' = WithInternals
  /\ LET s == find_saver(WithInternals, e) IN
       \/ /\ s # NoSaver
          /\ simage_error_msg' = Cleared
          /\ saving' = Append(saving, [saver |-> s, ext |-> e, stray |-> FALSE])
          /\ UNCHANGED lastSave
       \/ /\ s = NoSaver
          /\ simage_error_msg' = Unsupported
          /\ lastSave' = [how |-> "unsupported", ext |-> e, saver |-> NoSaver]
          /\ UNCHANGED saving
  /\ handle' = Never
  /\ UNCHANGED <<freedStatic, override, checked, counted>>

Saved(how) ==
  /\ saving # <<>>
  /\ saving' = Front(saving)
  /\ lastSave' = [how |-> how, ext |-> Last(saving).ext, saver |-> Last(saving).saver]
  /\ handle' = Never
  /\ UNCHANGED <<first, savers, heap, freedStatic, override, checked, counted>>

SaveSucceeds == Saved("saved") /\ UNCHANGED simage_error_msg

(* error_func writes its text, or nothing for a code it has no case for.   *)
SaveFails ==
  /\ saving # <<>> => ~Last(saving).stray
  /\ Saved("failed")
  /\ \/ simage_error_msg' = Last(saving).saver
     \/ Last(saving).saver \in Silent /\ UNCHANGED simage_error_msg

(* The pointer to error_func is read from a saver that has been freed.     *)
SaveFailsAstray ==
  /\ saving # <<>> => Last(saving).stray
  /\ Saved("astray")
  /\ \/ \E s \in Savers : simage_error_msg' = s
     \/ UNCHANGED simage_error_msg

Next ==
  \/ \E s \in Plugins, addbefore \in BOOLEAN : simage_add_saver(s, addbefore)
  \/ \E s \in Savers : simage_remove_saver(s)
  \/ \E e \in Extensions : simage_check_save_supported(e) \/ simage_save_image(e)
  \/ simage_get_num_savers
  \/ \E idx \in 0 .. Len(savers) + 1 : simage_get_saver_handle(idx)
  \/ SaveSucceeds \/ SaveFails \/ SaveFailsAstray

Spec == Init /\ [][Next]_vars

-----------------------------------------------------------------------------
(* Properties.                                                             *)

(* Every variable of the registry has its type, and the list no saver      *)
(* twice.                                                                  *)
ListOK ==
  /\ first \in BOOLEAN
  /\ savers \in Seq(Savers) /\ IsInjective(savers)
  /\ heap \subseteq Savers /\ freedStatic \subseteq Savers /\ override \subseteq Plugins
CallsOK ==
  /\ simage_error_msg \in {Cleared, Unsupported} \cup Savers
  /\ saving \in Seq(Saves) /\ Len(saving) <= MaxDepth
  /\ lastSave \in Endings \cup {Never} /\ handle \in Answers \cup {Never}
  /\ checked \subseteq Extensions /\ counted \in {Never} \cup Nat
TypeOK == ListOK /\ CallsOK

(* simage_remove_saver() frees what malloc() returned and nothing else,    *)
(* whichever saver is removed and in whatever order: what is on the heap   *)
(* is what the list still holds.                                           *)
MemoryMatchesList ==
  /\ TypeOK
  /\ freedStatic = {}
  /\ heap = ToSet(savers) \ ToSet(Static)

(* A saver added with addbefore is preferred to every internal one for its *)
(* extensions, those add_internal_savers() puts in front included.         *)
OverridesWin ==
  \A s \in override, e \in Extensions :
    Matches(s, e) => find_saver(savers, e) \in Plugins

(* A client that counts the savers and then asks for their handles gets a  *)
(* handle for every index below the count and null from there on, as long  *)
(* as no saver comes or goes.                                              *)
EnumerationIsComplete ==
  counted # Never /\ handle # Never => (handle.saver # NoSaver <=> handle.idx < counted)

(* What clients find: overrides before the internal savers, and by index   *)
(* all that were counted.                                                  *)
OverridesAreFound == OverridesWin /\ EnumerationIsComplete

(* simage.h:259, "Use simage_check_write_supported first to verify that    *)
(* the file format is supported": as long as no saver comes or goes, an    *)
(* extension that was found supported is never refused.                    *)
CheckPredictsSave ==
  [][\A e \in checked :
       ~(lastSave' # lastSave /\ lastSave'.how = "unsupported" /\ lastSave'.ext = e)]_vars

(* When no save is in progress the error text is that of the last one:    *)
(* cleared by a success, "Unsupported" without a saver, else the text of   *)
(* the saver that failed, whatever its save function did before.  A saver  *)
(* that saves by calling the library leaves, when it succeeds, the text of *)
(* that call, and one without a text for its error code leaves what was    *)
(* there; a saver that is removed while it runs and then fails has its     *)
(* error_func read from freed memory, and no text is promised.             *)
TextOfLastSave ==
  saving = <<>> /\ lastSave # Never =>
    CASE lastSave.how = "saved"       -> lastSave.saver \in Callbackers \/ simage_error_msg = Cleared
      [] lastSave.how = "unsupported" -> simage_error_msg = Unsupported
      [] lastSave.how = "failed"      -> lastSave.saver \in Silent \/ simage_error_msg = lastSave.saver
      [] lastSave.how = "astray"      -> TRUE
=============================================================================
