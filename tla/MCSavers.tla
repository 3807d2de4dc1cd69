------------------------------ MODULE MCSavers ------------------------------
(* An instance of Savers for TLC: two plugins, one internal saver in a      *)
(* static struct and two allocated ones, of which QuickTime goes in front.  *)
(* All but qimage compete for "jpg", of which "JPG" is another spelling.    *)
(* p1 saves by calling the library and has a text for its errors; jpeg has  *)
(* error codes without one.                                                 *)
EXTENDS Savers

CONSTANTS p1, p2

StaticSavers == <<"jpeg">>
BehindSavers == <<"qimage">>
FrontSavers == <<"quicktime">>
Spellings == {"jpg", "JPG"}
LowerCase == [e \in Extensions |-> "jpg"]
Registered ==
  [s \in Savers |-> IF s = "qimage" THEN {} ELSE IF s \in Plugins THEN {"JPG"} ELSE {"jpg"}]
NoText == {"jpeg"}

(* Two states are alike but for the spelling a save was called with, which  *)
(* nobody looks at once its saver is found.                                 *)
Called(save) == <<save.saver, save.stray>>
Ended(save) ==
  IF save = Never \/ save.how = "unsupported" THEN save ELSE <<save.how, save.saver>>
MCView ==
  <<first, savers, heap, freedStatic, simage_error_msg, [i \in DOMAIN saving |-> Called(saving[i])],
    handle, override, checked, counted, Ended(lastSave)>>
=============================================================================
