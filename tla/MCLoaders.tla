------------------------------ MODULE MCLoaders ------------------------------
(* A small registry for TLC: three internal loaders, the last of which puts *)
(* itself in front, and a few client plugins.                               *)
EXTENDS LoadersRefinement

CONSTANTS p1, p2, p3, jpeg, tga, cgimage, photo, targa, text, missing

MCBuiltins == <<jpeg, tga, cgimage>>

(* Only the run with callbacks uses it, whose properties do not look at the *)
(* error text and at how searches ended; no action reads these either.      *)
MCView == <<list, allocated, installed, stack, order, override>>

(* photo is recognised by a plugin and two internal loaders, targa by the   *)
(* loader with error codes that have no text and by two plugins, text by    *)
(* nobody; missing cannot be opened.                                        *)
MCRecognises == {<<jpeg, photo>>, <<cgimage, photo>>, <<p1, photo>>,
                 <<tga, targa>>, <<p2, targa>>, <<p3, targa>>} \cap (Nodes \X Files)
=============================================================================
