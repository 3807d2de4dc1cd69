------------------------------- MODULE SImage -------------------------------
(***************************************************************************)
(* The s_image objects of src/simage12.c and the line by line access of    *)
(* src/simage.c (s_image_open, s_image_read_line): who owns the pixel      *)
(* buffer, the codec handle and the file name string behind an image, and  *)
(* whose pixels a line or a saved file really holds.                       *)
(*                                                                         *)
(* The heap is a pool of blocks.  A block is free, a pixel buffer, a name  *)
(* or a codec handle the library allocated, or a pixel buffer the client   *)
(* did.  What a buffer holds is abstracted to the picture it was filled    *)
(* from.  Width, height and components together are one size; component    *)
(* order and malloc failure are left out.                                  *)
(***************************************************************************)
EXTENDS Naturals, FiniteSets

CONSTANTS
  Images,       \* s_image structures
  Blocks,       \* heap blocks
  Sizes,        \* combinations of width, height and components
  Files,        \* the file names clients pass
  SizeOf,       \* SizeOf[f]: size of the picture in file f
  LineAccess,   \* the files whose loader has an open_func
  Drawing,      \* the picture a client draws
  Garbage,      \* what malloc() returns memory full of
  Null

Pictures == Files \cup {Drawing, Garbage}

ASSUME SizesAssumption == Sizes # {} /\ SizeOf \in [Files -> Sizes]
ASSUME FilesAssumption == LineAccess \subseteq Files /\ {Drawing, Garbage} \cap Files = {}
ASSUME PicturesAssumption == Drawing # Garbage
ASSUME NullAssumption == Null \notin Blocks \cup Pictures

VARIABLES
  live,         \* the images that exist
  size, data, didalloc, opendata, oktoreadall, openfilename,
  name,         \* name[i]: what the string openfilename points to says
  heap,         \* heap[b]: what block b is allocated as
  pixels,       \* pixels[b]: the picture in block b
  crashed,      \* a null pointer has been used as a buffer
  shows,        \* history: the picture image i was last given
  spoilt,       \* history: images s_image_data() allocated a buffer for
  refilled,     \* history: blocks s_image_read_line() read a whole file into
  renamed,      \* history: names s_image_load() overwrote the pointer to
  out           \* the line, or the buffer given to a saver, of the last call

fields  == <<size, data, didalloc, opendata, oktoreadall, openfilename, name>>
history == <<shows, spoilt, refilled, renamed>>
vars    == <<live, fields, heap, pixels, crashed, history, out>>

AnySize == CHOOSE s \in Sizes : TRUE
Nothing == [of |-> Null, want |-> Null, got |-> Null]

Init ==
  /\ live = {}
  /\ size = [i \in Images |-> AnySize]
  /\ data = [i \in Images |-> Null]
  /\ didalloc = [i \in Images |-> FALSE]
  /\ opendata = [i \in Images |-> Null]
  /\ oktoreadall = [i \in Images |-> FALSE]
  /\ openfilename = [i \in Images |-> Null]
  /\ name = [i \in Images |-> Null]
  /\ heap = [b \in Blocks |-> "free"]
  /\ pixels = [b \in Blocks |-> Garbage]
  /\ crashed = FALSE
  /\ shows = [i \in Images |-> Garbage]
  /\ spoilt = {} /\ refilled = {} /\ renamed = {}
  /\ out = Nothing

-----------------------------------------------------------------------------
(* The heap.                                                               *)

FreeBlocks == {b \in Blocks : heap[b] = "free"}
Release(B) == [b \in Blocks |-> IF b \in B THEN "free" ELSE heap[b]]
UsedBy(b)  == {i \in live : data[i] = b}

(* Whatever a block held is gone once it has been freed.                   *)
Holding(h, p) == [b \in Blocks |-> IF h[b] = "free" THEN Garbage ELSE p[b]]

ClientAllocates(b) ==
  /\ heap[b] = "free"
  /\ heap' = [heap EXCEPT ![b] = "client"]
  /\ pixels' = [pixels EXCEPT ![b] = Drawing]
  /\ out' = Nothing
  /\ UNCHANGED <<live, fields, crashed, history>>

ClientFrees(b) ==
  /\ heap[b] = "client" /\ UsedBy(b) = {}
  /\ heap' = [heap EXCEPT ![b] = "free"]
  /\ pixels' = Holding(heap', pixels)
  /\ out' = Nothing
  /\ UNCHANGED <<live, fields, crashed, history>>

-----------------------------------------------------------------------------
(* Creation and destruction.                                               *)

NewImage(i, s, d, owned) ==
  /\ i \notin live
  /\ live' = live \cup {i}
  /\ size' = [size EXCEPT ![i] = s]
  /\ data' = [data EXCEPT ![i] = d]
  /\ didalloc' = [didalloc EXCEPT ![i] = owned]

WithoutFile(i) ==
  /\ opendata' = [opendata EXCEPT ![i] = Null]
  /\ openfilename' = [openfilename EXCEPT ![i] = Null]
  /\ oktoreadall' = [oktoreadall EXCEPT ![i] = TRUE]
  /\ UNCHANGED name

s_image_create(i, s) ==
  /\ \/ \E b \in FreeBlocks :         \* prealloc is null
          /\ NewImage(i, s, b, TRUE)
          /\ heap' = [heap EXCEPT ![b] = "pixels"]
          /\ pixels' = [pixels EXCEPT ![b] = Garbage]
          /\ shows' = [shows EXCEPT ![i] = Garbage]
     \/ \E b \in Blocks :             \* prealloc is a buffer of the client's
          /\ heap[b] = "client" /\ UsedBy(b) = {}
          /\ NewImage(i, s, b, FALSE)
          /\ shows' = [shows EXCEPT ![i] = pixels[b]]
          /\ UNCHANGED <<heap, pixels>>
  /\ WithoutFile(i)
  /\ out' = Nothing
  /\ UNCHANGED <<crashed, spoilt, refilled, renamed>>

OwnedButHandle(i) ==
  {b \in Blocks : (b = data[i] /\ didalloc[i]) \/ b = openfilename[i]}

(* What s_image_destroy() frees besides the structure itself.              *)
Owned(i) ==
  {b \in Blocks : \/ b = data[i] /\ didalloc[i]
                  \/ b = opendata[i]
                  \/ b = openfilename[i]}

(* The fields of an image that does not exist are those Init gives it.     *)
s_image_destroy(i) ==
  /\ i \in live
  /\ live' = live \ {i}
  /\ heap' = Release(Owned(i))
  /\ pixels' = Holding(heap', pixels)
  /\ size' = [size EXCEPT ![i] = AnySize]
  /\ data' = [data EXCEPT ![i] = Null]
  /\ didalloc' = [didalloc EXCEPT ![i] = FALSE]
  /\ opendata' = [opendata EXCEPT ![i] = Null]
  /\ oktoreadall' = [oktoreadall EXCEPT ![i] = FALSE]
  /\ openfilename' = [openfilename EXCEPT ![i] = Null]
  /\ name' = [name EXCEPT ![i] = Null]
  /\ shows' = [shows EXCEPT ![i] = Garbage]
  /\ out' = Nothing
  /\ spoilt' = spoilt \ {i}
  /\ UNCHANGED <<crashed, refilled, renamed>>

-----------------------------------------------------------------------------
(* Replacing the pixels: s_image_set() with a client's buffer of size s.   *)

OwnedData(i) == {b \in Blocks : b = data[i] /\ didalloc[i]}

(* copydata: the image keeps its buffer only if it owns one of that size   *)
(* ("we shouldn't overwrite preallocated data").                           *)
KeepsBuffer(i, s) == size[i] = s /\ didalloc[i]

SetByCopy(i, s, src) ==
  \/ /\ KeepsBuffer(i, s)
     /\ pixels' = [pixels EXCEPT ![data[i]] = pixels[src]]
     /\ UNCHANGED <<data, didalloc, heap>>
  \/ /\ ~KeepsBuffer(i, s)
     /\ \E b \in Blocks :
          /\ Release(OwnedData(i))[b] = "free"
          /\ heap' = [Release(OwnedData(i)) EXCEPT ![b] = "pixels"]
          /\ pixels' = Holding(heap', [pixels EXCEPT ![b] = pixels[src]])
          /\ data' = [data EXCEPT ![i] = b]
          /\ didalloc' = [didalloc EXCEPT ![i] = TRUE]

AdoptsAsOwner(i, src) ==
  /\ UsedBy(src) = {}
  /\ heap' = Release(OwnedData(i))
  /\ data' = [data EXCEPT ![i] = src]
  /\ pixels' = Holding(heap', pixels)
  /\ UNCHANGED didalloc

SetByAdoption(i, src) ==
  /\ UsedBy(src) = {}
  /\ heap' = Release(OwnedData(i))
  /\ data' = [data EXCEPT ![i] = src]
  /\ didalloc' = [didalloc EXCEPT ![i] = FALSE]
  /\ pixels' = Holding(heap', pixels)

s_image_set(i, s, src, copydata) ==
  /\ i \in live
  /\ heap[src] = "client" /\ src # data[i]
  /\ \/ copydata /\ SetByCopy(i, s, src)
     \/ ~copydata /\ SetByAdoption(i, src)
  /\ size' = [size EXCEPT ![i] = s]
  /\ shows' = [shows EXCEPT ![i] = pixels[src]]
  /\ spoilt' = spoilt \ {i}
  /\ out' = Nothing
  /\ UNCHANGED <<live, opendata, oktoreadall, openfilename, name, crashed, refilled, renamed>>

-----------------------------------------------------------------------------
(* Loading and opening.  simage_read_image() may fail on any file, which   *)
(* changes nothing here, and open_func may refuse a file (a palette TIFF)  *)
(* that load_func accepts.                                                 *)

(* A new image around the buffer simage_read_image() returned.             *)
LoadNew(i, f) ==
  /\ \E b, s \in FreeBlocks :
       /\ b # s
       /\ NewImage(i, SizeOf[f], b, TRUE)
       /\ heap' = [heap EXCEPT ![b] = "pixels", ![s] = "name"]
       /\ pixels' = [pixels EXCEPT ![b] = f]
       /\ openfilename' = [openfilename EXCEPT ![i] = s]
  /\ opendata' = [opendata EXCEPT ![i] = Null]
  /\ oktoreadall' = [oktoreadall EXCEPT ![i] = TRUE]
  /\ name' = [name EXCEPT ![i] = f]
  /\ shows' = [shows EXCEPT ![i] = f]
  /\ out' = Nothing
  /\ UNCHANGED <<crashed, spoilt, refilled, renamed>>

CopiesNothing(i, f) ==
  /\ i \in live /\ size[i] = SizeOf[f] /\ data[i] # Null
  /\ \E s \in FreeBlocks :
       /\ heap' = [heap EXCEPT ![s] = "name"]
       /\ openfilename' = [openfilename EXCEPT ![i] = s]
  /\ name' = [name EXCEPT ![i] = f]
  /\ renamed' = (renamed \cup {openfilename[i]}) \ {Null}
  /\ shows' = [shows EXCEPT ![i] = f]
  /\ spoilt' = spoilt \ {i}
  /\ out' = Nothing
  /\ UNCHANGED <<live, size, data, didalloc, opendata, oktoreadall, pixels, crashed, refilled>>

(* Into an image of the same size; the buffer simage_read_image() returned *)
(* is freed again, the string openfilename pointed to is not.              *)
CopyInto(i, f) ==
  /\ i \in live /\ size[i] = SizeOf[f] /\ data[i] # Null
  /\ pixels' = [pixels EXCEPT ![data[i]] = f]
  /\ \E s \in FreeBlocks :
       /\ heap' = [heap EXCEPT ![s] = "name"]
       /\ openfilename' = [openfilename EXCEPT ![i] = s]
  /\ name' = [name EXCEPT ![i] = f]
  /\ renamed' = (renamed \cup {openfilename[i]}) \ {Null}
  /\ shows' = [shows EXCEPT ![i] = f]
  /\ spoilt' = spoilt \ {i}
  /\ out' = Nothing
  /\ UNCHANGED <<live, size, data, didalloc, opendata, oktoreadall, crashed, refilled>>

Crash ==
  /\ crashed' = TRUE
  /\ out' = Nothing
  /\ UNCHANGED <<live, fields, heap, pixels, history>>

(* The image was opened line by line and has no buffer to copy into.       *)
CopyIntoNull(i, f) == i \in live /\ size[i] = SizeOf[f] /\ data[i] = Null /\ Crash

(* prealloc is null or of another size, or it is image i.                  *)
s_image_load(i, f) == LoadNew(i, f) \/ CopyInto(i, f) \/ CopyIntoNull(i, f)

OpenLines(i, f, readall) ==
  /\ f \in LineAccess
  /\ NewImage(i, SizeOf[f], Null, FALSE)
  /\ \E h, s \in FreeBlocks :
       /\ h # s
       /\ heap' = [heap EXCEPT ![h] = "handle", ![s] = "name"]
       /\ opendata' = [opendata EXCEPT ![i] = h]
       /\ openfilename' = [openfilename EXCEPT ![i] = s]
  /\ oktoreadall' = [oktoreadall EXCEPT ![i] = readall]
  /\ name' = [name EXCEPT ![i] = f]
  /\ shows' = [shows EXCEPT ![i] = f]
  /\ out' = Nothing
  /\ UNCHANGED <<pixels, crashed, spoilt, refilled, renamed>>

s_image_open(i, f, readall) ==
  OpenLines(i, f, readall) \/ (readall /\ LoadNew(i, f))

-----------------------------------------------------------------------------
(* Reading lines and buffers.                                              *)

Delivers(i, p) == out' = [of |-> i, want |-> shows[i], got |-> p]

FromBuffer(i) ==
  /\ data[i] # Null
  /\ Delivers(i, pixels[data[i]])
  /\ UNCHANGED <<live, fields, heap, pixels, crashed, history>>

FromCodec(i) ==
  /\ data[i] = Null /\ opendata[i] # Null
  /\ Delivers(i, name[i])
  /\ UNCHANGED <<live, fields, heap, pixels, crashed, history>>

LineFails(i) ==
  /\ data[i] = Null
  /\ opendata[i] # Null => ~oktoreadall[i]
  /\ out' = Nothing
  /\ UNCHANGED <<live, fields, heap, pixels, crashed, history>>

(* Without the recursive call, buf holds what the codec left in it.        *)
LeavesHalfALine(i) ==
  /\ data[i] = Null /\ opendata[i] # Null /\ oktoreadall[i]
  /\ heap' = Release({opendata[i]})
  /\ opendata' = [opendata EXCEPT ![i] = Null]
  /\ Delivers(i, Garbage)
  /\ UNCHANGED <<live, size, data, didalloc, oktoreadall, openfilename, name,
                 pixels, crashed, history>>

(* The codec cannot deliver this line now ("the line read order can be     *)
(* important"): its handle is closed and the whole file is read; if that   *)
(* succeeds the line comes from the new buffer.  didalloc is left as       *)
(* s_image_open() set it.                                                  *)
FallsBack(i) ==
  /\ data[i] = Null /\ opendata[i] # Null /\ oktoreadall[i]
  /\ opendata' = [opendata EXCEPT ![i] = Null]
  /\ LET closed == Release({opendata[i]}) IN
       \/ \E b \in Blocks :
            /\ closed[b] = "free"
            /\ heap' = [closed EXCEPT ![b] = "pixels"]
            /\ pixels' = [pixels EXCEPT ![b] = name[i]]
            /\ data' = [data EXCEPT ![i] = b]
            /\ size' = [size EXCEPT ![i] = SizeOf[name[i]]]
            /\ refilled' = refilled \cup {b}
            /\ Delivers(i, name[i])
       \/ /\ heap' = closed
          /\ out' = Nothing
          /\ UNCHANGED <<pixels, data, size, refilled>>
  /\ UNCHANGED <<live, didalloc, oktoreadall, openfilename, name, crashed, shows, spoilt, renamed>>

s_image_read_line(i) ==
  /\ i \in live
  /\ FromBuffer(i) \/ FromCodec(i) \/ LineFails(i) \/ FallsBack(i)

(* s_image_data() of an image opened line by line: the buffer is assigned  *)
(* to the image before the lines are read, so s_image_read_line() copies   *)
(* every line out of that same buffer and the codec is never asked.        *)
AllocatesBuffer(i) ==
  /\ opendata[i] # Null /\ data[i] = Null
  /\ \E b \in FreeBlocks :
       /\ heap' = [heap EXCEPT ![b] = "pixels"]
       /\ pixels' = [pixels EXCEPT ![b] = Garbage]
       /\ data' = [data EXCEPT ![i] = b]
  /\ didalloc' = [didalloc EXCEPT ![i] = TRUE]
  /\ spoilt' = spoilt \cup {i}
  /\ UNCHANGED <<live, size, opendata, oktoreadall, openfilename, name, crashed,
                 shows, refilled, renamed>>

s_image_data(i) ==
  /\ i \in live
  /\ AllocatesBuffer(i)
  /\ out' = Nothing

(* The saver is given what s_image_data() returns.                         *)
s_image_save(i) ==
  /\ i \in live
  /\ \/ AllocatesBuffer(i) /\ Delivers(i, Garbage)
     \/ FromBuffer(i)
     \/ data[i] = Null /\ opendata[i] = Null /\ Crash

(* The client draws through the pointer s_image_data() gave it.            *)
ClientDraws(i) ==
  /\ i \in live /\ data[i] # Null
  /\ pixels' = [pixels EXCEPT ![data[i]] = Drawing]
  /\ shows' = [shows EXCEPT ![i] = Drawing]
  /\ spoilt' = spoilt \ {i}
  /\ out' = Nothing
  /\ UNCHANGED <<live, fields, heap, crashed, refilled, renamed>>

Next ==
  /\ ~crashed
  /\ \/ \E b \in Blocks : ClientAllocates(b) \/ ClientFrees(b)
     \/ \E i \in Images, s \in Sizes :
          \/ s_image_create(i, s)
          \/ \E b \in Blocks, copydata \in BOOLEAN : s_image_set(i, s, b, copydata)
     \/ \E i \in Images, f \in Files :
          \/ s_image_load(i, f)
          \/ \E readall \in BOOLEAN : s_image_open(i, f, readall)
     \/ \E i \in Images :
          \/ s_image_destroy(i) \/ s_image_read_line(i)
          \/ s_image_data(i) \/ s_image_save(i) \/ ClientDraws(i)

Spec == Init /\ [][Next]_vars

-----------------------------------------------------------------------------
(* Properties.                                                             *)

Outputs ==
  [of : Images \cup {Null}, want : Pictures \cup {Null}, got : Pictures \cup {Null}]

(* Every variable has the type its declaration in simage_private.h says.   *)
TypeOK ==
  /\ live \subseteq Images
  /\ size \in [Images -> Sizes]
  /\ data \in [Images -> Blocks \cup {Null}] /\ didalloc \in [Images -> BOOLEAN]
  /\ opendata \in [Images -> Blocks \cup {Null}] /\ oktoreadall \in [Images -> BOOLEAN]
  /\ openfilename \in [Images -> Blocks \cup {Null}]
  /\ name \in [Images -> Files \cup {Null}]
  /\ heap \in [Blocks -> {"free", "client", "pixels", "name", "handle"}]
  /\ pixels \in [Blocks -> Pictures]
  /\ crashed \in BOOLEAN
  /\ shows \in [Images -> Pictures]
  /\ spoilt \subseteq live
  /\ refilled \subseteq Blocks /\ renamed \subseteq Blocks
  /\ out \in Outputs

(* Nothing an image points to has been freed, and what s_image_destroy()   *)
(* will free is the library's and this image's alone: no double free, no   *)
(* free of a client's buffer, no handle closed twice.                      *)
DataOwned ==
  \A i \in live : data[i] # Null =>
    heap[data[i]] \in (IF didalloc[i] THEN {"pixels"} ELSE {"client", "pixels"})
HandleOwned ==
  \A i \in live : opendata[i] # Null => heap[opendata[i]] = "handle"
NameOwned ==
  \A i \in live : openfilename[i] # Null => heap[openfilename[i]] = "name"
NothingShared ==
  \A i, j \in live : i # j =>
    /\ data[i] # Null => data[i] # data[j]
    /\ opendata[i] # Null => opendata[i] # opendata[j]
    /\ openfilename[i] # Null => openfilename[i] # openfilename[j]
Ownership == DataOwned /\ HandleOwned /\ NameOwned /\ NothingShared

(* A buffer holds the picture its image was last given, through every      *)
(* mixture of s_image_load, s_image_set, s_image_read_line and drawing;    *)
(* the exception is an image opened line by line whose s_image_data() has  *)
(* been asked for.                                                         *)
PixelsAreTheImage ==
  \A i \in live \ spoilt : data[i] # Null => pixels[data[i]] = shows[i]

(* A line that s_image_read_line() says it delivered, and a buffer a saver *)
(* is given, is the image's, whether it comes from the codec, from the     *)
(* buffer or from the whole file read after the codec failed, and whatever *)
(* is done to other images.  The exception is the image itself having been *)
(* opened line by line and asked for s_image_data() (which s_image_save()  *)
(* calls too): from then until it is given pixels again, its lines and the *)
(* buffer a saver gets are uninitialised memory.                           *)
LinesAreTheImage == out.of \notin spoilt => out.want = out.got

(* The only blocks the library loses are buffers of a whole file read by   *)
(* s_image_read_line() and names s_image_load() overwrote: all else it     *)
(* allocates belongs to an image.                                          *)
Referenced == UNION {{data[i], opendata[i], openfilename[i]} : i \in live}
Lost == {b \in Blocks : heap[b] \notin {"free", "client"} /\ b \notin Referenced}
LossesAreKnown ==
  \A b \in Lost : \/ heap[b] = "pixels" /\ b \in refilled
                  \/ heap[b] = "name" /\ b \in renamed

(* simage.h:259, "Saves image": s_image_save() gives the saver the pixels  *)
(* of its image.                                                           *)
SavedIsTheImage == out.want = out.got
=============================================================================
