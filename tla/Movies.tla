------------------------------- MODULE Movies -------------------------------
(***************************************************************************)
(* The movies: the list of exporters and the movie objects of src/movie.c, *)
(* and the AVI exporter of src/simage_avi.c and src/avi_encode.c beside    *)
(* the MPEG one, whose sequence of pictures is modelled in MpegSequence.   *)
(*                                                                         *)
(* What matters of an image is the order of the colour components in its   *)
(* buffer, and the order that s_image_get_component_order() says.  Opening *)
(* an AVI file takes a step for each call to Video for Windows, each of    *)
(* which may fail.  No importer is modelled: the library has none.         *)
(***************************************************************************)
EXTENDS Integers, SequencesExt

CONSTANTS
  Movies,       \* s_movie structures
  Images,
  Exports,      \* exporters of clients
  Mpeg2enc, Avienc,   \* the exporters of the library
  Handles,      \* Handles[e]: the mime types that exporter e of a client takes
  MaxFrames,    \* bound: frames put into a movie, and one more into two
  None

MimeTypes == {"video/mpeg", "video/avi", "video/other"}
Exporters == Exports \cup {Mpeg2enc, Avienc}
Orders == {"RGB", "BGR"}


(* s_movie_create() in progress, and avi_begin_encode() in it.             *)
Walks  == [movie : Movies, mime : MimeTypes, at : Nat]
Stages == {"open", "stream", "options", "compress", "format"}
Begins == [stage : Stages, useprefs : BOOLEAN]

ASSUME ExportersAssumption ==
  /\ Mpeg2enc # Avienc /\ {Mpeg2enc, Avienc, None} \cap Exports = {}
  /\ Handles \in [Exports -> SUBSET MimeTypes] /\ None \notin {Mpeg2enc, Avienc}
  /\ None \notin Walks /\ None \notin Begins
ASSUME BoundsAssumption == MaxFrames \in Nat

VARIABLES
  first,        \* the flag of add_internal_exporters()
  exporters,    \* the list
  walk,         \* s_movie_create() in progress
  begin,        \* avi_begin_encode() in progress
  status,       \* status[m]: "none", "open" or "closed"
  codec,        \* codec[m]: the exporter whose functions m has
  handle,       \* handle[m]: what its parameters hold as the encoder's handle
  prefs,        \* the preferences file exists
  taken,        \* taken[m]: what the AVI encoder of movie m holds
  lost,         \* history: what the last s_movie_create() took and nobody
                \* will give back
  bytes,        \* bytes[i]: the order of the components in the buffer
  order,        \* order[i]: what the image says of it
  frames,       \* frames[m]: what the encoder got for the file, by number
  framenumber,
  puts,         \* history: puts[m]: the images whose put returned 1
  spoilt        \* history: images a put that failed has modified

object == <<status, codec, handle>>
avi    == <<prefs, taken, lost>>
image  == <<bytes, order, spoilt>>
file   == <<frames, framenumber, puts>>
vars   == <<first, exporters, walk, begin, object, avi, image, file>>

Init ==
  /\ first = TRUE /\ exporters = <<>>
  /\ walk = None /\ begin = None
  /\ status = [m \in Movies |-> "none"]
  /\ codec = [m \in Movies |-> None] /\ handle = [m \in Movies |-> None]
  /\ prefs = FALSE
  /\ taken = [m \in Movies |-> {}] /\ lost = {}
  /\ bytes = [i \in Images |-> "RGB"] /\ order = [i \in Images |-> "RGB"]
  /\ frames = [m \in Movies |-> << >>]
  /\ framenumber = [m \in Movies |-> 0]
  /\ puts = [m \in Movies |-> <<>>] /\ spoilt = {}

Idle == walk = None

-----------------------------------------------------------------------------
(* The client's images.                                                    *)

s_image_set(i) ==
  /\ Idle
  /\ bytes' = [bytes EXCEPT ![i] = "RGB"]
  /\ order' = [order EXCEPT ![i] = "RGB"]
  /\ spoilt' = spoilt \ {i}
  /\ UNCHANGED <<first, exporters, walk, begin, object, avi, file>>

(* A client that draws in BGR says so.                                     *)
s_image_set_component_order(i) ==
  /\ Idle
  /\ bytes' = [bytes EXCEPT ![i] = "BGR"]
  /\ order' = [order EXCEPT ![i] = "BGR"]
  /\ spoilt' = spoilt \ {i}
  /\ UNCHANGED <<first, exporters, walk, begin, object, avi, file>>

-----------------------------------------------------------------------------
(* Creating a movie.                                                       *)

s_movie_exporter_add(e) ==
  /\ Idle /\ e \in Exports \ ToSet(exporters)
  /\ exporters' = Append(exporters, e)
  /\ UNCHANGED <<first, walk, begin, object, avi, image, file>>

add_internal_exporters ==
  /\ exporters' = IF first THEN exporters \o <<Mpeg2enc, Avienc>> ELSE exporters
  /\ first' = FALSE

s_movie_create(m, mime) ==
  /\ Idle /\ status[m] = "none"
  /\ add_internal_exporters
  /\ walk' = [movie |-> m, mime |-> mime, at |-> 1]
  /\ lost' = {}
  /\ UNCHANGED <<begin, object, prefs, taken, image, file>>

Asking == walk # None /\ begin = None /\ walk.at <= Len(exporters)
Asked  == exporters[walk.at]
AskNext == walk' = [walk EXCEPT !.at = @ + 1]

Created(h) ==
  /\ status' = [status EXCEPT ![walk.movie] = "open"]
  /\ codec' = [codec EXCEPT ![walk.movie] = Asked]
  /\ handle' = [handle EXCEPT ![walk.movie] = h]
  /\ walk' = None

(* Of another mime type, or refused: an MPEG encoder that did not like its *)
(* parameters has cleaned up, an AVI encoder whose width or height is no   *)
(* multiple of 4 has not begun.                                            *)
Refuses ==
  /\ Asking
  /\ AskNext
  /\ UNCHANGED <<first, exporters, begin, object, avi, image, file>>

ClientAccepts ==
  /\ Asking /\ Asked \in Exports /\ walk.mime \in Handles[Asked]
  /\ Created(None)
  /\ UNCHANGED <<first, exporters, begin, avi, image, file>>

mpeg2enc_movie_create ==
  /\ Asking /\ Asked = Mpeg2enc /\ walk.mime = "video/mpeg"
  /\ Created(Mpeg2enc)
  /\ UNCHANGED <<first, exporters, begin, avi, image, file>>

avienc_movie_create(useprefs) ==
  /\ Asking /\ Asked = Avienc /\ walk.mime = "video/avi"
  /\ begin' = [stage |-> "open", useprefs |-> useprefs]
  /\ taken' = [taken EXCEPT ![walk.movie] = {"context", "AVIFileInit"}]
  /\ UNCHANGED <<first, exporters, walk, object, prefs, lost, image, file>>

NobodyAccepts ==
  /\ walk # None /\ walk.at > Len(exporters)
  /\ walk' = None
  /\ UNCHANGED <<first, exporters, begin, object, avi, image, file>>

-----------------------------------------------------------------------------
(* avi_begin_encode() after AVIFileInit().                                 *)

Target == walk.movie
At(stage) == begin # None /\ begin.stage = stage
Then(stage) == begin' = [begin EXCEPT !.stage = stage]

FreesContextOnly(more) ==
  /\ begin' = None /\ AskNext
  /\ taken' = [taken EXCEPT ![Target] = {}]
  /\ lost' = lost \cup (taken[Target] \ {"context"}) \cup more
  /\ UNCHANGED <<first, exporters, object, prefs, image, file>>

(* avi_cleanup_context() and free(context), and NULL is returned: there is *)
(* no AVIFileExit(), and the options are not freed.                        *)
Fails(more) ==
  /\ begin' = None /\ AskNext
  /\ taken' = [taken EXCEPT ![Target] = {}]
  /\ lost' = lost \cup (taken[Target] \cap {"AVIFileInit", "options"}) \cup more
  /\ UNCHANGED <<first, exporters, object, prefs, image, file>>

Takes(resources, stage) ==
  /\ taken' = [taken EXCEPT ![Target] = @ \cup resources]
  /\ Then(stage)
  /\ UNCHANGED <<first, exporters, walk, object, image, file>>

AVIFileOpen ==
  /\ At("open")
  /\ \/ Takes({"pfile"}, "stream") /\ UNCHANGED <<prefs, lost>>
     \/ Fails({})

AVIFileCreateStream ==
  /\ At("stream")
  /\ \/ Takes({"ps"}, "options") /\ UNCHANGED <<prefs, lost>>
     \/ Fails({})

(* The dialog, and the file its options are saved to if one was named; the *)
(* user may cancel, and the file may not open for writing.                 *)
AVISaveOptions ==
  /\ At("options") /\ ~(begin.useprefs /\ prefs)
  /\ \/ /\ Takes({"options"}, "compress")
        /\ prefs' = (prefs \/ begin.useprefs) /\ UNCHANGED lost
     \/ Fails({})
     \/ begin.useprefs /\ Fails({"options"})

(* The preferences file was opened once to see whether it exists and is    *)
(* opened again to be read; only the second one is closed.                 *)
ReadOptions ==
  /\ At("options") /\ begin.useprefs /\ prefs
  /\ \/ /\ Takes({"options"}, "compress")
        /\ lost' = lost \cup {"preferences"} /\ UNCHANGED prefs
     \/ Fails({"preferences"})

AVIMakeCompressedStream ==
  /\ At("compress")
  /\ \/ /\ taken' = [taken EXCEPT ![Target] = (@ \ {"options"}) \cup {"pscomp"}]
        /\ Then("format")
        /\ UNCHANGED <<first, exporters, walk, object, prefs, lost, image, file>>
     \/ Fails({})

AVIStreamSetFormat ==
  /\ At("format")
  /\ \/ /\ begin' = None
        /\ Created(Avienc)
        /\ UNCHANGED <<first, exporters, avi, image, file>>
     \/ Fails({})

-----------------------------------------------------------------------------
(* Putting frames.                                                         *)

Swapped(o) == IF o = "RGB" THEN "BGR" ELSE "RGB"

CanPut(v) ==
  /\ Idle /\ status[v] = "open"
  /\ framenumber[v] < MaxFrames
  /\ \A w \in Movies \ {v} : framenumber[v] + framenumber[w] <= MaxFrames

(* The order in which a frame should come to the encoder: for Video for    *)
(* Windows BGR, and for the MPEG encoder what the image says it has.       *)
Due(v, i) == IF i \in spoilt THEN "any" ELSE IF handle[v] = Avienc THEN "BGR" ELSE order[i]

AddsFrame(v, i, written) ==
  frames' = [frames EXCEPT ![v] = [n \in DOMAIN @ \cup {framenumber[v]} |->
    IF n = framenumber[v]
    THEN [image |-> i, bytes |-> written, due |-> Due(v, i)]
    ELSE @[n]]]

CountsFailures(v, i, written) ==
  /\ framenumber' = [framenumber EXCEPT ![v] = @ + 1]
  /\ AddsFrame(v, i, written)
  /\ puts' \in {puts, [puts EXCEPT ![v] = Append(@, i)]}

(* A frame is written under framenumber, which is counted if that worked.  *)
Writes(v, i, written) ==
  /\ AddsFrame(v, i, written)
  /\ framenumber' = [framenumber EXCEPT ![v] = @ + 1]
  /\ puts' = [puts EXCEPT ![v] = Append(@, i)]

WriteFails == UNCHANGED file

(* The buffer as it is: the order of its components is not asked for.      *)
(* What becomes of a picture in the MPEG encoder is in MpegSequence.       *)
mpeg2enc_movie_put(v, i) ==
  /\ CanPut(v) /\ handle[v] = Mpeg2enc
  /\ Writes(v, i, bytes[i]) \/ WriteFails
  /\ UNCHANGED <<first, exporters, walk, begin, object, avi, image>>

PutBGR(v, i) ==
  /\ order[i] = "BGR"
  /\ Writes(v, i, bytes[i]) \/ WriteFails
  /\ UNCHANGED image

PutInPlace(v, i) ==
  /\ order[i] = "RGB"
  /\ bytes' = [bytes EXCEPT ![i] = Swapped(@)]
  /\ Writes(v, i, bytes'[i]) \/ WriteFails
  /\ UNCHANGED <<order, spoilt>>

(* With "allow image modification" the buffer itself is swapped, and the   *)
(* image is marked after the frame was written.                            *)
PutModifying(v, i) ==
  /\ order[i] = "RGB"
  /\ bytes' = [bytes EXCEPT ![i] = Swapped(@)]
  /\ \/ /\ Writes(v, i, bytes'[i])
        /\ order' = [order EXCEPT ![i] = "BGR"] /\ UNCHANGED spoilt
     \/ WriteFails /\ UNCHANGED order /\ spoilt' = spoilt \cup {i}

(* "Default to making a copy of the data", which is swapped and destroyed. *)
PutCopy(v, i) ==
  /\ order[i] = "RGB"
  /\ Writes(v, i, Swapped(bytes[i])) \/ WriteFails
  /\ UNCHANGED image

avienc_movie_put(v, i, allow) ==
  /\ CanPut(v) /\ handle[v] = Avienc
  /\ PutBGR(v, i) \/ (allow /\ PutModifying(v, i)) \/ (~allow /\ PutCopy(v, i))
  /\ UNCHANGED <<first, exporters, walk, begin, object, avi>>

-----------------------------------------------------------------------------
(* Closing.                                                                *)

(* avi_end_encode() gives everything back, AVIFileInit() included.         *)
s_movie_close(v) ==
  /\ Idle /\ status[v] = "open"
  /\ status' = [status EXCEPT ![v] = "closed"]
  /\ taken' = [taken EXCEPT ![v] = {}]
  /\ UNCHANGED <<first, exporters, walk, begin, codec, handle, prefs, lost, image, file>>

s_movie_destroy(v) ==
  /\ Idle /\ status[v] = "closed"
  /\ status' = [status EXCEPT ![v] = "none"]
  /\ codec' = [codec EXCEPT ![v] = None]
  /\ handle' = [handle EXCEPT ![v] = None]
  /\ frames' = [frames EXCEPT ![v] = << >>]
  /\ framenumber' = [framenumber EXCEPT ![v] = 0]
  /\ puts' = [puts EXCEPT ![v] = <<>>]
  /\ UNCHANGED <<first, exporters, walk, begin, avi, image>>

Next ==
  \/ \E i \in Images : s_image_set(i) \/ s_image_set_component_order(i)
  \/ \E e \in Exports : s_movie_exporter_add(e)
  \/ \E v \in Movies, mime \in MimeTypes : s_movie_create(v, mime)
  \/ Refuses \/ ClientAccepts \/ mpeg2enc_movie_create \/ NobodyAccepts
  \/ \E useprefs \in BOOLEAN : avienc_movie_create(useprefs)
  \/ AVIFileOpen \/ AVIFileCreateStream \/ AVISaveOptions \/ ReadOptions
  \/ AVIMakeCompressedStream \/ AVIStreamSetFormat
  \/ \E v \in Movies, i \in Images :
       \/ mpeg2enc_movie_put(v, i)
       \/ \E allow \in BOOLEAN : avienc_movie_put(v, i, allow)
  \/ \E v \in Movies : s_movie_close(v) \/ s_movie_destroy(v)

Spec == Init /\ [][Next]_vars

-----------------------------------------------------------------------------
(* Properties.                                                             *)

Resources == {"AVIFileInit", "context", "pfile", "ps", "pscomp", "options"}

(* The list, the movies, the images and the calls in progress have their   *)
(* types.                                                                  *)
CreationOK ==
  /\ first \in BOOLEAN /\ prefs \in BOOLEAN
  /\ exporters \in Seq(Exporters) /\ IsInjective(exporters)
  /\ walk \in Walks \cup {None} /\ begin \in Begins \cup {None}
  /\ walk # None => walk.at \in 1 .. Len(exporters) + 1
MoviesOK ==
  /\ status \in [Movies -> {"none", "open", "closed"}]
  /\ codec \in [Movies -> Exporters \cup {None}] /\ handle \in [Movies -> Exporters \cup {None}]
  /\ taken \in [Movies -> SUBSET Resources]
ImagesOK ==
  /\ bytes \in [Images -> Orders] /\ order \in [Images -> Orders] /\ spoilt \subseteq Images
FilesOK ==
  /\ DOMAIN frames = Movies
  /\ framenumber \in [Movies -> 0 .. MaxFrames] /\ puts \in [Movies -> Seq(Images)]
TypeOK == CreationOK /\ MoviesOK /\ ImagesOK /\ FilesOK

(* A movie's handle is that of the exporter whose functions it has, also   *)
(* after an exporter that was asked first has failed half way.             *)
HandleIsTheCodecs ==
  \A v \in Movies : status[v] # "none" =>
    handle[v] = IF codec[v] \in Exports THEN None ELSE codec[v]

(* Wherever avi_begin_encode() fails, it releases the file and its streams *)
(* and frees its context; a movie that was created has all of them, and    *)
(* the options are no longer held.  What is never given back is            *)
(* AVIFileInit() and the options of creations that failed, and a           *)
(* preferences file that is left open.  No put or close hands an AVI       *)
(* context to the MPEG encoder.                                            *)
AviHoldsAllOrNothing ==
  /\ TypeOK
  /\ HandleIsTheCodecs
  /\ Idle => \A v \in Movies :
       taken[v] = IF status[v] = "open" /\ codec[v] = Avienc
                  THEN {"AVIFileInit", "context", "pfile", "ps", "pscomp"} ELSE {}
  /\ lost \subseteq {"AVIFileInit", "options", "preferences"}

(* AVIStreamWrite() "requires the color components to be ordered BGR"      *)
(* (avi_encode.c:283): each frame of an AVI file is in BGR, however often  *)
(* its image was put, into whichever movies and with or without the leave  *)
(* to modify it.  The MPEG encoder reads RGB (readpic.c:393) and gets the  *)
(* order that the image says it has: so its pictures are true for images   *)
(* that say RGB, and those that say BGR, because the client drew in it or  *)
(* an AVI put was given the leave to modify them, come out with red for    *)
(* blue.  Excepted is an image that a put with that leave has failed to    *)
(* write, which leaves it swapped and not marked.                          *)
FramesAreTrue ==
  \A v \in Movies : \A n \in DOMAIN frames[v] :
    frames[v][n].due \in {frames[v][n].bytes, "any"}

(* The encoder of a movie has one frame for each put of that movie that    *)
(* returned 1, of the image put, in that order and without gaps, also when *)
(* puts in between have failed or went to the other movie.                 *)
FramesAreThePuts ==
  \A v \in Movies : handle[v] \in {Avienc, Mpeg2enc} =>
    /\ DOMAIN frames[v] = 0 .. Len(puts[v]) - 1
    /\ \A n \in DOMAIN frames[v] : frames[v][n].image = puts[v][n + 1]

=============================================================================
