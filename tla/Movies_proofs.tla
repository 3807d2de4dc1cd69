---------------------------- MODULE Movies_proofs ----------------------------
(***************************************************************************)
(* Proofs about the movies (Movies), for any exporters, movies and images  *)
(* and any number of frames: an AVI encoder holds all it needs or nothing, *)
(* every frame has the order of colours that Windows requires or its image *)
(* says, and the frames an encoder got are the puts that worked.           *)
(*                                                                         *)
(* AviHoldsAllOrNothing is about the moments between two calls; HeldSoFar  *)
(* says what is held after each call to Video for Windows in between.      *)
(* MarksAreTrue is what FramesAreTrue rests on: the buffer of an image is  *)
(* in the order the image says, except those a failed put has swapped.     *)
(***************************************************************************)
EXTENDS Movies, TLAPS

(* What avi_begin_encode() holds when it has come to a stage.              *)
Held(stage) ==
  CASE stage = "open"     -> {"AVIFileInit", "context"}
    [] stage = "stream"   -> {"AVIFileInit", "context", "pfile"}
    [] stage = "options"  -> {"AVIFileInit", "context", "pfile", "ps"}
    [] stage = "compress" -> {"AVIFileInit", "context", "pfile", "ps", "options"}
    [] stage = "format"   -> {"AVIFileInit", "context", "pfile", "ps", "pscomp"}

InternalsAwaited == first => \A k \in 1 .. Len(exporters) : exporters[k] \in Exports

(* A movie that is being created has no file yet; avi_begin_encode() runs  *)
(* only while the AVI exporter is asked.                                   *)
CallsInProgress ==
  /\ walk # None => status[walk.movie] = "none" /\ ~first
  /\ begin # None =>
       /\ walk # None /\ walk.at <= Len(exporters) /\ exporters[walk.at] = Avienc

HeldSoFar ==
  \A v \in Movies :
    taken[v] = IF begin # None /\ walk.movie = v THEN Held(begin.stage)
               ELSE IF status[v] = "open" /\ codec[v] = Avienc
               THEN {"AVIFileInit", "context", "pfile", "ps", "pscomp"} ELSE {}

LostIsKnown == lost \subseteq {"AVIFileInit", "options", "preferences"}

CodecsAreNamed == \A v \in Movies : status[v] # "none" => codec[v] \in Exporters

MarksAreTrue == \A i \in Images \ spoilt : bytes[i] = order[i]

(* A structure that is not in use has no frames; framenumber counts the    *)
(* puts, whichever encoder the movie has.                                  *)
FramesAreCounted ==
  \A v \in Movies :
    /\ framenumber[v] = Len(puts[v])
    /\ status[v] = "none" => handle[v] = None /\ puts[v] = <<>> /\ frames[v] = << >>

Inv ==
  /\ TypeOK
  /\ InternalsAwaited /\ CallsInProgress /\ CodecsAreNamed
  /\ HandleIsTheCodecs
  /\ HeldSoFar /\ LostIsKnown
  /\ MarksAreTrue /\ FramesAreTrue
  /\ FramesAreCounted /\ FramesAreThePuts

LEMMA InvInit == Init => Inv
<1> USE ExportersAssumption, BoundsAssumption
<1> SUFFICES ASSUME Init PROVE Inv
  OBVIOUS
<1>1. TypeOK
  <2>1. exporters \in Seq(Exporters) /\ IsInjective(exporters)
    BY DEF Init, IsInjective
  <2>2. first \in BOOLEAN /\ prefs \in BOOLEAN /\ walk = None /\ begin = None
    BY DEF Init
  <2>3. CreationOK
    BY <2>1, <2>2 DEF CreationOK
  <2> QED BY <2>3 DEF Init, TypeOK, MoviesOK, ImagesOK, FilesOK, Orders
<1>2. FramesAreThePuts
  BY DEF Init, FramesAreThePuts
<1> QED BY <1>1, <1>2 DEF Init, Inv, InternalsAwaited, CallsInProgress, CodecsAreNamed,
     HandleIsTheCodecs, HeldSoFar, LostIsKnown, MarksAreTrue, FramesAreTrue, FramesAreCounted

(* A call to Video for Windows that works takes avi_begin_encode() to its  *)
(* next stage.                                                             *)
LEMMA AdvancingKeepsInv ==
  ASSUME Inv, begin # None, NEW stage \in Stages, Then(stage),
         taken' = [taken EXCEPT ![Target] = Held(stage)],
         prefs' \in BOOLEAN, LostIsKnown',
         UNCHANGED <<first, exporters, walk, object, image, file>>
  PROVE  Inv'
<1> USE ExportersAssumption DEF Inv, TypeOK, object, image, file, Then, Target
<1>1. walk # None /\ walk \in Walks /\ walk.movie \in Movies /\ begin \in Begins
  BY DEF CallsInProgress, CreationOK, Walks
<1>2. begin' \in Begins /\ begin'.stage = stage
  BY <1>1 DEF Begins
<1>3. begin' # None
  BY <1>2
<1>4. Held(stage) \subseteq Resources
  BY DEF Held, Resources, Stages
<1>5. CreationOK' /\ CallsInProgress'
  BY <1>2 DEF CreationOK, CallsInProgress
<1>6. MoviesOK'
  BY <1>1, <1>4 DEF MoviesOK
<1>7. HeldSoFar'
  <2> HIDE DEF Then
  <2>1. taken'[walk.movie] = Held(begin'.stage)
    BY <1>1, <1>2 DEF MoviesOK
  <2>2. \A v \in Movies \ {walk.movie} : taken'[v] = taken[v]
    BY DEF MoviesOK
  <2> QED BY <1>1, <1>3, <2>1, <2>2 DEF HeldSoFar
<1>8. ImagesOK' /\ InternalsAwaited' /\ CodecsAreNamed' /\ HandleIsTheCodecs' /\ MarksAreTrue'
  BY DEF ImagesOK, InternalsAwaited, CodecsAreNamed, HandleIsTheCodecs, MarksAreTrue
<1>9. FilesOK' /\ FramesAreTrue' /\ FramesAreCounted' /\ FramesAreThePuts'
  BY DEF FilesOK, FramesAreTrue, FramesAreCounted, FramesAreThePuts
<1> QED BY <1>5, <1>6, <1>7, <1>8, <1>9

(* A call that does not work ends avi_begin_encode().                      *)
LEMMA FailingKeepsInv ==
  ASSUME Inv, begin # None, NEW more \in SUBSET {"options", "preferences"}, Fails(more)
  PROVE  Inv'
<1> USE ExportersAssumption DEF Inv, TypeOK, object, image, file, Target
<1>0. /\ begin' = None /\ walk' = [walk EXCEPT !.at = walk.at + 1]
      /\ taken' = [taken EXCEPT ![Target] = {}]
      /\ lost' = lost \cup (taken[Target] \cap {"AVIFileInit", "options"}) \cup more
      /\ UNCHANGED <<first, exporters, object, prefs, image, file>>
  BY DEF Fails, AskNext
<1>1. walk # None /\ walk \in Walks /\ walk.movie \in Movies
  BY DEF CallsInProgress, CreationOK, Walks
<1>2. walk' \in Walks /\ walk'.movie = walk.movie /\ walk'.at = walk.at + 1 /\ walk.at \in Nat
      /\ walk.at <= Len(exporters)
  <2>1. walk.at \in Nat /\ walk.at + 1 \in Nat
    BY <1>1 DEF Walks
  <2> QED BY <1>0, <1>1, <2>1 DEF Walks, CallsInProgress
<1>3. walk' # None
  BY <1>2
<1>4. walk'.at \in 1 .. Len(exporters)' + 1
  BY <1>0, <1>1, <1>2 DEF CreationOK
<1>5. CreationOK' /\ CallsInProgress'
  BY <1>0, <1>1, <1>2, <1>3, <1>4 DEF CreationOK, CallsInProgress
<1>6. MoviesOK'
  BY <1>0 DEF MoviesOK
<1>7. HeldSoFar' /\ LostIsKnown'
  BY <1>0, <1>1, <1>2, <1>3 DEF HeldSoFar, LostIsKnown, CallsInProgress, MoviesOK
<1>8. ImagesOK' /\ InternalsAwaited' /\ CodecsAreNamed' /\ HandleIsTheCodecs' /\ MarksAreTrue'
  BY <1>0 DEF ImagesOK, InternalsAwaited, CodecsAreNamed, HandleIsTheCodecs, MarksAreTrue
<1>9. FilesOK' /\ FramesAreTrue' /\ FramesAreCounted' /\ FramesAreThePuts'
  BY <1>0 DEF FilesOK, FramesAreTrue, FramesAreCounted, FramesAreThePuts
<1> QED BY <1>5, <1>6, <1>7, <1>8, <1>9

(* The exporter that was asked creates the movie.                          *)
LEMMA CreatingKeepsInv ==
  ASSUME Inv, walk # None, walk.at <= Len(exporters), begin' = None,
         Created(IF Asked \in Exports THEN None ELSE Asked),
         taken[walk.movie] = IF Asked = Avienc
                             THEN {"AVIFileInit", "context", "pfile", "ps", "pscomp"} ELSE {},
         UNCHANGED <<first, exporters, avi, image, file>>
  PROVE  Inv'
<1> USE ExportersAssumption DEF Inv, TypeOK, avi, image, file
<1> DEFINE m == walk.movie
           h == IF Asked \in Exports THEN None ELSE Asked
<1>1. walk \in Walks /\ m \in Movies /\ walk.at \in 1 .. Len(exporters) /\ status[m] = "none"
  BY DEF CallsInProgress, CreationOK, Walks
<1>2. Asked \in Exporters /\ h \in Exporters \cup {None}
  BY <1>1 DEF Asked, CreationOK
<1>3. /\ status' = [status EXCEPT ![m] = "open"] /\ codec' = [codec EXCEPT ![m] = Asked]
      /\ handle' = [handle EXCEPT ![m] = h] /\ walk' = None
  BY DEF Created
<1> HIDE DEF m, h
<1>4. /\ status'[m] = "open" /\ codec'[m] = Asked /\ handle'[m] = h
      /\ \A v \in Movies \ {m} : status'[v] = status[v] /\ codec'[v] = codec[v] /\ handle'[v] = handle[v]
  BY <1>1, <1>3 DEF MoviesOK
<1>5. CreationOK' /\ CallsInProgress'
  BY <1>3 DEF CreationOK, CallsInProgress
<1>6. MoviesOK'
  BY <1>1, <1>2, <1>3 DEF MoviesOK
<1>7. CodecsAreNamed' /\ HandleIsTheCodecs'
  BY <1>1, <1>2, <1>4 DEF CodecsAreNamed, HandleIsTheCodecs, h
<1>8. HeldSoFar'
  BY <1>1, <1>4 DEF HeldSoFar, m
<1>9. FramesAreCounted' /\ FramesAreThePuts'
  BY <1>1, <1>4 DEF FramesAreCounted, FramesAreThePuts
<1>10. ImagesOK' /\ FilesOK' /\ InternalsAwaited' /\ LostIsKnown' /\ MarksAreTrue' /\ FramesAreTrue'
  BY DEF ImagesOK, FilesOK, InternalsAwaited, LostIsKnown, MarksAreTrue, FramesAreTrue
<1> QED BY <1>5, <1>6, <1>7, <1>8, <1>9, <1>10

(* Writing a frame in the order it should have, or one of an image that is *)
(* spoilt, is writing the frame of this put behind those of the puts       *)
(* before.                                                                 *)
LEMMA WritingKeepsFrames ==
  ASSUME Inv, NEW v \in Movies, NEW i \in Images, NEW written,
         status[v] = "open", framenumber[v] < MaxFrames,
         Writes(v, i, written), Due(v, i) \in {written, "any"},
         UNCHANGED object
  PROVE  FilesOK' /\ FramesAreTrue' /\ FramesAreCounted' /\ FramesAreThePuts'
<1> USE BoundsAssumption DEF Inv, TypeOK, object
<1> DEFINE n == framenumber[v]
<1>1. n \in Nat /\ n = Len(puts[v]) /\ n + 1 \in 0 .. MaxFrames /\ puts[v] \in Seq(Images)
  BY DEF FilesOK, FramesAreCounted
<1> DEFINE added == [k \in DOMAIN frames[v] \cup {n} |->
             IF k = n THEN [image |-> i, bytes |-> written, due |-> Due(v, i)] ELSE frames[v][k]]
<1>2. /\ frames' = [frames EXCEPT ![v] = added]
      /\ framenumber' = [framenumber EXCEPT ![v] = n + 1]
      /\ puts' = [puts EXCEPT ![v] = Append(puts[v], i)]
  BY DEF Writes, AddsFrame
<1>3. DOMAIN added = DOMAIN frames[v] \cup {n} /\ added[n].image = i /\ added[n].bytes = written
      /\ added[n].due = Due(v, i)
      /\ \A k \in DOMAIN frames[v] \ {n} : added[k] = frames[v][k]
  OBVIOUS
<1> HIDE DEF added
<1>4. frames'[v] = added /\ \A w \in Movies \ {v} : frames'[w] = frames[w]
  BY <1>2 DEF FilesOK
<1>5. puts'[v] = Append(puts[v], i) /\ framenumber'[v] = n + 1
      /\ \A w \in Movies \ {v} : puts'[w] = puts[w] /\ framenumber'[w] = framenumber[w]
  BY <1>2 DEF FilesOK
<1>6. Len(puts'[v]) = n + 1 /\ puts'[v][n + 1] = i /\ \A k \in 1 .. n : puts'[v][k] = puts[v][k]
  BY <1>1, <1>5
<1>7. FilesOK'
  <2>1. DOMAIN frames' = Movies
    BY <1>2 DEF FilesOK
  <2>2. framenumber' \in [Movies -> 0 .. MaxFrames]
    BY <1>1, <1>2 DEF FilesOK
  <2>3. Append(puts[v], i) \in Seq(Images)
    BY <1>1
  <2>4. puts' \in [Movies -> Seq(Images)]
    BY <1>2, <2>3 DEF FilesOK
  <2> QED BY <2>1, <2>2, <2>4 DEF FilesOK
<1>8. FramesAreTrue'
  BY <1>3, <1>4 DEF FramesAreTrue
<1>9. FramesAreCounted'
  BY <1>5, <1>6, <1>4 DEF FramesAreCounted
<1>10. FramesAreThePuts'
  <2>1. ASSUME handle[v] \in {Avienc, Mpeg2enc}
        PROVE  /\ DOMAIN frames'[v] = 0 .. Len(puts'[v]) - 1
               /\ \A k \in DOMAIN frames'[v] : frames'[v][k].image = puts'[v][k + 1]
    <3>1. DOMAIN frames[v] = 0 .. n - 1
          /\ \A k \in DOMAIN frames[v] : frames[v][k].image = puts[v][k + 1]
      BY <1>1, <2>1 DEF FramesAreThePuts
    <3>2. DOMAIN added = 0 .. n
      BY <1>1, <1>3, <3>1
    <3>3. ASSUME NEW k \in 0 .. n
          PROVE  added[k].image = puts'[v][k + 1]
      <4>1. CASE k = n
        BY <1>3, <1>6, <4>1
      <4>2. CASE k # n
        <5>1. k \in DOMAIN frames[v] \ {n} /\ k + 1 \in 1 .. n
          BY <1>1, <3>1, <4>2
        <5> QED BY <1>3, <1>6, <3>1, <5>1
      <4> QED BY <4>1, <4>2
    <3> QED BY <1>1, <1>4, <1>6, <3>2, <3>3
  <2> QED BY <1>4, <1>5, <2>1, SMTT(20) DEF FramesAreThePuts
<1> QED BY <1>7, <1>8, <1>9, <1>10

(* The client gives an image a new picture. *)
LEMMA s_image_setKeepsInv ==
  ASSUME Inv, NEW i \in Images, s_image_set(i)
  PROVE  Inv'
<1> USE ExportersAssumption, BoundsAssumption
       DEF Inv, TypeOK, object, avi, image, file, s_image_set, Idle, Orders
<1>1. ImagesOK'
  BY DEF ImagesOK
<1>2. MarksAreTrue'
  BY DEF MarksAreTrue, ImagesOK
<1>3. CreationOK' /\ MoviesOK' /\ InternalsAwaited' /\ CallsInProgress'
      /\ CodecsAreNamed' /\ HandleIsTheCodecs' /\ HeldSoFar' /\ LostIsKnown'
  BY DEF CreationOK, MoviesOK, InternalsAwaited, CallsInProgress, CodecsAreNamed,
       HandleIsTheCodecs, HeldSoFar, LostIsKnown
<1>4. FilesOK' /\ FramesAreTrue' /\ FramesAreCounted' /\ FramesAreThePuts'
  BY DEF FilesOK, FramesAreTrue, FramesAreCounted, FramesAreThePuts
<1> QED BY <1>1, <1>2, <1>3, <1>4

(* The client draws in BGR and says so. *)
LEMMA s_image_set_component_orderKeepsInv ==
  ASSUME Inv, NEW i \in Images, s_image_set_component_order(i)
  PROVE  Inv'
<1> USE ExportersAssumption, BoundsAssumption
       DEF Inv, TypeOK, object, avi, image, file, s_image_set_component_order, Idle, Orders
<1>1. ImagesOK'
  BY DEF ImagesOK
<1>2. MarksAreTrue'
  BY DEF MarksAreTrue, ImagesOK
<1>3. CreationOK' /\ MoviesOK' /\ InternalsAwaited' /\ CallsInProgress'
      /\ CodecsAreNamed' /\ HandleIsTheCodecs' /\ HeldSoFar' /\ LostIsKnown'
  BY DEF CreationOK, MoviesOK, InternalsAwaited, CallsInProgress, CodecsAreNamed,
       HandleIsTheCodecs, HeldSoFar, LostIsKnown
<1>4. FilesOK' /\ FramesAreTrue' /\ FramesAreCounted' /\ FramesAreThePuts'
  BY DEF FilesOK, FramesAreTrue, FramesAreCounted, FramesAreThePuts
<1> QED BY <1>1, <1>2, <1>3, <1>4

(* A client adds an exporter. *)
LEMMA s_movie_exporter_addKeepsInv ==
  ASSUME Inv, NEW e \in Exports, s_movie_exporter_add(e)
  PROVE  Inv'
<1> USE ExportersAssumption, BoundsAssumption
       DEF Inv, TypeOK, object, avi, image, file, s_movie_exporter_add, Idle, ToSet
<1>1. CreationOK'
  BY DEF CreationOK, InternalsAwaited, CallsInProgress, IsInjective, Exporters, Walks,
       Begins
<1>2. InternalsAwaited'
  BY DEF InternalsAwaited, CreationOK
<1>3. CallsInProgress'
  BY DEF CallsInProgress, CreationOK, MoviesOK, HeldSoFar
<1>4. MoviesOK' /\ ImagesOK' /\ CodecsAreNamed' /\ HandleIsTheCodecs' /\ HeldSoFar'
      /\ LostIsKnown' /\ MarksAreTrue'
  BY DEF MoviesOK, ImagesOK, CodecsAreNamed, HandleIsTheCodecs, HeldSoFar, LostIsKnown,
       MarksAreTrue
<1>5. FilesOK' /\ FramesAreTrue' /\ FramesAreCounted' /\ FramesAreThePuts'
  BY DEF FilesOK, FramesAreTrue, FramesAreCounted, FramesAreThePuts
<1> QED BY <1>1, <1>2, <1>3, <1>4, <1>5

(* A creation begins; the first one adds the exporters of the library. *)
LEMMA s_movie_createKeepsInv ==
  ASSUME Inv, NEW m \in Movies, NEW mime \in MimeTypes, s_movie_create(m, mime)
  PROVE  Inv'
<1> USE ExportersAssumption, BoundsAssumption
       DEF Inv, TypeOK, object, avi, image, file, s_movie_create, add_internal_exporters,
       Idle, Walks
<1>1. CreationOK'
  <2>1. /\ walk' \in Walks /\ walk'.at = 1 /\ first' = FALSE /\ prefs' = prefs /\ begin' = begin
        /\ exporters' = IF first THEN exporters \o <<Mpeg2enc, Avienc>> ELSE exporters
    OBVIOUS
  <2> HIDE DEF s_movie_create, Walks
  <2>2. exporters' \in Seq(Exporters) /\ IsInjective(exporters')
    <3>1. CASE ~first
      BY <2>1, <3>1 DEF CreationOK
    <3>2. CASE first
      <4>1. exporters \in Seq(Exporters) /\ Mpeg2enc \in Exporters /\ Avienc \in Exporters
        BY DEF CreationOK, Exporters
      <4>2. exporters' = exporters \o <<Mpeg2enc, Avienc>>
        BY <2>1, <3>2
      <4>3. exporters' \in Seq(Exporters)
        BY <4>1, <4>2
      <4>4. \A k \in 1 .. Len(exporters)' :
              exporters'[k] = IF k <= Len(exporters) THEN exporters[k]
                              ELSE IF k = Len(exporters) + 1 THEN Mpeg2enc ELSE Avienc
        BY <4>1, <4>2
      <4>5. Len(exporters)' = Len(exporters) + 2 /\ Len(exporters) \in Nat
        BY <4>1, <4>2
      <4>6. IsInjective(exporters')
        BY <3>2, <4>3, <4>4, <4>5 DEF CreationOK, IsInjective, InternalsAwaited
      <4> QED BY <4>3, <4>6
    <3> QED BY <3>1, <3>2
  <2>3. walk'.at \in 1 .. Len(exporters)' + 1
    BY <2>1, <2>2
  <2> QED BY <2>1, <2>2, <2>3 DEF CreationOK
<1>2. InternalsAwaited'
  BY DEF InternalsAwaited, CreationOK
<1>3. CallsInProgress'
  BY DEF CallsInProgress, CreationOK, MoviesOK, HeldSoFar
<1>4. HeldSoFar'
  BY DEF HeldSoFar, CreationOK, MoviesOK, CallsInProgress, Held
<1>5. MoviesOK' /\ ImagesOK' /\ CodecsAreNamed' /\ HandleIsTheCodecs' /\ LostIsKnown'
      /\ MarksAreTrue'
  BY DEF MoviesOK, ImagesOK, CodecsAreNamed, HandleIsTheCodecs, LostIsKnown, MarksAreTrue
<1>6. FilesOK' /\ FramesAreTrue' /\ FramesAreCounted' /\ FramesAreThePuts'
  BY DEF FilesOK, FramesAreTrue, FramesAreCounted, FramesAreThePuts
<1> QED BY <1>1, <1>2, <1>3, <1>4, <1>5, <1>6

(* An exporter refuses the movie. *)
LEMMA RefusesKeepsInv ==
  ASSUME Inv, Refuses
  PROVE  Inv'
<1> USE ExportersAssumption, BoundsAssumption
       DEF Inv, TypeOK, object, avi, image, file, Refuses, Asking, AskNext
<1>1. CreationOK'
  BY DEF CreationOK, InternalsAwaited, CallsInProgress, IsInjective, Exporters, Walks,
       Begins
<1>2. CallsInProgress'
  BY DEF CallsInProgress, CreationOK, MoviesOK, HeldSoFar
<1>3. HeldSoFar'
  BY DEF HeldSoFar, CreationOK, MoviesOK, CallsInProgress, Held
<1>4. MoviesOK' /\ ImagesOK' /\ InternalsAwaited' /\ CodecsAreNamed'
      /\ HandleIsTheCodecs' /\ LostIsKnown' /\ MarksAreTrue'
  BY DEF MoviesOK, ImagesOK, InternalsAwaited, CodecsAreNamed, HandleIsTheCodecs,
       LostIsKnown, MarksAreTrue
<1>5. FilesOK' /\ FramesAreTrue' /\ FramesAreCounted' /\ FramesAreThePuts'
  BY DEF FilesOK, FramesAreTrue, FramesAreCounted, FramesAreThePuts
<1> QED BY <1>1, <1>2, <1>3, <1>4, <1>5

(* A client's exporter takes the movie. *)
LEMMA ClientAcceptsKeepsInv ==
  ASSUME Inv, ClientAccepts
  PROVE  Inv'
<1>1. Asked # Avienc
  BY ExportersAssumption DEF ClientAccepts
<1>2. taken[walk.movie] = {}
  BY DEF ClientAccepts, Asking, Inv, HeldSoFar, CallsInProgress, TypeOK, CreationOK, Walks
<1> QED BY <1>1, <1>2, CreatingKeepsInv DEF ClientAccepts, Asking

(* The MPEG exporter takes the movie. *)
LEMMA mpeg2enc_movie_createKeepsInv ==
  ASSUME Inv, mpeg2enc_movie_create
  PROVE  Inv'
<1>1. Asked = Mpeg2enc /\ Asked # Avienc /\ Asked \notin Exports
  BY ExportersAssumption DEF mpeg2enc_movie_create
<1>2. taken[walk.movie] = {}
  BY DEF mpeg2enc_movie_create, Asking, Inv, HeldSoFar, CallsInProgress, TypeOK, CreationOK, Walks
<1>3. Created(IF Asked \in Exports THEN None ELSE Asked)
  BY <1>1 DEF mpeg2enc_movie_create
<1> QED BY <1>1, <1>2, <1>3, CreatingKeepsInv DEF mpeg2enc_movie_create, Asking

(* The AVI exporter begins to open a file. *)
LEMMA avienc_movie_createKeepsInv ==
  ASSUME Inv, NEW useprefs \in BOOLEAN, avienc_movie_create(useprefs)
  PROVE  Inv'
<1> USE ExportersAssumption, BoundsAssumption
       DEF Inv, TypeOK, object, avi, image, file, avienc_movie_create, Asking, Asked
<1>a. walk \in Walks /\ walk # None /\ walk.movie \in Movies
  BY DEF CreationOK, Walks
<1>b. begin' = [stage |-> "open", useprefs |-> useprefs] /\ begin' \in Begins /\ begin'.stage = "open"
  BY DEF Begins, Stages
<1>c. begin' # None
  BY <1>b
<1>1. CreationOK'
  BY <1>b DEF CreationOK
<1>2. MoviesOK'
  BY DEF MoviesOK, CallsInProgress, CreationOK, Walks, Resources
<1>3. CallsInProgress'
  BY DEF CallsInProgress, CreationOK, MoviesOK, HeldSoFar
<1>4. HeldSoFar'
  <2>1. Held("open") = {"AVIFileInit", "context"}
    BY DEF Held
  <2>2. /\ taken' = [taken EXCEPT ![walk.movie] = Held("open")]
        /\ UNCHANGED <<walk, status, codec>> /\ begin = None
    BY <2>1
  <2>3. taken'[walk.movie] = Held("open") /\ \A v \in Movies \ {walk.movie} : taken'[v] = taken[v]
    BY <1>a, <2>2 DEF MoviesOK
  <2> HIDE DEF avienc_movie_create
  <2>4. ASSUME NEW v \in Movies \ {walk.movie}
        PROVE  taken[v] = IF status[v] = "open" /\ codec[v] = Avienc
                          THEN {"AVIFileInit", "context", "pfile", "ps", "pscomp"} ELSE {}
    BY <2>2 DEF HeldSoFar
  <2>5. walk' = walk /\ status' = status /\ codec' = codec /\ Held(begin'.stage) = Held("open")
    BY <1>b, <2>2
  <2> QED BY <1>a, <1>c, <2>3, <2>4, <2>5 DEF HeldSoFar
<1>5. ImagesOK' /\ InternalsAwaited' /\ CodecsAreNamed' /\ HandleIsTheCodecs'
      /\ LostIsKnown' /\ MarksAreTrue'
  BY DEF ImagesOK, InternalsAwaited, CodecsAreNamed, HandleIsTheCodecs, LostIsKnown,
       MarksAreTrue
<1>6. FilesOK' /\ FramesAreTrue' /\ FramesAreCounted' /\ FramesAreThePuts'
  BY DEF FilesOK, FramesAreTrue, FramesAreCounted, FramesAreThePuts
<1> QED BY <1>1, <1>2, <1>3, <1>4, <1>5, <1>6

(* No exporter takes the movie. *)
LEMMA NobodyAcceptsKeepsInv ==
  ASSUME Inv, NobodyAccepts
  PROVE  Inv'
<1> USE ExportersAssumption, BoundsAssumption
       DEF Inv, TypeOK, object, avi, image, file, NobodyAccepts
<1>1. CreationOK'
  BY DEF CreationOK, InternalsAwaited, CallsInProgress, IsInjective, Exporters, Walks,
       Begins
<1>2. CallsInProgress'
  BY DEF CallsInProgress, CreationOK, MoviesOK, HeldSoFar
<1>3. HeldSoFar'
  BY DEF HeldSoFar, CreationOK, MoviesOK, CallsInProgress, Held
<1>4. MoviesOK' /\ ImagesOK' /\ InternalsAwaited' /\ CodecsAreNamed'
      /\ HandleIsTheCodecs' /\ LostIsKnown' /\ MarksAreTrue'
  BY DEF MoviesOK, ImagesOK, InternalsAwaited, CodecsAreNamed, HandleIsTheCodecs,
       LostIsKnown, MarksAreTrue
<1>5. FilesOK' /\ FramesAreTrue' /\ FramesAreCounted' /\ FramesAreThePuts'
  BY DEF FilesOK, FramesAreTrue, FramesAreCounted, FramesAreThePuts
<1> QED BY <1>1, <1>2, <1>3, <1>4, <1>5

(* AVIFileOpen() works or fails. *)
LEMMA AVIFileOpenKeepsInv ==
  ASSUME Inv, AVIFileOpen
  PROVE  Inv'
<1>1. begin # None /\ taken[Target] = Held("open") /\ Target \in Movies /\ prefs \in BOOLEAN
  BY DEF AVIFileOpen, At, Target, Inv, HeldSoFar, CallsInProgress, TypeOK, CreationOK, Walks
<1>2. CASE Takes({"pfile"}, "stream") /\ UNCHANGED <<prefs, lost>>
  <2>1. Held("open") \cup {"pfile"} = Held("stream")
    BY DEF Held
  <2>2. taken' = [taken EXCEPT ![Target] = Held("stream")]
    BY <1>1, <1>2, <2>1 DEF Takes
  <2>3. LostIsKnown' /\ prefs' \in BOOLEAN /\ "stream" \in Stages
    BY <1>1, <1>2 DEF Inv, LostIsKnown, Stages
  <2> QED BY <1>1, <1>2, <2>2, <2>3, AdvancingKeepsInv DEF Takes
<1> QED BY <1>1, <1>2, FailingKeepsInv DEF AVIFileOpen

(* AVIFileCreateStream() works or fails. *)
LEMMA AVIFileCreateStreamKeepsInv ==
  ASSUME Inv, AVIFileCreateStream
  PROVE  Inv'
<1>1. begin # None /\ taken[Target] = Held("stream") /\ Target \in Movies /\ prefs \in BOOLEAN
  BY DEF AVIFileCreateStream, At, Target, Inv, HeldSoFar, CallsInProgress, TypeOK, CreationOK, Walks
<1>2. CASE Takes({"ps"}, "options") /\ UNCHANGED <<prefs, lost>>
  <2>1. Held("stream") \cup {"ps"} = Held("options")
    BY DEF Held
  <2>2. taken' = [taken EXCEPT ![Target] = Held("options")]
    BY <1>1, <1>2, <2>1 DEF Takes
  <2>3. LostIsKnown' /\ prefs' \in BOOLEAN /\ "options" \in Stages
    BY <1>1, <1>2 DEF Inv, LostIsKnown, Stages
  <2> QED BY <1>1, <1>2, <2>2, <2>3, AdvancingKeepsInv DEF Takes
<1> QED BY <1>1, <1>2, FailingKeepsInv DEF AVIFileCreateStream

(* The options come from the dialog, or do not. *)
LEMMA AVISaveOptionsKeepsInv ==
  ASSUME Inv, AVISaveOptions
  PROVE  Inv'
<1>1. begin # None /\ taken[Target] = Held("options") /\ Target \in Movies
      /\ prefs \in BOOLEAN /\ begin.useprefs \in BOOLEAN
  BY DEF AVISaveOptions, At, Target, Inv, HeldSoFar, CallsInProgress, TypeOK, CreationOK, Walks, Begins
<1>2. CASE Takes({"options"}, "compress") /\ prefs' = (prefs \/ begin.useprefs) /\ UNCHANGED lost
  <2>1. Held("options") \cup {"options"} = Held("compress")
    BY DEF Held
  <2>2. taken' = [taken EXCEPT ![Target] = Held("compress")]
    BY <1>1, <1>2, <2>1 DEF Takes
  <2>3. LostIsKnown' /\ prefs' \in BOOLEAN /\ "compress" \in Stages
    BY <1>1, <1>2 DEF Inv, LostIsKnown, Stages
  <2> QED BY <1>1, <1>2, <2>2, <2>3, AdvancingKeepsInv DEF Takes
<1> QED BY <1>1, <1>2, FailingKeepsInv DEF AVISaveOptions

(* The options come from the preferences file, or do not. *)
LEMMA ReadOptionsKeepsInv ==
  ASSUME Inv, ReadOptions
  PROVE  Inv'
<1>1. begin # None /\ taken[Target] = Held("options") /\ Target \in Movies /\ prefs \in BOOLEAN
  BY DEF ReadOptions, At, Target, Inv, HeldSoFar, CallsInProgress, TypeOK, CreationOK, Walks
<1>2. CASE Takes({"options"}, "compress") /\ lost' = lost \cup {"preferences"} /\ UNCHANGED prefs
  <2>1. Held("options") \cup {"options"} = Held("compress")
    BY DEF Held
  <2>2. taken' = [taken EXCEPT ![Target] = Held("compress")]
    BY <1>1, <1>2, <2>1 DEF Takes
  <2>3. LostIsKnown' /\ prefs' \in BOOLEAN /\ "compress" \in Stages
    BY <1>1, <1>2 DEF Inv, LostIsKnown, Stages
  <2> QED BY <1>1, <1>2, <2>2, <2>3, AdvancingKeepsInv DEF Takes
<1> QED BY <1>1, <1>2, FailingKeepsInv DEF ReadOptions

(* The compressed stream takes over the options, or fails. *)
LEMMA AVIMakeCompressedStreamKeepsInv ==
  ASSUME Inv, AVIMakeCompressedStream
  PROVE  Inv'
<1>1. begin # None /\ taken[Target] = Held("compress") /\ Target \in Movies /\ prefs \in BOOLEAN
  BY DEF AVIMakeCompressedStream, At, Target, Inv, HeldSoFar, CallsInProgress, TypeOK, CreationOK, Walks
<1>2. CASE /\ taken' = [taken EXCEPT ![Target] = (@ \ {"options"}) \cup {"pscomp"}]
           /\ Then("format")
           /\ UNCHANGED <<first, exporters, walk, object, prefs, lost, image, file>>
  <2>1. (Held("compress") \ {"options"}) \cup {"pscomp"} = Held("format")
    BY DEF Held
  <2>2. taken' = [taken EXCEPT ![Target] = Held("format")]
    BY <1>1, <1>2, <2>1
  <2>3. LostIsKnown' /\ prefs' \in BOOLEAN /\ "format" \in Stages
    BY <1>1, <1>2 DEF Inv, LostIsKnown, Stages
  <2> QED BY <1>1, <1>2, <2>2, <2>3, AdvancingKeepsInv
<1> QED BY <1>1, <1>2, FailingKeepsInv DEF AVIMakeCompressedStream

(* The movie is created when the format of its stream is set. *)
LEMMA AVIStreamSetFormatKeepsInv ==
  ASSUME Inv, AVIStreamSetFormat
  PROVE  Inv'
<1>1. begin # None /\ taken[Target] = Held("format") /\ Target \in Movies
      /\ walk # None /\ walk.at <= Len(exporters) /\ Asked = Avienc
  BY DEF AVIStreamSetFormat, At, Target, Asked, Inv, HeldSoFar, CallsInProgress, TypeOK, CreationOK, Walks
<1>2. CASE begin' = None /\ Created(Avienc) /\ UNCHANGED <<first, exporters, avi, image, file>>
  <2>1. taken[walk.movie] = {"AVIFileInit", "context", "pfile", "ps", "pscomp"}
    BY <1>1 DEF Held, Target
  <2>2. Created(IF Asked \in Exports THEN None ELSE Asked)
    BY <1>1, <1>2, ExportersAssumption
  <2> QED BY <1>1, <1>2, <2>1, <2>2, CreatingKeepsInv
<1> QED BY <1>1, <1>2, FailingKeepsInv DEF AVIStreamSetFormat

(* A picture goes to the MPEG encoder. *)
LEMMA mpeg2enc_movie_putKeepsInv ==
  ASSUME Inv, NEW v \in Movies, NEW i \in Images, mpeg2enc_movie_put(v, i)
  PROVE  Inv'
<1>1. /\ status[v] = "open" /\ framenumber[v] < MaxFrames /\ handle[v] = Mpeg2enc
      /\ Writes(v, i, bytes[i]) \/ WriteFails
      /\ UNCHANGED <<first, exporters, walk, begin, object, avi, image>>
  BY DEF mpeg2enc_movie_put, CanPut
<1>2. Due(v, i) \in {bytes[i], "any"}
  BY <1>1, ExportersAssumption DEF Due, Inv, MarksAreTrue
<1>3. FilesOK' /\ FramesAreTrue' /\ FramesAreCounted' /\ FramesAreThePuts'
  <2>1. CASE Writes(v, i, bytes[i])
    BY <1>1, <1>2, <2>1, WritingKeepsFrames
  <2>2. CASE WriteFails
    BY <1>1, <2>2 DEF WriteFails, file, object, Inv, TypeOK, FilesOK, FramesAreTrue, FramesAreCounted,
         FramesAreThePuts
  <2> QED BY <1>1, <2>1, <2>2
<1>4. CreationOK' /\ MoviesOK' /\ ImagesOK' /\ InternalsAwaited' /\ CallsInProgress'
      /\ CodecsAreNamed' /\ HandleIsTheCodecs' /\ HeldSoFar' /\ LostIsKnown'
      /\ MarksAreTrue'
  BY <1>1 DEF object, avi, image, Inv, TypeOK, CreationOK, MoviesOK, ImagesOK, InternalsAwaited,
       CallsInProgress, CodecsAreNamed, HandleIsTheCodecs, HeldSoFar, LostIsKnown, MarksAreTrue
<1> QED BY <1>3, <1>4 DEF Inv, TypeOK

(* A frame goes to an AVI file: as it is, swapped in its buffer, or as a   *)
(* swapped copy.                                                           *)
LEMMA avienc_movie_putKeepsInv ==
  ASSUME Inv, NEW v \in Movies, NEW i \in Images, NEW allow \in BOOLEAN, avienc_movie_put(v, i, allow)
  PROVE  Inv'
<1>1. /\ status[v] = "open" /\ framenumber[v] < MaxFrames /\ handle[v] = Avienc
      /\ UNCHANGED <<first, exporters, walk, begin, object, avi>>
  BY DEF avienc_movie_put, CanPut
<1>2. CreationOK' /\ MoviesOK' /\ InternalsAwaited' /\ CallsInProgress' /\ CodecsAreNamed'
      /\ HandleIsTheCodecs' /\ HeldSoFar' /\ LostIsKnown'
  BY <1>1 DEF object, avi, Inv, TypeOK, CreationOK, MoviesOK, InternalsAwaited, CallsInProgress,
       CodecsAreNamed, HandleIsTheCodecs, HeldSoFar, LostIsKnown
<1>3. ASSUME WriteFails
      PROVE  FilesOK' /\ FramesAreTrue' /\ FramesAreCounted' /\ FramesAreThePuts'
  BY <1>1, <1>3 DEF WriteFails, file, object, Inv, TypeOK, FilesOK, FramesAreTrue, FramesAreCounted, FramesAreThePuts
<1>4. /\ bytes \in [Images -> Orders] /\ order \in [Images -> Orders] /\ spoilt \subseteq Images
      /\ i \notin spoilt => bytes[i] = order[i]
      /\ MarksAreTrue /\ ImagesOK
  BY DEF Inv, TypeOK, ImagesOK, MarksAreTrue
<1>5. CASE PutBGR(v, i)
  <2>1. Due(v, i) \in {bytes[i], "any"}
    BY <1>1, <1>4, <1>5 DEF PutBGR, Due
  <2>2. FilesOK' /\ FramesAreTrue' /\ FramesAreCounted' /\ FramesAreThePuts'
    BY <1>1, <1>3, <1>5, <2>1, WritingKeepsFrames DEF PutBGR
  <2>3. ImagesOK' /\ MarksAreTrue'
    BY <1>4, <1>5 DEF PutBGR, image, ImagesOK, MarksAreTrue
  <2> QED BY <1>2, <2>2, <2>3 DEF Inv, TypeOK
<1>6. CASE PutModifying(v, i)
  <2>1. bytes'[i] = Swapped(bytes[i]) /\ bytes' \in [Images -> Orders]
        /\ \A j \in Images \ {i} : bytes'[j] = bytes[j]
    BY <1>4, <1>6 DEF PutModifying, Swapped, Orders
  <2>2. i \notin spoilt => bytes'[i] = "BGR"
    BY <1>4, <1>6, <2>1 DEF PutModifying, Swapped
  <2>3. Due(v, i) \in {bytes'[i], "any"}
    BY <1>1, <2>2 DEF Due
  <2>5. FilesOK' /\ FramesAreTrue' /\ FramesAreCounted' /\ FramesAreThePuts'
    BY <1>1, <1>3, <1>6, <2>3, WritingKeepsFrames DEF PutModifying
  <2>4. ImagesOK' /\ MarksAreTrue'
    BY <1>4, <1>6, <2>1, <2>2 DEF PutModifying, ImagesOK, MarksAreTrue, Orders
  <2> QED BY <1>2, <2>4, <2>5 DEF Inv, TypeOK
<1>7. CASE PutCopy(v, i)
  <2>1. Due(v, i) \in {Swapped(bytes[i]), "any"}
    BY <1>1, <1>4, <1>7 DEF PutCopy, Swapped, Due
  <2>2. FilesOK' /\ FramesAreTrue' /\ FramesAreCounted' /\ FramesAreThePuts'
    BY <1>1, <1>3, <1>7, <2>1, WritingKeepsFrames DEF PutCopy
  <2>3. ImagesOK' /\ MarksAreTrue'
    BY <1>4, <1>7 DEF PutCopy, image, ImagesOK, MarksAreTrue
  <2> QED BY <1>2, <2>2, <2>3 DEF Inv, TypeOK
<1> QED BY <1>5, <1>6, <1>7 DEF avienc_movie_put

(* A movie is closed. *)
LEMMA s_movie_closeKeepsInv ==
  ASSUME Inv, NEW v \in Movies, s_movie_close(v)
  PROVE  Inv'
<1> USE ExportersAssumption, BoundsAssumption
       DEF Inv, TypeOK, object, avi, image, file, s_movie_close, Idle
<1>1. MoviesOK'
  BY DEF MoviesOK, CallsInProgress, CreationOK, Walks, Resources
<1>2. CallsInProgress'
  BY DEF CallsInProgress, CreationOK, MoviesOK, HeldSoFar
<1>3. CodecsAreNamed'
  BY DEF CodecsAreNamed, MoviesOK
<1>4. HandleIsTheCodecs'
  BY DEF HandleIsTheCodecs, MoviesOK
<1>5. HeldSoFar'
  BY DEF HeldSoFar, CreationOK, MoviesOK, CallsInProgress, Held
<1>6. FramesAreCounted'
  BY DEF FramesAreCounted, FilesOK, MoviesOK, CallsInProgress, HandleIsTheCodecs, CreationOK
<1>7. CreationOK' /\ ImagesOK' /\ InternalsAwaited' /\ LostIsKnown' /\ MarksAreTrue'
  BY DEF CreationOK, ImagesOK, InternalsAwaited, LostIsKnown, MarksAreTrue
<1>8. FilesOK' /\ FramesAreTrue' /\ FramesAreThePuts'
  BY DEF FilesOK, FramesAreTrue, FramesAreThePuts
<1> QED BY <1>1, <1>2, <1>3, <1>4, <1>5, <1>6, <1>7, <1>8

(* A closed movie is destroyed. *)
LEMMA s_movie_destroyKeepsInv ==
  ASSUME Inv, NEW v \in Movies, s_movie_destroy(v)
  PROVE  Inv'
<1> USE ExportersAssumption, BoundsAssumption
       DEF Inv, TypeOK, object, avi, image, file, s_movie_destroy, Idle
<1>1. MoviesOK'
  BY DEF MoviesOK, CallsInProgress, CreationOK, Walks, Resources
<1>2. FilesOK'
  BY DEF FilesOK
<1>3. CallsInProgress'
  BY DEF CallsInProgress, CreationOK, MoviesOK, HeldSoFar
<1>4. CodecsAreNamed'
  BY DEF CodecsAreNamed, MoviesOK
<1>5. HandleIsTheCodecs'
  BY DEF HandleIsTheCodecs, MoviesOK
<1>6. HeldSoFar'
  BY DEF HeldSoFar, CreationOK, MoviesOK, CallsInProgress, Held
<1>7. FramesAreTrue'
  BY DEF FramesAreTrue, FilesOK
<1>8. FramesAreCounted'
  BY DEF FramesAreCounted, FilesOK, MoviesOK, CallsInProgress, HandleIsTheCodecs, CreationOK
<1>9. FramesAreThePuts'
  BY DEF FramesAreThePuts, FilesOK, MoviesOK, FramesAreCounted, HandleIsTheCodecs
<1>10. CreationOK' /\ ImagesOK' /\ InternalsAwaited' /\ LostIsKnown' /\ MarksAreTrue'
  BY DEF CreationOK, ImagesOK, InternalsAwaited, LostIsKnown, MarksAreTrue
<1> QED BY <1>1, <1>2, <1>3, <1>4, <1>5, <1>6, <1>7, <1>8, <1>9, <1>10

(* Every step keeps the invariant.                                         *)
LEMMA InvStep == Inv /\ [Next]_vars => Inv'
<1> SUFFICES ASSUME Inv, [Next]_vars PROVE Inv'
  OBVIOUS
<1>1. CASE UNCHANGED vars
  <2> USE <1>1 DEF Inv, TypeOK, vars, object, avi, image, file
  <2>1. CreationOK' /\ MoviesOK' /\ ImagesOK' /\ InternalsAwaited' /\ CallsInProgress'
        /\ CodecsAreNamed' /\ HandleIsTheCodecs' /\ HeldSoFar' /\ LostIsKnown' /\ MarksAreTrue'
    BY DEF CreationOK, MoviesOK, ImagesOK, InternalsAwaited, CallsInProgress, CodecsAreNamed,
         HandleIsTheCodecs, HeldSoFar, LostIsKnown, MarksAreTrue
  <2>2. FilesOK' /\ FramesAreTrue' /\ FramesAreCounted' /\ FramesAreThePuts'
    BY DEF FilesOK, FramesAreTrue, FramesAreCounted, FramesAreThePuts
  <2> QED BY <2>1, <2>2
<1> QED BY <1>1, s_image_setKeepsInv, s_image_set_component_orderKeepsInv, s_movie_exporter_addKeepsInv,
     s_movie_createKeepsInv, RefusesKeepsInv, ClientAcceptsKeepsInv, mpeg2enc_movie_createKeepsInv,
     avienc_movie_createKeepsInv, NobodyAcceptsKeepsInv, AVIFileOpenKeepsInv,
     AVIFileCreateStreamKeepsInv, AVISaveOptionsKeepsInv, ReadOptionsKeepsInv,
     AVIMakeCompressedStreamKeepsInv, AVIStreamSetFormatKeepsInv, mpeg2enc_movie_putKeepsInv,
     avienc_movie_putKeepsInv, s_movie_closeKeepsInv, s_movie_destroyKeepsInv DEF Next

THEOREM InvHolds == Spec => []Inv
BY InvInit, InvStep, PTL DEF Spec

(* Wherever a creation fails, and in whichever order movies are created,   *)
(* closed and destroyed: an open AVI movie holds its file and its streams, *)
(* nothing else holds any, a handle belongs to the exporter that gets it,  *)
(* and only AVIFileInit(), options and the preferences file are lost.      *)
THEOREM AviAlwaysHoldsAllOrNothing == Spec => []AviHoldsAllOrNothing
<1>1. Inv => AviHoldsAllOrNothing
  BY DEF Inv, AviHoldsAllOrNothing, HeldSoFar, LostIsKnown, CallsInProgress, Idle
<1> QED BY <1>1, InvHolds, PTL

(* Every frame of an AVI file of an image no failed put has spoilt is in   *)
(* the order Windows requires, and every picture the MPEG encoder gets in  *)
(* the one its image says it has.                                          *)
THEOREM FramesAreAlwaysTrue == Spec => []FramesAreTrue
<1>1. Inv => FramesAreTrue
  BY DEF Inv
<1> QED BY <1>1, InvHolds, PTL

(* The frames an encoder of the library got are the puts into its movie    *)
(* that returned 1, in their order.                                        *)
THEOREM FramesAreAlwaysThePuts == Spec => []FramesAreThePuts
<1>1. Inv => FramesAreThePuts
  BY DEF Inv
<1> QED BY <1>1, InvHolds, PTL

=============================================================================
