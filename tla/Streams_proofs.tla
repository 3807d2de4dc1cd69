--------------------------- MODULE Streams_proofs ---------------------------
(***************************************************************************)
(* Proofs about the audio streams (Streams), for any importers, files,     *)
(* buffer sizes and packets: the files the library has open are those of   *)
(* the streams it opened, a buffer holds consecutive frames, and what a    *)
(* hole or the end of a stream loses is less than a buffer.                *)
(*                                                                         *)
(* The three properties are statements about the moments between two       *)
(* calls.  What makes them inductive are statements about the calls in     *)
(* progress: which importers a walk has passed (CallsInProgress), and what *)
(* a half filled buffer holds (BufferBeingFilled).                         *)
(***************************************************************************)
EXTENDS Streams, TLAPS

(* An object that exists has the functions of an importer or exporter, and *)
(* a file; the stream of the last buffer is still open.                    *)
ObjectsHaveCodecs ==
  /\ \A s \in Streams : status[s] # "none" =>
       codec[s] \in Importers \cup Exports /\ filename[s] \in Files
  /\ got.stream # None => status[got.stream] = "open"

(* The importers of the library are listed once, by the first open.        *)
InternalsAwaited == first => \A k \in 1 .. Len(importers) : importers[k] \in Imports

CallsInProgress ==
  /\ walk # None =>
       /\ status[walk.stream] = "none" /\ read = None
       /\ walk.at >= 1
       /\ walk.list = "importers" =>
            ~first /\ \A j \in 1 .. walk.at - 1 : walk.file \notin Opens[importers[j]]
  /\ read # None => status[read.stream] = "open" /\ codec[read.stream] = Vorbis

HandlesAreOpenStreams ==
  \A i \in {Vorbis, Sndfile}, s \in Streams :
    <<i, s>> \in handles <=> status[s] = "open" /\ codec[s] = i

BufferBeingFilled ==
  read # None =>
    /\ \A k \in 1 .. read.readsize : read.buffer[k] = pos[read.stream] - read.readsize + k - 1
    /\ read.stream \notin failed => pos[read.stream] = expect[read.stream] + read.readsize
    /\ pos[read.stream] - read.readsize - expect[read.stream] \in 0 .. allowance[read.stream]

PositionKept ==
  \A s \in Streams \ failed : (read # None => read.stream # s) => pos[s] = expect[s]

BufferDelivered ==
  got.stream # None /\ got.stream \notin failed => got.frames = Run(got.from, Len(got.frames))

LossIsBounded ==
  \A s \in Streams : (read # None => read.stream # s) =>
    /\ codec[s] = Sndfile => expect[s] = pos[s]
    /\ pos[s] - expect[s] \in 0 .. allowance[s]

Inv ==
  /\ TypeOK
  /\ ObjectsHaveCodecs /\ InternalsAwaited /\ CallsInProgress
  /\ FirstWilling
  /\ HandlesAreOpenStreams
  /\ BufferBeingFilled /\ PositionKept /\ BufferDelivered
  /\ LossIsBounded


LEMMA InvInit == Init => Inv
<1> USE FilesAssumption, SizesAssumption, NamesAssumption
<1> SUFFICES ASSUME Init PROVE Inv
  OBVIOUS
<1> USE DEF Init, Nothing
<1>1. TypeOK
  BY DEF TypeOK, ListsOK, WalkOK, StreamsOK, ReadsOK, IsInjective
<1> QED BY <1>1 DEF Inv, ObjectsHaveCodecs, InternalsAwaited, CallsInProgress, FirstWilling,
     HandlesAreOpenStreams, BufferBeingFilled, PositionKept, BufferDelivered, LossIsBounded


(* The lesser of two naturals is one of them and no more than the other.   *)
LEMMA LesserBounds ==
  ASSUME NEW a \in Nat, NEW b \in Nat
  PROVE  Lesser(a, b) \in Nat /\ Lesser(a, b) <= a /\ Lesser(a, b) <= b /\ Lesser(a, b) \in {a, b}
BY DEF Lesser

(* What a run of frames is made of.                                        *)
LEMMA RunIsOfLength ==
  ASSUME NEW from \in Nat, NEW n \in Nat
  PROVE  /\ Run(from, n) \in Seq(Nat \cup {None})
         /\ Len(Run(from, n)) = n
         /\ Run(from, n) = <<>> <=> n = 0
BY DEF Run

(* Adding importers behind the others changes nobody's first choice.       *)
LEMMA AddingKeepsFirstWilling ==
  ASSUME FirstWilling, UNCHANGED object, Len(importers) \in Nat, Len(importers)' \in Nat,
         Len(importers) <= Len(importers)',
         \A k \in 1 .. Len(importers) : importers[k]' = importers[k]
  PROVE  FirstWilling'
<1> SUFFICES ASSUME NEW s \in Streams, status[s] = "open" /\ codec[s] \in Importers
    PROVE \E k \in 1 .. Len(importers)' :
            /\ importers'[k] = codec[s]
            /\ \A j \in 1 .. k-1 : filename[s] \notin Opens[importers'[j]]
  BY DEF FirstWilling, object
<1>1. PICK k \in 1 .. Len(importers) :
        /\ importers[k] = codec[s]
        /\ \A j \in 1 .. k-1 : filename[s] \notin Opens[importers[j]]
  BY DEF FirstWilling
<1> QED BY <1>1, SMTT(20)

(* What a call that returns a buffer leaves behind.                        *)
LEMMA WhatReturns ==
  ASSUME StreamsOK, ReadsOK, NEW s \in Streams, NEW size \in Sizes \cup {0},
         NEW frames \in Seq(Nat \cup {None}), Returns(s, size, frames)
  PROVE  /\ got' \in [stream : Streams \cup {None}, size : Sizes \cup {0},
                      frames : Seq(Nat \cup {None}), from : Nat]
         /\ got'.stream = s /\ got'.size = size /\ got'.frames = frames
         /\ got'.from = expect[s]
         /\ expect' \in [Streams -> Nat]
         /\ expect'[s] = expect[s] + Len(frames)
         /\ \A t \in Streams \ {s} : expect'[t] = expect[t]
         /\ failed' \subseteq Streams
         /\ \A t \in Streams \ {s} : t \in failed' <=> t \in failed
         /\ s \in failed' <=> s \in failed \/ frames = <<>>
<1> USE DEF StreamsOK, ReadsOK, Returns
<1>1. expect[s] \in Nat /\ Len(frames) \in Nat
  OBVIOUS
<1>2. got' = [stream |-> s, size |-> size, frames |-> frames, from |-> expect[s]]
  OBVIOUS
<1>3. expect' \in [Streams -> Nat] /\ expect'[s] = expect[s] + Len(frames)
      /\ \A t \in Streams \ {s} : expect'[t] = expect[t]
  BY <1>1
<1>4. failed' \subseteq Streams
      /\ (\A t \in Streams \ {s} : t \in failed' <=> t \in failed)
      /\ (s \in failed' <=> s \in failed \/ frames = <<>>)
  OBVIOUS
<1>5. (s \in failed) \in BOOLEAN
  OBVIOUS
<1> QED BY <1>1, <1>2, <1>3, <1>4, <1>5

(* A client adds an importer. *)
LEMMA s_stream_importer_add_exKeepsInv ==
  ASSUME Inv, NEW i \in Imports, s_stream_importer_add_ex(i)
  PROVE  Inv'
<1> USE FilesAssumption, SizesAssumption, NamesAssumption
       DEF Inv, TypeOK, lists, object, client, s_stream_importer_add_ex, ClientHasControl, Idle,
       ToSet
<1>1. ListsOK'
  BY DEF ListsOK, InternalsAwaited, IsInjective, Importers
<1>2. WalkOK'
  BY DEF WalkOK, CallsInProgress, Walked, ListsOK
<1>3. InternalsAwaited'
  BY DEF InternalsAwaited, ListsOK
<1>4. CallsInProgress'
  BY DEF CallsInProgress, ListsOK, WalkOK, StreamsOK, ReadsOK, ObjectsHaveCodecs, Walked
<1>5. FirstWilling'
  BY AddingKeepsFirstWilling DEF ListsOK
<1>6. StreamsOK' /\ ReadsOK' /\ ObjectsHaveCodecs' /\ HandlesAreOpenStreams'
      /\ BufferBeingFilled' /\ PositionKept' /\ BufferDelivered'
      /\ LossIsBounded'
  BY DEF StreamsOK, ReadsOK, ObjectsHaveCodecs, HandlesAreOpenStreams,
       BufferBeingFilled, PositionKept, BufferDelivered, LossIsBounded, Left
<1> QED BY <1>1, <1>2, <1>3, <1>4, <1>5, <1>6

(* A client adds an exporter. *)
LEMMA s_stream_exporter_add_exKeepsInv ==
  ASSUME Inv, NEW e \in Exports, s_stream_exporter_add_ex(e)
  PROVE  Inv'
<1> USE FilesAssumption, SizesAssumption, NamesAssumption
       DEF Inv, TypeOK, lists, object, client, s_stream_exporter_add_ex, ClientHasControl, Idle,
       ToSet
<1>1. ListsOK'
  BY DEF ListsOK, InternalsAwaited, IsInjective, Importers
<1>2. WalkOK'
  BY DEF WalkOK, CallsInProgress, Walked, ListsOK
<1>3. StreamsOK' /\ ReadsOK' /\ ObjectsHaveCodecs' /\ InternalsAwaited'
      /\ CallsInProgress' /\ FirstWilling' /\ HandlesAreOpenStreams'
      /\ BufferBeingFilled' /\ PositionKept' /\ BufferDelivered'
      /\ LossIsBounded'
  BY DEF StreamsOK, ReadsOK, ObjectsHaveCodecs, InternalsAwaited, CallsInProgress,
       FirstWilling, HandlesAreOpenStreams, BufferBeingFilled,
       PositionKept, BufferDelivered, LossIsBounded, Left
<1> QED BY <1>1, <1>2, <1>3

(* An open begins; the first one adds the importers of the library. *)
LEMMA s_stream_openKeepsInv ==
  ASSUME Inv, NEW s \in Streams, NEW f \in Files, s_stream_open(s, f)
  PROVE  Inv'
<1> USE FilesAssumption, SizesAssumption, NamesAssumption
       DEF Inv, TypeOK, lists, object, client, s_stream_open, add_internal_importers, Idle, Walks
<1>1. ListsOK'
  <2>1. CASE ~first
    BY <2>1 DEF ListsOK
  <2>2. CASE first
    <3>1. importers' = importers \o <<Vorbis, Sndfile>> /\ importers' \in Seq(Importers)
      BY <2>2 DEF ListsOK, Importers
    <3>2. \A k \in 1 .. Len(importers)' :
            importers'[k] = IF k <= Len(importers) THEN importers[k]
                            ELSE IF k = Len(importers) + 1 THEN Vorbis ELSE Sndfile
      BY <3>1 DEF ListsOK
    <3>3. Len(importers)' = Len(importers) + 2 /\ Len(importers) \in Nat
      BY <3>1 DEF ListsOK
    <3>4. IsInjective(importers')
      BY <2>2, <3>1, <3>2, <3>3, SMTT(20) DEF ListsOK, IsInjective, InternalsAwaited
    <3> QED BY <3>1, <3>4 DEF ListsOK
  <2> QED BY <2>1, <2>2 DEF ListsOK
<1>2. WalkOK'
  BY DEF WalkOK, CallsInProgress, Walked, ListsOK
<1>3. InternalsAwaited'
  BY DEF InternalsAwaited, ListsOK
<1>4. CallsInProgress'
  BY DEF CallsInProgress, ListsOK, WalkOK, StreamsOK, ReadsOK, ObjectsHaveCodecs, Walked
<1>5. FirstWilling'
  BY AddingKeepsFirstWilling DEF ListsOK
<1>6. StreamsOK' /\ ReadsOK' /\ ObjectsHaveCodecs' /\ HandlesAreOpenStreams'
      /\ BufferBeingFilled' /\ PositionKept' /\ BufferDelivered'
      /\ LossIsBounded'
  BY DEF StreamsOK, ReadsOK, ObjectsHaveCodecs, HandlesAreOpenStreams,
       BufferBeingFilled, PositionKept, BufferDelivered, LossIsBounded, Left
<1> QED BY <1>1, <1>2, <1>3, <1>4, <1>5, <1>6

(* A create begins. *)
LEMMA s_stream_createKeepsInv ==
  ASSUME Inv, NEW s \in Streams, NEW f \in Files, s_stream_create(s, f)
  PROVE  Inv'
<1> USE FilesAssumption, SizesAssumption, NamesAssumption
       DEF Inv, TypeOK, lists, object, client, s_stream_create, Idle, Walks
<1>1. WalkOK'
  BY DEF WalkOK, CallsInProgress, Walked, ListsOK
<1>2. CallsInProgress'
  BY DEF CallsInProgress, ListsOK, WalkOK, StreamsOK, ReadsOK, ObjectsHaveCodecs, Walked
<1>3. ListsOK' /\ StreamsOK' /\ ReadsOK' /\ ObjectsHaveCodecs' /\ InternalsAwaited'
      /\ FirstWilling' /\ HandlesAreOpenStreams'
      /\ BufferBeingFilled' /\ PositionKept' /\ BufferDelivered' /\ LossIsBounded'
  BY SMTT(30) DEF ListsOK, StreamsOK, ReadsOK, ObjectsHaveCodecs, InternalsAwaited, FirstWilling,
       HandlesAreOpenStreams, BufferBeingFilled, PositionKept,
       BufferDelivered, LossIsBounded, Left
<1> QED BY <1>1, <1>2, <1>3

(* An importer refuses the file. *)
LEMMA RefusesKeepsInv ==
  ASSUME Inv, Refuses
  PROVE  Inv'
<1> USE FilesAssumption, SizesAssumption, NamesAssumption
       DEF Inv, TypeOK, lists, object, client, Refuses, Asking, Asked, Walks
<1>1. WalkOK'
  BY SMTT(20) DEF WalkOK, CallsInProgress, Walked, ListsOK
<1>2. CallsInProgress'
  <2>1. /\ walk' \in Walks /\ walk'.at = walk.at + 1 /\ walk'.file = walk.file
        /\ walk'.list = walk.list /\ walk'.stream = walk.stream
    <3>1. walk \in Walks /\ walk' = [walk EXCEPT !.at = @ + 1]
      BY DEF WalkOK
    <3> HIDE DEF Inv, Refuses
    <3> QED BY <3>1
  <2>2. walk' # None
    <3> HIDE DEF Walks
    <3> QED BY <2>1
  <2>3. walk.at \in Nat /\ walk.file \notin Opens[Walked[walk.at]]
    BY DEF WalkOK
  <2> QED BY <2>1, <2>2, <2>3 DEF CallsInProgress, Walked
<1>3. ListsOK' /\ StreamsOK' /\ ReadsOK' /\ ObjectsHaveCodecs' /\ InternalsAwaited'
      /\ FirstWilling' /\ HandlesAreOpenStreams'
      /\ BufferBeingFilled' /\ PositionKept' /\ BufferDelivered' /\ LossIsBounded'
  BY DEF ListsOK, StreamsOK, ReadsOK, ObjectsHaveCodecs, InternalsAwaited, FirstWilling,
       HandlesAreOpenStreams, BufferBeingFilled, PositionKept,
       BufferDelivered, LossIsBounded, Left
<1> QED BY <1>1, <1>2, <1>3

(* An importer opens the file. *)
LEMMA AcceptsKeepsInv ==
  ASSUME Inv, Accepts
  PROVE  Inv'
<1> USE FilesAssumption, SizesAssumption, NamesAssumption
       DEF Inv, TypeOK, lists, object, client, Accepts, ClientAt, Asking, Asked, OpenedBy, Walks
<1>1. WalkOK'
  BY DEF WalkOK, CallsInProgress, Walked, ListsOK
<1>2. StreamsOK'
  <2>1. walk.stream \in Streams /\ walk.file \in Files /\ Asked \in Importers \cup Exports
    BY DEF WalkOK, ListsOK, Walked, Importers
  <2>2. status' \in [Streams -> {"none", "open", "closed"}] /\ filename' \in [Streams -> Files \cup {None}]
        /\ codec' \in [Streams -> Importers \cup Exports \cup {None}]
    BY <2>1 DEF StreamsOK
  <2>3. pos' \in [Streams -> Nat] /\ expect' \in [Streams -> Nat] /\ allowance' \in [Streams -> Nat]
        /\ handles' \subseteq {Vorbis, Sndfile} \X Streams /\ failed' \subseteq Streams
    BY <2>1 DEF StreamsOK
  <2>4. \A s \in Streams : filename'[s] # None => pos'[s] <= Length[filename'[s]]
    BY <2>1 DEF StreamsOK
  <2> QED BY <2>2, <2>3, <2>4 DEF StreamsOK
<1>3. ObjectsHaveCodecs'
  BY SMTT(20) DEF ObjectsHaveCodecs, ListsOK, WalkOK, StreamsOK, ReadsOK, CallsInProgress, Walked
<1>4. CallsInProgress'
  BY DEF CallsInProgress, ListsOK, WalkOK, StreamsOK, ReadsOK, ObjectsHaveCodecs, Walked
<1>5. FirstWilling'
  <2>1. walk.stream \in Streams /\ walk.file \in Files
    BY DEF WalkOK
  <2>2. /\ codec' = [codec EXCEPT ![walk.stream] = Asked]
        /\ filename' = [filename EXCEPT ![walk.stream] = walk.file]
        /\ status' = [status EXCEPT ![walk.stream] = "open"]
    OBVIOUS
  <2> HIDE DEF Asked
  <2>3. codec'[walk.stream] = Asked /\ filename'[walk.stream] = walk.file
    BY <2>1, <2>2 DEF StreamsOK
  <2>4. \A s \in Streams \ {walk.stream} :
          codec'[s] = codec[s] /\ filename'[s] = filename[s] /\ status'[s] = status[s]
    BY <2>2 DEF StreamsOK
  <2>5. ASSUME Asked \in Importers
        PROVE  \E k \in 1 .. Len(importers) :
                 /\ importers[k] = Asked
                 /\ \A j \in 1 .. k-1 : walk.file \notin Opens[importers[j]]
    <3>1. walk.list = "importers"
      BY <2>5 DEF Walked, WalkOK, ListsOK, Asked, Importers, Walks
    <3>2. importers[walk.at] = Asked /\ walk.at \in 1 .. Len(importers)
      BY <3>1 DEF Walked, WalkOK, Asked
    <3> QED BY <3>1, <3>2 DEF CallsInProgress
  <2> QED BY <2>3, <2>4, <2>5 DEF FirstWilling
<1>6. HandlesAreOpenStreams'
  BY DEF HandlesAreOpenStreams, ListsOK, WalkOK, StreamsOK, ObjectsHaveCodecs, CallsInProgress, Walked
<1>8. BufferBeingFilled'
  BY DEF BufferBeingFilled, StreamsOK, ReadsOK, CallsInProgress, Left, Reads
<1>9. PositionKept'
  BY DEF PositionKept, StreamsOK, ReadsOK, WalkOK, CallsInProgress
<1>10. BufferDelivered'
  BY DEF BufferDelivered, StreamsOK, ReadsOK, WalkOK, ObjectsHaveCodecs, CallsInProgress, PositionKept, Run
<1>11. LossIsBounded'
  BY SMTT(20) DEF LossIsBounded, StreamsOK, ReadsOK, WalkOK, ObjectsHaveCodecs, CallsInProgress, BufferBeingFilled
<1>12. ListsOK' /\ ReadsOK' /\ InternalsAwaited'
  BY DEF ListsOK, ReadsOK, InternalsAwaited
<1> QED BY <1>1, <1>2, <1>3, <1>4, <1>5, <1>6, <1>8, <1>9, <1>10, <1>11, <1>12

(* No importer opens the file. *)
LEMMA NobodyAcceptsKeepsInv ==
  ASSUME Inv, NobodyAccepts
  PROVE  Inv'
<1> USE FilesAssumption, SizesAssumption, NamesAssumption
       DEF Inv, TypeOK, lists, object, client, NobodyAccepts
<1>1. WalkOK'
  BY DEF WalkOK, CallsInProgress, Walked, ListsOK
<1>2. CallsInProgress'
  BY DEF CallsInProgress, ListsOK, WalkOK, StreamsOK, ReadsOK, ObjectsHaveCodecs, Walked
<1>3. ListsOK' /\ StreamsOK' /\ ReadsOK' /\ ObjectsHaveCodecs' /\ InternalsAwaited'
      /\ FirstWilling' /\ HandlesAreOpenStreams'
      /\ BufferBeingFilled' /\ PositionKept' /\ BufferDelivered' /\ LossIsBounded'
  BY DEF ListsOK, StreamsOK, ReadsOK, ObjectsHaveCodecs, InternalsAwaited, FirstWilling,
       HandlesAreOpenStreams, BufferBeingFilled, PositionKept,
       BufferDelivered, LossIsBounded, Left
<1> QED BY <1>1, <1>2, <1>3

(* libsndfile fills a buffer. *)
LEMMA libsndfile_stream_getKeepsInv ==
  ASSUME Inv, NEW s \in Streams, NEW size \in Sizes, libsndfile_stream_get(s, size)
  PROVE  Inv'
<1> USE FilesAssumption, SizesAssumption, NamesAssumption
       DEF Inv, TypeOK, lists, object, client, libsndfile_stream_get, Idle
<1> DEFINE n == Lesser(size, Left(s))
           frames == Run(pos[s], n)
<1>a. filename[s] \in Files /\ pos[s] \in Nat /\ Left(s) \in Nat /\ size \in Nat
  BY DEF ObjectsHaveCodecs, StreamsOK, Left
<1>b. n \in Nat /\ n <= size /\ n <= Left(s) /\ n \in {size, Left(s)}
  BY <1>a, LesserBounds
<1> HIDE DEF n
<1>c. frames \in Seq(Nat \cup {None}) /\ Len(frames) = n /\ (frames = <<>> <=> n = 0)
  BY <1>a, <1>b, RunIsOfLength
<1>d. pos' = [pos EXCEPT ![s] = @ + n] /\ Returns(s, size, frames)
      /\ UNCHANGED <<lists, walk, object, handles, read, holes, allowance>>
  BY DEF n, libsndfile_stream_get
<1> HIDE DEF libsndfile_stream_get
<1>e. Idle /\ status[s] = "open" /\ codec[s] = Sndfile
  BY DEF libsndfile_stream_get
<1> HIDE DEF frames
<1>f. /\ got' \in [stream : Streams \cup {None}, size : Sizes \cup {0},
                   frames : Seq(Nat \cup {None}), from : Nat]
      /\ got'.stream = s /\ got'.size = size /\ got'.frames = frames
      /\ got'.from = expect[s]
      /\ expect' \in [Streams -> Nat]
      /\ expect'[s] = expect[s] + n
      /\ \A t \in Streams \ {s} : expect'[t] = expect[t]
      /\ failed' \subseteq Streams
      /\ \A t \in Streams \ {s} : t \in failed' <=> t \in failed
      /\ s \in failed' <=> s \in failed \/ n = 0
  BY <1>c, <1>d, WhatReturns
<1>g. /\ pos' \in [Streams -> Nat] /\ pos'[s] = pos[s] + n
      /\ \A t \in Streams \ {s} : pos'[t] = pos[t]
  BY <1>a, <1>b, <1>d DEF StreamsOK
<1> USE <1>a, <1>b, <1>c, <1>d, <1>e, <1>f, <1>g
<1>1. StreamsOK'
  <2>1. \A t \in Streams : filename[t] # None => pos'[t] <= Length[filename[t]]
    BY SMTT(20) DEF StreamsOK, Left
  <2> QED BY <2>1 DEF StreamsOK
<1>2. ReadsOK'
  BY DEF ReadsOK, CallsInProgress, StreamsOK
<1>3. ObjectsHaveCodecs'
  BY DEF ObjectsHaveCodecs, ListsOK, WalkOK, StreamsOK, ReadsOK, CallsInProgress, Walked
<1>5. BufferBeingFilled'
  BY DEF BufferBeingFilled, StreamsOK, ReadsOK, CallsInProgress, Left, Reads
<1>6. PositionKept'
  <2>1. ASSUME NEW t \in Streams \ failed', t # s
        PROVE  pos'[t] = expect'[t]
    BY <2>1 DEF PositionKept
  <2>2. s \notin failed' => pos'[s] = expect'[s]
    BY DEF PositionKept
  <2> QED BY <2>1, <2>2 DEF PositionKept
<1>7. BufferDelivered'
  <2>1. s \notin failed => pos[s] = expect[s]
    BY DEF PositionKept
  <2> QED BY <2>1 DEF BufferDelivered, frames
<1>8. LossIsBounded'
  <2>1. allowance' = allowance /\ codec' = codec /\ read' = None /\ read = None
    BY DEF Idle
  <2>2. expect'[s] = pos'[s] /\ pos'[s] - expect'[s] \in 0 .. allowance[s]
    BY <2>1 DEF LossIsBounded, StreamsOK
  <2>3. ASSUME NEW t \in Streams \ {s}
        PROVE  /\ codec[t] = Sndfile => expect'[t] = pos'[t]
               /\ pos'[t] - expect'[t] \in 0 .. allowance[t]
    <3>1. expect'[t] = expect[t] /\ pos'[t] = pos[t]
      OBVIOUS
    <3>2. /\ codec[t] = Sndfile => expect[t] = pos[t]
          /\ pos[t] - expect[t] \in 0 .. allowance[t]
      BY <2>1 DEF LossIsBounded
    <3> QED BY <3>1, <3>2
  <2> HIDE <1>a, <1>b, <1>c, <1>d, <1>f, <1>g
  <2>4. ASSUME NEW t \in Streams
        PROVE  /\ codec[t] = Sndfile => expect'[t] = pos'[t]
               /\ pos'[t] - expect'[t] \in 0 .. allowance[t]
    BY <2>2, <2>3
  <2> QED BY <2>1, <2>4 DEF LossIsBounded
<1>9. ListsOK' /\ WalkOK' /\ InternalsAwaited' /\ CallsInProgress' /\ FirstWilling'
      /\ HandlesAreOpenStreams'
  <2> HIDE <1>a, <1>b, <1>c, <1>f, <1>g
  <2> QED BY DEF ListsOK, WalkOK, InternalsAwaited, CallsInProgress, FirstWilling,
       HandlesAreOpenStreams, Walked
<1> QED BY <1>1, <1>2, <1>3, <1>5, <1>6, <1>7, <1>8, <1>9

(* libsndfile refuses a size. *)
LEMMA OddSizeKeepsInv ==
  ASSUME Inv, NEW s \in Streams, OddSize(s)
  PROVE  Inv'
<1> USE FilesAssumption, SizesAssumption, NamesAssumption
       DEF Inv, TypeOK, lists, object, client, OddSize, Idle, Returns
<1>1. StreamsOK'
  BY SMTT(30) DEF StreamsOK, ObjectsHaveCodecs, CallsInProgress, Left, ReadsOK, WalkOK, ListsOK, Walked, Importers
<1>2. ReadsOK'
  BY DEF ReadsOK, CallsInProgress, StreamsOK
<1>3. ObjectsHaveCodecs'
  BY DEF ObjectsHaveCodecs, ListsOK, WalkOK, StreamsOK, ReadsOK, CallsInProgress, Walked
<1>5. BufferBeingFilled'
  BY DEF BufferBeingFilled, StreamsOK, ReadsOK, CallsInProgress, Left, Reads
<1>6. PositionKept'
  BY DEF PositionKept, StreamsOK, ReadsOK, WalkOK, CallsInProgress
<1>7. BufferDelivered'
  BY DEF BufferDelivered, StreamsOK, ReadsOK, WalkOK, ObjectsHaveCodecs, CallsInProgress, PositionKept, Run
<1>8. LossIsBounded'
  BY DEF LossIsBounded, StreamsOK, ReadsOK, WalkOK, ObjectsHaveCodecs, CallsInProgress, BufferBeingFilled
<1>9. ListsOK' /\ WalkOK' /\ InternalsAwaited' /\ CallsInProgress' /\ FirstWilling'
      /\ HandlesAreOpenStreams'
  BY DEF ListsOK, WalkOK, InternalsAwaited, CallsInProgress, FirstWilling,
       HandlesAreOpenStreams, Walked
<1> QED BY <1>1, <1>2, <1>3, <1>5, <1>6, <1>7, <1>8, <1>9

(* oggvorbis begins to fill a buffer. *)
LEMMA oggvorbis_reader_stream_getKeepsInv ==
  ASSUME Inv, NEW s \in Streams, NEW size \in Sizes, oggvorbis_reader_stream_get(s, size)
  PROVE  Inv'
<1> USE FilesAssumption, SizesAssumption, NamesAssumption
       DEF Inv, TypeOK, lists, object, client, oggvorbis_reader_stream_get, Idle, Unfilled, Reads
<1>1. ReadsOK'
  <2>1. size \in Nat /\ Unfilled(size) \in Seq(Nat \cup {None}) /\ Len(Unfilled(size)) = size
    OBVIOUS
  <2> HIDE DEF Unfilled
  <2>2. read' \in Reads /\ read'.readsize = 0 /\ read'.size = size /\ Len(read'.buffer) = size
    BY <2>1
  <2> HIDE DEF Reads
  <2> QED BY <2>1, <2>2 DEF ReadsOK
<1>2. CallsInProgress'
  BY DEF CallsInProgress, ListsOK, WalkOK, StreamsOK, ReadsOK, ObjectsHaveCodecs, Walked
<1>3. BufferBeingFilled'
  <2>1. read'.readsize = 0 /\ read'.stream = s
    OBVIOUS
  <2>2. pos[s] \in Nat /\ expect[s] \in Nat /\ (s \notin failed => pos[s] = expect[s])
    BY DEF StreamsOK, PositionKept
  <2>3. pos[s] - expect[s] \in 0 .. allowance[s] /\ read'.readsize = 0
    BY <2>1 DEF LossIsBounded
  <2>4. pos[s] - 0 - expect[s] = pos[s] - expect[s]
    BY <2>2
  <2> QED BY <2>1, <2>2, <2>3, <2>4 DEF BufferBeingFilled
<1>4. PositionKept'
  BY DEF PositionKept, StreamsOK, ReadsOK, WalkOK, CallsInProgress
<1>5. ListsOK' /\ WalkOK' /\ StreamsOK' /\ ObjectsHaveCodecs' /\ InternalsAwaited'
      /\ FirstWilling' /\ HandlesAreOpenStreams'
      /\ BufferDelivered' /\ LossIsBounded'
  BY DEF ListsOK, WalkOK, StreamsOK, ObjectsHaveCodecs, InternalsAwaited, FirstWilling,
       HandlesAreOpenStreams, BufferDelivered, LossIsBounded, Walked,
       Left
<1> QED BY <1>1, <1>2, <1>3, <1>4, <1>5

(* The decoder delivers a piece of a packet. *)
LEMMA ov_readKeepsInv ==
  ASSUME Inv, NEW n \in 1 .. Packet, ov_read(n)
  PROVE  Inv'
<1>1. PICK s \in Streams : s = read.stream
  BY DEF ov_read, Inv, TypeOK, ReadsOK, Reads
<1>2. PICK done \in Nat : done = read.readsize
  BY DEF ov_read, Inv, TypeOK, ReadsOK, Reads
<1>3. PICK size \in Sizes : size = read.size
  BY DEF ov_read, Inv, TypeOK, ReadsOK, Reads
<1>4. /\ read # None /\ read \in Reads /\ done < size /\ n \in Nat \ {0} /\ size \in Nat
      /\ read.buffer \in Seq(Nat \cup {None}) /\ Len(read.buffer) = size
  BY <1>2, <1>3, SizesAssumption DEF ov_read, Inv, TypeOK, ReadsOK, Reads
<1>5. status[s] = "open" /\ codec[s] = Vorbis /\ filename[s] \in Files /\ filename[s] # None
  BY <1>1, <1>4, NamesAssumption DEF Inv, CallsInProgress, ObjectsHaveCodecs
<1>6. pos[s] \in Nat /\ expect[s] \in Nat /\ Length[filename[s]] \in Nat
      /\ pos[s] <= Length[filename[s]] /\ Left(s) = Length[filename[s]] - pos[s] /\ Left(s) \in Nat
  BY <1>5, FilesAssumption DEF Inv, TypeOK, StreamsOK, Left
<1>7. n <= size - done /\ n <= Left(s)
  <2>1. size - done \in Nat /\ n <= Lesser(size - done, Left(s))
    BY <1>1, <1>2, <1>3, <1>4 DEF ov_read
  <2>2. Lesser(size - done, Left(s)) \in Nat /\ Lesser(size - done, Left(s)) <= size - done
        /\ Lesser(size - done, Left(s)) <= Left(s)
    BY <1>6, <2>1, LesserBounds
  <2> QED BY <1>4, <1>6, <2>1, <2>2
<1> DEFINE buffer == [k \in 1 .. size |-> IF k - done \in 1 .. n THEN pos[s] + k - done - 1
                                          ELSE read.buffer[k]]
<1>8. buffer \in Seq(Nat \cup {None}) /\ Len(buffer) = size
  <2>1. \A k \in 1 .. size : read.buffer[k] \in Nat \cup {None}
    BY <1>4
  <2>2. \A k \in 1 .. size : k - done \in 1 .. n => pos[s] + k - done - 1 \in Nat
    BY <1>4, <1>6
  <2>3. \A k \in 1 .. size : buffer[k] \in Nat \cup {None}
    BY <2>1, <2>2
  <2> QED BY <1>4, <2>3
<1>9. /\ read' = [read EXCEPT !.buffer = buffer, !.readsize = done + n]
      /\ pos' = [pos EXCEPT ![s] = @ + n]
      /\ UNCHANGED <<lists, walk, object, handles, got, holes, client>>
  BY <1>1, <1>2, <1>3 DEF ov_read
<1> HIDE DEF buffer
<1>10. /\ read' \in Reads /\ read'.readsize = done + n
       /\ read'.stream = s /\ read'.size = size /\ read'.buffer = buffer
  <2>1. read' = [stream |-> s, size |-> size, readsize |-> done + n, buffer |-> buffer]
    BY <1>1, <1>2, <1>3, <1>4, <1>9 DEF Reads
  <2>2. done + n \in Nat
    BY <1>4
  <2> QED BY <1>4, <1>8, <2>1, <2>2 DEF Reads
<1>11. read' # None
  BY <1>10, NamesAssumption
<1>12. /\ pos' \in [Streams -> Nat] /\ pos'[s] = pos[s] + n
       /\ \A t \in Streams \ {s} : pos'[t] = pos[t]
  BY <1>4, <1>6, <1>9 DEF Inv, TypeOK, StreamsOK
<1>13. \A k \in 1 .. done + n : buffer[k] = pos'[s] - (done + n) + k - 1
  <2> SUFFICES ASSUME NEW k \in 1 .. done + n
      PROVE buffer[k] = pos[s] - done + k - 1
    BY <1>4, <1>6, <1>12
  <2>1. k \in 1 .. size
    BY <1>4, <1>7
  <2>2. CASE k <= done
    <3>1. ~(k - done \in 1 .. n) /\ k \in 1 .. done
      BY <1>4, <2>2
    <3>2. buffer[k] = read.buffer[k]
      BY <2>1, <3>1 DEF buffer
    <3> QED BY <1>1, <1>2, <1>4, <3>1, <3>2 DEF Inv, BufferBeingFilled
  <2>3. CASE k > done
    <3>1. k - done \in 1 .. n
      BY <1>4, <2>3
    <3>2. buffer[k] = pos[s] + k - done - 1
      BY <2>1, <3>1 DEF buffer
    <3> QED BY <1>6, <3>2
  <2> QED BY <2>2, <2>3
<1>14. s \notin failed => pos[s] = expect[s] + done
  BY <1>1, <1>2, <1>4 DEF Inv, BufferBeingFilled
<1> USE <1>1, <1>2, <1>3, <1>4, <1>5, <1>6, <1>7, <1>9, <1>10, <1>11, <1>12
<1> USE FilesAssumption, SizesAssumption, NamesAssumption
       DEF Inv, TypeOK, lists, object, client
<1>15. StreamsOK'
  <2>1. pos'[s] <= Length[filename[s]]
    OBVIOUS
  <2>2. \A t \in Streams : filename[t] # None => pos'[t] <= Length[filename[t]]
    BY <2>1 DEF StreamsOK
  <2>3. UNCHANGED <<status, codec, filename, handles, expect, allowance, failed>>
    OBVIOUS
  <2> QED BY <2>2, <2>3, ZenonT(30) DEF StreamsOK
<1>16. ReadsOK'
  BY <1>8, SMTT(20) DEF ReadsOK
<1>17. CallsInProgress'
  BY DEF CallsInProgress, ListsOK, WalkOK, StreamsOK, ReadsOK, ObjectsHaveCodecs, Walked
<1>18. BufferBeingFilled'
  <2>1. pos[s] - done - expect[s] \in 0 .. allowance[s]
    BY DEF BufferBeingFilled
  <2>2. pos'[s] - (done + n) - expect[s] = pos[s] - done - expect[s]
    OBVIOUS
  <2> QED BY <1>13, <1>14, <2>1, <2>2, SMTT(20) DEF BufferBeingFilled
<1>19. PositionKept'
  BY DEF PositionKept
<1>20. LossIsBounded'
  <2>1. ASSUME NEW t \in Streams \ {s}
        PROVE  /\ codec[t] = Sndfile => expect[t] = pos'[t]
               /\ pos'[t] - expect[t] \in 0 .. allowance[t]
    BY <2>1 DEF LossIsBounded
  <2> QED BY <2>1 DEF LossIsBounded
<1>21. ListsOK' /\ WalkOK' /\ ObjectsHaveCodecs' /\ InternalsAwaited' /\ FirstWilling'
       /\ HandlesAreOpenStreams' /\ BufferDelivered'
  BY DEF ListsOK, WalkOK, ObjectsHaveCodecs, InternalsAwaited, FirstWilling,
       HandlesAreOpenStreams, BufferDelivered, Walked
<1> QED BY <1>15, <1>16, <1>17, <1>18, <1>19, <1>20, <1>21

(* oggvorbis returns a full buffer. *)
LEMMA BufferIsFullKeepsInv ==
  ASSUME Inv, BufferIsFull
  PROVE  Inv'
<1>1. PICK s \in Streams : s = read.stream
  BY DEF BufferIsFull, Inv, TypeOK, ReadsOK, Reads
<1>2. PICK done \in Nat : done = read.readsize
  BY DEF BufferIsFull, Inv, TypeOK, ReadsOK, Reads
<1>3. PICK size \in Sizes : size = read.size
  BY DEF BufferIsFull, Inv, TypeOK, ReadsOK, Reads
<1>4. /\ read # None /\ done = size /\ size \in Nat \ {0}
      /\ read.buffer \in Seq(Nat \cup {None}) /\ Len(read.buffer) = size
      /\ <<>> \in Seq(Nat \cup {None}) /\ Len(<<>>) = 0
  BY <1>2, <1>3, SizesAssumption DEF BufferIsFull, Inv, TypeOK, ReadsOK, Reads
<1>5. status[s] = "open" /\ codec[s] = Vorbis /\ codec[s] # Sndfile /\ filename[s] \in Files /\ filename[s] # None
  BY <1>1, <1>4, NamesAssumption DEF Inv, CallsInProgress, ObjectsHaveCodecs
<1>6. pos[s] \in Nat /\ expect[s] \in Nat /\ Length[filename[s]] \in Nat
  BY <1>5, FilesAssumption DEF Inv, TypeOK, StreamsOK
<1>7. read' = None /\ UNCHANGED <<lists, walk, object, handles, pos>>
  BY DEF BufferIsFull
<1>8. s \notin failed => pos[s] = expect[s] + done
  BY <1>1, <1>2, <1>4 DEF Inv, BufferBeingFilled
<1>9. /\ got' \in [stream : Streams \cup {None}, size : Sizes \cup {0},
                   frames : Seq(Nat \cup {None}), from : Nat]
      /\ got'.stream = s /\ got'.size = size /\ got'.frames = read.buffer
      /\ got'.from = expect[s]
      /\ expect' \in [Streams -> Nat]
      /\ expect'[s] = expect[s] + Len(read.buffer)
      /\ \A t \in Streams \ {s} : expect'[t] = expect[t]
      /\ failed' \subseteq Streams
      /\ \A t \in Streams \ {s} : t \in failed' <=> t \in failed
      /\ s \in failed' <=> s \in failed \/ read.buffer = <<>>
  <2>1. Returns(s, size, read.buffer)
    BY <1>1, <1>3 DEF BufferIsFull
  <2>2. StreamsOK /\ ReadsOK /\ size \in Sizes \cup {0}
    BY DEF Inv, TypeOK
  <2> QED BY <1>4, <2>1, <2>2, WhatReturns
<1>10. s \notin failed => read.buffer = Run(expect[s], size)
  <2>1. SUFFICES ASSUME s \notin failed PROVE read.buffer = Run(expect[s], size)
    OBVIOUS
  <2>2. \A k \in 1 .. size : read.buffer[k] = expect[s] + k - 1
    <3>1. \A k \in 1 .. done : read.buffer[k] = pos[s] - done + k - 1
      BY <1>1, <1>2, <1>4 DEF Inv, BufferBeingFilled
    <3> QED BY <1>2, <1>4, <1>6, <1>8, <2>1, <3>1
  <2> HIDE <1>1
  <2>3. read.buffer = [k \in 1 .. size |-> read.buffer[k]]
    BY <1>4
  <2> QED BY <2>2, <2>3 DEF Run
<1>11. holes' = holes /\ allowance' = allowance
  BY DEF BufferIsFull
<1> USE <1>1, <1>2, <1>3, <1>4, <1>5, <1>6, <1>7, <1>9, <1>11
<1> USE FilesAssumption, SizesAssumption, NamesAssumption
       DEF Inv, TypeOK, lists, object, client
<1>15. StreamsOK'
  BY DEF StreamsOK, ObjectsHaveCodecs, CallsInProgress, Left, ReadsOK, WalkOK, ListsOK, Walked, Importers
<1>16. ReadsOK'
  BY DEF ReadsOK, CallsInProgress, StreamsOK
<1>17. ObjectsHaveCodecs'
  BY DEF ObjectsHaveCodecs, ListsOK, WalkOK, StreamsOK, ReadsOK, CallsInProgress, Walked
<1>18. CallsInProgress'
  BY DEF CallsInProgress, ListsOK, WalkOK, StreamsOK, ReadsOK, ObjectsHaveCodecs, Walked
<1>20. BufferBeingFilled'
  BY DEF BufferBeingFilled, StreamsOK, ReadsOK, CallsInProgress, Left, Reads
<1>21. PositionKept'
  BY <1>8, SMTT(20) DEF PositionKept
<1>22. BufferDelivered'
  BY <1>10 DEF BufferDelivered
<1>23. LossIsBounded'
  <2>1. pos[s] - done - expect[s] \in 0 .. allowance[s] /\ allowance[s] \in Nat
    BY DEF BufferBeingFilled, StreamsOK
  <2>2. pos[s] - expect'[s] \in 0 .. allowance[s]
    BY <2>1
  <2>3. allowance' = allowance
    BY DEF BufferIsFull
  <2> QED BY <2>2, <2>3 DEF LossIsBounded
<1>24. ListsOK' /\ WalkOK' /\ InternalsAwaited' /\ FirstWilling' /\ HandlesAreOpenStreams'
  BY DEF ListsOK, WalkOK, InternalsAwaited, FirstWilling, HandlesAreOpenStreams, Walked
<1> QED BY <1>15, <1>16, <1>17, <1>18, <1>20, <1>21, <1>22, <1>23, <1>24

(* oggvorbis returns no buffer. *)
LEMMA NothingReadKeepsInv ==
  ASSUME Inv, NEW hole \in BOOLEAN, NothingRead(hole)
  PROVE  Inv'
<1>1. PICK s \in Streams : s = read.stream
  BY DEF NothingRead, Inv, TypeOK, ReadsOK, Reads
<1>2. PICK done \in Nat : done = read.readsize
  BY DEF NothingRead, Inv, TypeOK, ReadsOK, Reads
<1>3. PICK size \in Sizes : size = read.size
  BY DEF NothingRead, Inv, TypeOK, ReadsOK, Reads
<1>4. /\ read # None /\ done < size /\ size \in Nat \ {0}
      /\ read.buffer \in Seq(Nat \cup {None}) /\ Len(read.buffer) = size
      /\ <<>> \in Seq(Nat \cup {None}) /\ Len(<<>>) = 0
  BY <1>2, <1>3, SizesAssumption DEF NothingRead, Inv, TypeOK, ReadsOK, Reads
<1>5. status[s] = "open" /\ codec[s] = Vorbis /\ codec[s] # Sndfile /\ filename[s] \in Files /\ filename[s] # None
  BY <1>1, <1>4, NamesAssumption DEF Inv, CallsInProgress, ObjectsHaveCodecs
<1>6. pos[s] \in Nat /\ expect[s] \in Nat /\ Length[filename[s]] \in Nat
  BY <1>5, FilesAssumption DEF Inv, TypeOK, StreamsOK
<1>7. read' = None /\ UNCHANGED <<lists, walk, object, handles, pos>>
  BY DEF NothingRead
<1>8. s \notin failed => pos[s] = expect[s] + done
  BY <1>1, <1>2, <1>4 DEF Inv, BufferBeingFilled
<1>9. /\ got' \in [stream : Streams \cup {None}, size : Sizes \cup {0},
                   frames : Seq(Nat \cup {None}), from : Nat]
      /\ got'.stream = s /\ got'.size = size /\ got'.frames = <<>>
      /\ got'.from = expect[s]
      /\ expect' \in [Streams -> Nat]
      /\ expect'[s] = expect[s] + Len(<<>>)
      /\ \A t \in Streams \ {s} : expect'[t] = expect[t]
      /\ failed' \subseteq Streams
      /\ \A t \in Streams \ {s} : t \in failed' <=> t \in failed
      /\ s \in failed' <=> s \in failed \/ <<>> = <<>>
  <2>1. Returns(s, size, <<>>)
    BY <1>1, <1>3 DEF NothingRead
  <2>2. StreamsOK /\ ReadsOK /\ size \in Sizes \cup {0}
    BY DEF Inv, TypeOK
  <2> QED BY <1>4, <2>1, <2>2, WhatReturns
<1>10. \/ holes \in Nat /\ holes' = holes + 1 /\ holes < MaxHoles
       \/ holes' = holes /\ Left(s) = 0
  BY <1>1 DEF NothingRead, Inv, TypeOK, ReadsOK
<1>11. /\ allowance' \in [Streams -> Nat]
       /\ allowance'[s] = IF done > 0 THEN allowance[s] + size - 1 ELSE allowance[s]
       /\ \A t \in Streams \ {s} : allowance'[t] = allowance[t]
  <2>1. allowance \in [Streams -> Nat] /\ allowance[s] \in Nat
    BY DEF Inv, TypeOK, StreamsOK
  <2>2. allowance' = [allowance EXCEPT ![s] = IF done > 0 THEN @ + size - 1 ELSE @]
    BY <1>1, <1>2, <1>3 DEF NothingRead
  <2>3. allowance[s] + size - 1 \in Nat
    BY <1>4, <2>1
  <2> QED BY <2>1, <2>2, <2>3
<1>12. /\ pos[s] - done - expect[s] \in 0 .. allowance[s] /\ allowance[s] \in Nat
       /\ expect'[s] = expect[s]
  BY <1>1, <1>2, <1>4, <1>6, <1>9 DEF Inv, BufferBeingFilled, TypeOK, StreamsOK
<1>13. pos[s] - expect'[s] \in 0 .. allowance'[s]
  BY <1>2, <1>4, <1>6, <1>11, <1>12, SMTT(30)
<1> USE <1>1, <1>2, <1>3, <1>4, <1>5, <1>6, <1>7, <1>9, <1>10
<1> USE FilesAssumption, SizesAssumption, NamesAssumption
       DEF Inv, TypeOK, lists, object, client
<1>15. StreamsOK'
  BY <1>11 DEF StreamsOK, ObjectsHaveCodecs, CallsInProgress, Left, ReadsOK, WalkOK, ListsOK, Walked, Importers
<1>16. ReadsOK'
  <2>1. holes' \in 0 .. MaxHoles
    BY SMTT(20) DEF ReadsOK
  <2> QED BY <2>1 DEF ReadsOK
<1>17. ObjectsHaveCodecs'
  BY DEF ObjectsHaveCodecs, ListsOK, WalkOK, StreamsOK, ReadsOK, CallsInProgress, Walked
<1>18. CallsInProgress'
  BY DEF CallsInProgress, ListsOK, WalkOK, StreamsOK, ReadsOK, ObjectsHaveCodecs, Walked
<1>20. BufferBeingFilled'
  BY DEF BufferBeingFilled, StreamsOK, ReadsOK, CallsInProgress, Left, Reads
<1>21. PositionKept'
  <2> SUFFICES ASSUME NEW t \in Streams \ failed' PROVE pos'[t] = expect'[t]
    BY DEF PositionKept
  <2>1. t # s /\ t \notin failed
    OBVIOUS
  <2>2. pos[t] = expect[t]
    BY <2>1 DEF PositionKept
  <2> QED BY <2>1, <2>2
<1>22. BufferDelivered'
  BY DEF BufferDelivered, StreamsOK, ReadsOK, WalkOK, ObjectsHaveCodecs, CallsInProgress, PositionKept, Run
<1>23. LossIsBounded'
  <2>1. ASSUME NEW t \in Streams \ {s}
        PROVE  /\ codec[t] = Sndfile => expect'[t] = pos[t]
               /\ pos[t] - expect'[t] \in 0 .. allowance'[t]
    BY <1>11, <2>1 DEF LossIsBounded
  <2> QED BY <1>13, <2>1 DEF LossIsBounded
<1>24. ListsOK' /\ WalkOK' /\ InternalsAwaited' /\ FirstWilling' /\ HandlesAreOpenStreams'
  BY DEF ListsOK, WalkOK, InternalsAwaited, FirstWilling, HandlesAreOpenStreams, Walked
<1> QED BY <1>15, <1>16, <1>17, <1>18, <1>20, <1>21, <1>22, <1>23, <1>24

(* A seek, of either importer. *)
LEMMA MovesToKeepsInv ==
  ASSUME Inv, NEW s \in Streams, NEW p \in Int, MovesTo(s, p)
  PROVE  Inv'
<1> USE FilesAssumption, SizesAssumption, NamesAssumption
       DEF Inv, TypeOK, lists, object, client, MovesTo, ClientAt, Idle, Nothing
<1>1. StreamsOK'
  <2>1. filename[s] \in Files /\ p \in Nat
    BY DEF ObjectsHaveCodecs
  <2>2. pos' \in [Streams -> Nat] /\ expect' \in [Streams -> Nat] /\ allowance' \in [Streams -> Nat]
        /\ \A t \in Streams : filename[t] # None => pos'[t] <= Length[filename[t]]
    BY <2>1 DEF StreamsOK
  <2> QED BY <2>2 DEF StreamsOK
<1>2. ReadsOK'
  BY DEF ReadsOK, CallsInProgress, StreamsOK
<1>3. ObjectsHaveCodecs'
  BY DEF ObjectsHaveCodecs, ListsOK, WalkOK, StreamsOK, ReadsOK, CallsInProgress, Walked
<1>5. BufferBeingFilled'
  BY DEF BufferBeingFilled, StreamsOK, ReadsOK, CallsInProgress, Left, Reads
<1>6. PositionKept'
  BY DEF PositionKept, StreamsOK, ReadsOK, WalkOK, CallsInProgress
<1>7. BufferDelivered'
  BY DEF BufferDelivered, StreamsOK, ReadsOK, WalkOK, ObjectsHaveCodecs, CallsInProgress, PositionKept, Run
<1>8. LossIsBounded'
  <2>1. /\ pos'[s] = p /\ expect'[s] = p /\ allowance'[s] = 0 /\ p \in Nat
        /\ read' = None /\ read = None /\ codec' = codec
    BY DEF StreamsOK
  <2>2. ASSUME NEW t \in Streams \ {s}
        PROVE  /\ codec[t] = Sndfile => expect'[t] = pos'[t]
               /\ pos'[t] - expect'[t] \in 0 .. allowance'[t]
    <3>1. expect'[t] = expect[t] /\ pos'[t] = pos[t] /\ allowance'[t] = allowance[t]
      BY DEF StreamsOK
    <3> QED BY <2>1, <3>1 DEF LossIsBounded
  <2>3. p - p \in 0 .. 0
    BY <2>1
  <2> QED BY <2>1, <2>2, <2>3 DEF LossIsBounded
<1>9. ListsOK' /\ WalkOK' /\ InternalsAwaited' /\ CallsInProgress' /\ FirstWilling'
      /\ HandlesAreOpenStreams'
  BY DEF ListsOK, WalkOK, InternalsAwaited, CallsInProgress, FirstWilling,
       HandlesAreOpenStreams, Walked
<1> QED BY <1>1, <1>2, <1>3, <1>5, <1>6, <1>7, <1>8, <1>9

(* A stream is closed. *)
LEMMA s_stream_closeKeepsInv ==
  ASSUME Inv, NEW s \in Streams, s_stream_close(s)
  PROVE  Inv'
<1> USE FilesAssumption, SizesAssumption, NamesAssumption
       DEF Inv, TypeOK, lists, object, client, s_stream_close, Idle, Nothing, FilesWithout
<1>1. StreamsOK'
  BY DEF StreamsOK, ObjectsHaveCodecs, CallsInProgress, Left, ReadsOK, WalkOK, ListsOK, Walked, Importers
<1>2. ReadsOK'
  BY DEF ReadsOK, CallsInProgress, StreamsOK
<1>3. ObjectsHaveCodecs'
  BY DEF ObjectsHaveCodecs, ListsOK, WalkOK, StreamsOK, ReadsOK, CallsInProgress, Walked
<1>4. CallsInProgress'
  BY DEF CallsInProgress, ListsOK, WalkOK, StreamsOK, ReadsOK, ObjectsHaveCodecs, Walked
<1>5. FirstWilling'
  BY DEF FirstWilling, ListsOK, WalkOK, StreamsOK, ObjectsHaveCodecs, CallsInProgress, Walked, Importers
<1>6. HandlesAreOpenStreams'
  BY DEF HandlesAreOpenStreams, ListsOK, WalkOK, StreamsOK, ObjectsHaveCodecs, CallsInProgress, Walked
<1>8. BufferDelivered'
  BY DEF BufferDelivered, StreamsOK, ReadsOK, WalkOK, ObjectsHaveCodecs, CallsInProgress, PositionKept, Run
<1>9. LossIsBounded'
  BY DEF LossIsBounded, StreamsOK, ReadsOK, WalkOK, ObjectsHaveCodecs, CallsInProgress, BufferBeingFilled
<1>10. ListsOK' /\ WalkOK' /\ InternalsAwaited' /\ BufferBeingFilled' /\ PositionKept'
  BY DEF ListsOK, WalkOK, InternalsAwaited, BufferBeingFilled, PositionKept, Walked
<1> QED BY <1>1, <1>2, <1>3, <1>4, <1>5, <1>6, <1>8, <1>9, <1>10

(* A closed stream is destroyed. *)
LEMMA s_stream_destroyKeepsInv ==
  ASSUME Inv, NEW s \in Streams, s_stream_destroy(s)
  PROVE  Inv'
<1> USE FilesAssumption, SizesAssumption, NamesAssumption
       DEF Inv, TypeOK, lists, object, client, s_stream_destroy, ClientAt, Idle, Nothing
<1>1. StreamsOK'
  BY DEF StreamsOK, ObjectsHaveCodecs, CallsInProgress, Left, ReadsOK, WalkOK, ListsOK, Walked, Importers
<1>2. ReadsOK'
  BY DEF ReadsOK, CallsInProgress, StreamsOK
<1>3. ObjectsHaveCodecs'
  BY DEF ObjectsHaveCodecs, ListsOK, WalkOK, StreamsOK, ReadsOK, CallsInProgress, Walked
<1>4. CallsInProgress'
  BY DEF CallsInProgress, ListsOK, WalkOK, StreamsOK, ReadsOK, ObjectsHaveCodecs, Walked
<1>5. FirstWilling'
  BY ZenonT(30) DEF FirstWilling, ListsOK, WalkOK, StreamsOK, ObjectsHaveCodecs, CallsInProgress, Walked, Importers
<1>6. HandlesAreOpenStreams'
  BY DEF HandlesAreOpenStreams, ListsOK, WalkOK, StreamsOK, ObjectsHaveCodecs, CallsInProgress, Walked
<1>8. BufferBeingFilled'
  BY DEF BufferBeingFilled, StreamsOK, ReadsOK, CallsInProgress, Left, Reads
<1>9. PositionKept'
  BY DEF PositionKept, StreamsOK, ReadsOK, WalkOK, CallsInProgress
<1>10. BufferDelivered'
  BY DEF BufferDelivered, StreamsOK, ReadsOK, WalkOK, ObjectsHaveCodecs, CallsInProgress, PositionKept, Run
<1>11. LossIsBounded'
  BY DEF LossIsBounded, StreamsOK, ReadsOK, WalkOK, ObjectsHaveCodecs, CallsInProgress, BufferBeingFilled
<1>12. ListsOK' /\ WalkOK' /\ InternalsAwaited'
  BY DEF ListsOK, WalkOK, InternalsAwaited, Walked
<1> QED BY <1>1, <1>2, <1>3, <1>4, <1>5, <1>6, <1>8, <1>9, <1>10, <1>11, <1>12

(* Every step keeps the invariant.                                         *)
LEMMA InvStep == Inv /\ [Next]_vars => Inv'
<1> SUFFICES ASSUME Inv, [Next]_vars PROVE Inv'
  OBVIOUS
<1>1. ASSUME NEW s \in Streams, NEW offset \in Offsets, NEW whence \in {"set", "cur", "end"},
             libsndfile_stream_seek(s, offset, whence)
      PROVE  Inv'
  <2> DEFINE p == offset + CASE whence = "set" -> 0
                             [] whence = "cur" -> pos[s]
                             [] whence = "end" -> Length[filename[s]]
  <2>1. MovesTo(s, p)
    BY <1>1 DEF libsndfile_stream_seek
  <2> HIDE DEF p
  <2>2. p \in Int
    BY <2>1 DEF MovesTo
  <2> QED BY <1>1, <2>1, <2>2, MovesToKeepsInv
<1>2. ASSUME NEW s \in Streams, NEW offset \in Offsets, oggvorbis_reader_stream_seek(s, offset)
      PROVE  Inv'
  BY <1>2, MovesToKeepsInv DEF oggvorbis_reader_stream_seek, Offsets
<1>3. CASE UNCHANGED vars
  BY <1>3 DEF vars, lists, object, client, Inv, TypeOK, ListsOK, WalkOK, StreamsOK, ReadsOK, ObjectsHaveCodecs,
       InternalsAwaited, CallsInProgress, FirstWilling, HandlesAreOpenStreams,
       BufferBeingFilled, PositionKept, BufferDelivered, LossIsBounded, Left, Walked
<1> QED BY <1>1, <1>2, <1>3, s_stream_importer_add_exKeepsInv, s_stream_exporter_add_exKeepsInv,
     s_stream_openKeepsInv, s_stream_createKeepsInv, RefusesKeepsInv, AcceptsKeepsInv,
     NobodyAcceptsKeepsInv, libsndfile_stream_getKeepsInv, OddSizeKeepsInv,
     oggvorbis_reader_stream_getKeepsInv, ov_readKeepsInv, BufferIsFullKeepsInv,
     NothingReadKeepsInv, s_stream_closeKeepsInv, s_stream_destroyKeepsInv DEF Next

THEOREM InvHolds == Spec => []Inv
BY InvInit, InvStep, PTL DEF Spec

(* Whatever importers clients add, at whatever moment, and whatever they   *)
(* open, close and read, the library has a file open for just the streams  *)
(* it opened, each opened by the first importer that wanted its file.      *)
THEOREM FilesAlwaysMatchStreams == Spec => []FilesMatchStreams
<1>1. Inv => FilesMatchStreams
  <2> SUFFICES ASSUME Inv PROVE FilesMatchStreams
    OBVIOUS
  <2> DEFINE Opened == {t \in Streams : status[t] = "open" /\ codec[t] \in {Vorbis, Sndfile}}
             Expected == {<<codec[s], s>> : s \in Opened}
  <2>1. handles \subseteq {Vorbis, Sndfile} \X Streams
    BY DEF Inv, TypeOK, StreamsOK
  <2>2. ASSUME NEW h \in handles
        PROVE  h \in Expected
    <3>1. PICK i \in {Vorbis, Sndfile}, s \in Streams : h = <<i, s>>
      BY <2>1
    <3>2. status[s] = "open" /\ codec[s] = i
      BY <3>1, <2>2 DEF Inv, HandlesAreOpenStreams
    <3> QED BY <3>1, <3>2
  <2>3. ASSUME NEW h \in Expected
        PROVE  h \in handles
    BY <2>3 DEF Inv, HandlesAreOpenStreams
  <2>4. handles = Expected
    BY <2>2, <2>3
  <2> QED BY <2>4 DEF Inv, FilesMatchStreams
<1> QED BY <1>1, InvHolds, PTL

(* A buffer holds the frames that follow those of the buffer before,       *)
(* however the decoder cut them up, and between two calls the decoder      *)
(* stands where the client takes it to stand.                              *)
THEOREM DeliveryIsAlwaysContiguous == Spec => []ContiguousDelivery
<1>1. Inv => ContiguousDelivery
  BY DEF Inv, ContiguousDelivery, PositionIsExpected, PositionKept, BufferDelivered, Idle
<1> QED BY <1>1, InvHolds, PTL

(* Wherever the data has holes and wherever it ends, a client of libsndfile *)
(* lacks no frame before the place where the decoder stands, and one of     *)
(* oggvorbis less than a buffer for each call that met a hole or the end    *)
(* with part of its buffer filled.                                          *)
THEOREM LossIsAlwaysLessThanABuffer == Spec => []LossIsLessThanABuffer
<1>1. Inv => LossIsLessThanABuffer
  BY DEF Inv, LossIsLessThanABuffer, LossIsBounded, Idle
<1> QED BY <1>1, InvHolds, PTL

=============================================================================
