------------------------------ MODULE Streams ------------------------------
(***************************************************************************)
(* The audio streams: the lists of importers and exporters and the stream  *)
(* objects of src/stream.c, and the two importers of the library,          *)
(* src/simage_oggvorbis_reader.c and src/simage_libsndfile.c.              *)
(*                                                                         *)
(* Sizes and positions count frames (a sample of every channel); a frame   *)
(* is its number in the file.  The importers are asked one by one, because *)
(* the open function of a client's importer may add another.  What a       *)
(* client's importer or exporter does with its stream is left out.         *)
(***************************************************************************)
EXTENDS Integers, SequencesExt

CONSTANTS
  Streams,      \* s_stream structures
  Imports,      \* importers of clients
  Exports,      \* exporters of clients
  Vorbis, Sndfile,   \* the importers of the library
  Files,
  Opens,        \* Opens[i]: the files that importer or exporter i opens
  Length,       \* Length[f]: frames in file f
  Sizes,        \* buffer sizes clients use
  Packet,       \* most frames ov_read() returns at once
  MaxHoles,     \* bound: interruptions in the data of vorbis files
  None

Importers == Imports \cup {Vorbis, Sndfile}

ASSUME FilesAssumption ==
  Length \in [Files -> Nat] /\ Opens \in [Importers \cup Exports -> SUBSET Files]
ASSUME SizesAssumption == Sizes \subseteq Nat \ {0} /\ Packet \in Nat \ {0} /\ MaxHoles \in Nat

(* A walk of s_stream_open() or s_stream_create() over its list, and a     *)
(* call of s_stream_get_buffer() that has begun to fill its buffer.        *)
Walks == [stream : Streams, file : Files, list : {"importers", "exporters"}, at : Nat]
Reads == [stream : Streams, size : Sizes, readsize : Nat, buffer : Seq(Nat \cup {None})]

ASSUME NamesAssumption ==
  /\ Vorbis # Sndfile /\ {Vorbis, Sndfile} \cap (Imports \cup Exports) = {}
  /\ Imports \cap Exports = {}
  /\ None \notin Importers \cup Exports \cup Streams \cup Files
  /\ None \notin Walks /\ None \notin Reads

VARIABLES
  first,        \* the flag of add_internal_importers()
  importers, exporters,  \* the lists
  walk,         \* s_stream_open() or s_stream_create() in progress
  status,       \* status[s]: "none", "open" or "closed"
  codec,        \* codec[s]: the importer or exporter whose functions s has
  filename,
  handles,      \* <<i, s>>: importer i has a file open for stream s
  pos,          \* pos[s]: the next frame the decoder delivers
  read,         \* s_stream_get_buffer() in progress
  got,          \* what the last s_stream_get_buffer() returned
  holes,
  expect,       \* history: the next frame the client expects
  failed,       \* history: streams that returned no buffer since the last seek
  allowance     \* history: less than a buffer for each of those calls that
                \* failed with part of its buffer filled

lists  == <<first, importers, exporters>>
object == <<status, codec, filename>>
client == <<expect, failed, allowance>>
vars   == <<lists, walk, object, handles, pos, read, got, holes, client>>

Nothing == [stream |-> None, size |-> 0, frames |-> <<>>, from |-> 0]

Init ==
  /\ first = TRUE
  /\ importers = <<>> /\ exporters = <<>>
  /\ walk = None
  /\ status = [s \in Streams |-> "none"]
  /\ codec = [s \in Streams |-> None]
  /\ filename = [s \in Streams |-> None]
  /\ handles = {}
  /\ pos = [s \in Streams |-> 0]
  /\ read = None /\ got = Nothing
  /\ holes = 0
  /\ expect = [s \in Streams |-> 0] /\ failed = {} /\ allowance = [s \in Streams |-> 0]

-----------------------------------------------------------------------------
(* The lists.                                                              *)

Idle == walk = None /\ read = None

(* Between two calls, or in the open function of a client's importer.      *)
ClientHasControl ==
  \/ Idle
  \/ walk # None /\ walk.list = "importers" /\ walk.at <= Len(importers)
       /\ importers[walk.at] \in Imports

s_stream_importer_add_ex(i) ==
  /\ ClientHasControl
  /\ i \in Imports \ ToSet(importers)
  /\ importers' = Append(importers, i)
  /\ UNCHANGED <<first, exporters, walk, object, handles, pos, read, got, holes, client>>

s_stream_exporter_add_ex(e) ==
  /\ ClientHasControl
  /\ e \in Exports \ ToSet(exporters)
  /\ exporters' = Append(exporters, e)
  /\ UNCHANGED <<first, importers, walk, object, handles, pos, read, got, holes, client>>

-----------------------------------------------------------------------------
(* Opening.                                                                *)

(* Importers a client added before its first s_stream_open() are asked     *)
(* before those of the library, and later ones after them.                 *)
add_internal_importers ==
  /\ importers' = IF first THEN importers \o <<Vorbis, Sndfile>> ELSE importers
  /\ first' = FALSE

s_stream_open(s, f) ==
  /\ Idle /\ status[s] = "none"
  /\ add_internal_importers
  /\ walk' = [stream |-> s, file |-> f, list |-> "importers", at |-> 1]
  /\ UNCHANGED <<exporters, object, handles, pos, read, got, holes, client>>

s_stream_create(s, f) ==
  /\ Idle /\ status[s] = "none"
  /\ walk' = [stream |-> s, file |-> f, list |-> "exporters", at |-> 1]
  /\ UNCHANGED <<lists, object, handles, pos, read, got, holes, client>>

Walked == IF walk.list = "importers" THEN importers ELSE exporters
Asked  == Walked[walk.at]
Asking == walk # None /\ walk.at <= Len(Walked)

(* What a client knows of a stream that was opened or moved.               *)
ClientAt(s, p) ==
  /\ expect' = [expect EXCEPT ![s] = p]
  /\ failed' = failed \ {s}
  /\ allowance' = [allowance EXCEPT ![s] = 0]

OpenedBy(i, s) == IF i \in {Vorbis, Sndfile} THEN {<<i, s>>} ELSE {}

KeepsRefusedFile ==
  /\ Asking /\ walk.file \notin Opens[Asked]
  /\ walk' = [walk EXCEPT !.at = @ + 1]
  /\ handles' = IF Asked = Vorbis THEN handles \cup {<<Vorbis, walk.stream>>} ELSE handles
  /\ UNCHANGED <<lists, object, pos, read, got, holes, client>>

(* Both importers of the library open the file before they know whether    *)
(* they can read it, and close it again if they cannot.                    *)
Refuses ==
  /\ Asking /\ walk.file \notin Opens[Asked]
  /\ walk' = [walk EXCEPT !.at = @ + 1]
  /\ UNCHANGED <<lists, object, handles, pos, read, got, holes, client>>

Accepts ==
  /\ Asking /\ walk.file \in Opens[Asked]
  /\ LET s == walk.stream IN
       /\ status' = [status EXCEPT ![s] = "open"]
       /\ codec' = [codec EXCEPT ![s] = Asked]
       /\ filename' = [filename EXCEPT ![s] = walk.file]
       /\ handles' = handles \cup OpenedBy(Asked, s)
       /\ pos' = [pos EXCEPT ![s] = 0]
       /\ ClientAt(s, 0)
  /\ walk' = None
  /\ UNCHANGED <<lists, read, got, holes>>

NobodyAccepts ==
  /\ walk # None /\ walk.at > Len(Walked)
  /\ walk' = None
  /\ UNCHANGED <<lists, object, handles, pos, read, got, holes, client>>

-----------------------------------------------------------------------------
(* Reading.  A buffer is the frames in it; what malloc() or an earlier     *)
(* call left there is None.                                                *)

Lesser(a, b) == IF a < b THEN a ELSE b
Left(s) == Length[filename[s]] - pos[s]
Run(from, n) == [k \in 1 .. n |-> from + k - 1]
Unfilled(n) == [k \in 1 .. n |-> None]

Returns(s, size, frames) ==
  /\ got' = [stream |-> s, size |-> size, frames |-> frames, from |-> expect[s]]
  /\ expect' = [expect EXCEPT ![s] = @ + Len(frames)]
  /\ failed' = IF frames = <<>> THEN failed \cup {s} ELSE failed

ShortReadFails(s, size) ==
  /\ Idle /\ status[s] = "open" /\ codec[s] = Sndfile
  /\ LET n == Lesser(size, Left(s)) IN
       /\ pos' = [pos EXCEPT ![s] = @ + n]
       /\ Returns(s, size, IF n < size THEN <<>> ELSE Run(pos[s], n))
  /\ UNCHANGED <<lists, walk, object, handles, read, holes, allowance>>

(* The buffer of doubles is allocated anew on every call, tempbuffersize   *)
(* staying 0, and is left out.                                             *)
libsndfile_stream_get(s, size) ==
  /\ Idle /\ status[s] = "open" /\ codec[s] = Sndfile
  /\ LET n == Lesser(size, Left(s)) IN
       /\ pos' = [pos EXCEPT ![s] = @ + n]
       /\ Returns(s, size, Run(pos[s], n))
  /\ UNCHANGED <<lists, walk, object, handles, read, holes, allowance>>

(* A size that is no multiple of the frame size is refused unread.         *)
OddSize(s) ==
  /\ Idle /\ status[s] = "open" /\ codec[s] = Sndfile
  /\ Returns(s, 0, <<>>)
  /\ UNCHANGED <<lists, walk, object, handles, pos, read, holes, allowance>>

oggvorbis_reader_stream_get(s, size) ==
  /\ Idle /\ status[s] = "open" /\ codec[s] = Vorbis
  /\ read' = [stream |-> s, size |-> size, readsize |-> 0, buffer |-> Unfilled(size)]
  /\ UNCHANGED <<lists, walk, object, handles, pos, got, holes, client>>

OverwritesStart(n) ==
  /\ read # None /\ read.readsize < read.size
  /\ n <= Lesser(read.size - read.readsize, Left(read.stream))
  /\ read' = [read EXCEPT
       !.buffer = [k \in 1 .. read.size |-> IF k <= n THEN pos[read.stream] + k - 1 ELSE @[k]],
       !.readsize = @ + n]
  /\ pos' = [pos EXCEPT ![read.stream] = @ + n]
  /\ UNCHANGED <<lists, walk, object, handles, got, holes, client>>

(* ov_read() delivers as much of the current packet as fits behind what    *)
(* has been read.                                                          *)
ov_read(n) ==
  /\ read # None /\ read.readsize < read.size
  /\ n <= Lesser(read.size - read.readsize, Left(read.stream))
  /\ read' = [read EXCEPT
       !.buffer = [k \in 1 .. read.size |->
                     IF k - read.readsize \in 1 .. n
                     THEN pos[read.stream] + k - read.readsize - 1 ELSE @[k]],
       !.readsize = @ + n]
  /\ pos' = [pos EXCEPT ![read.stream] = @ + n]
  /\ UNCHANGED <<lists, walk, object, handles, got, holes, client>>

BufferIsFull ==
  /\ read # None /\ read.readsize = read.size
  /\ Returns(read.stream, read.size, read.buffer)
  /\ read' = None
  /\ UNCHANGED <<lists, walk, object, handles, pos, holes, allowance>>

(* "if (numread<=0) return numread": at the end of the file or at a hole   *)
(* in the data, what this call has read before is not returned.            *)
NothingRead(hole) ==
  /\ read # None /\ read.readsize < read.size
  /\ \/ hole /\ holes < MaxHoles /\ holes' = holes + 1
     \/ ~hole /\ Left(read.stream) = 0 /\ UNCHANGED holes
  /\ Returns(read.stream, read.size, <<>>)
  /\ allowance' = [allowance EXCEPT ![read.stream] =
                     IF read.readsize > 0 THEN @ + read.size - 1 ELSE @]
  /\ read' = None
  /\ UNCHANGED <<lists, walk, object, handles, pos>>

-----------------------------------------------------------------------------
(* Seeking and closing.                                                    *)

MovesTo(s, p) ==
  /\ Idle /\ status[s] = "open" /\ p \in 0 .. Length[filename[s]]
  /\ pos' = [pos EXCEPT ![s] = p]
  /\ ClientAt(s, p)
  /\ got' = Nothing
  /\ UNCHANGED <<lists, walk, object, handles, read, holes>>

(* SEEK_SET, SEEK_CUR and SEEK_END; a seek out of the file changes nothing.*)
libsndfile_stream_seek(s, offset, whence) ==
  /\ codec[s] = Sndfile
  /\ MovesTo(s, offset + CASE whence = "set" -> 0
                           [] whence = "cur" -> pos[s]
                           [] whence = "end" -> Length[filename[s]])

oggvorbis_reader_stream_seek(s, offset) == codec[s] = Vorbis /\ MovesTo(s, offset)

(* The close function of the codec frees its context and closes its file.  *)
FilesWithout(s) == handles \ {<<codec[s], s>>}

s_stream_close(s) ==
  /\ Idle /\ status[s] = "open"
  /\ status' = [status EXCEPT ![s] = "closed"]
  /\ handles' = FilesWithout(s)
  /\ got' = Nothing
  /\ UNCHANGED <<lists, walk, codec, filename, pos, read, holes, client>>

s_stream_destroy(s) ==
  /\ Idle /\ status[s] = "closed"
  /\ status' = [status EXCEPT ![s] = "none"]
  /\ codec' = [codec EXCEPT ![s] = None]
  /\ filename' = [filename EXCEPT ![s] = None]
  /\ pos' = [pos EXCEPT ![s] = 0]
  /\ ClientAt(s, 0)
  /\ got' = Nothing
  /\ UNCHANGED <<lists, walk, handles, read, holes>>

(* The offsets clients seek to, a bound of the model.                      *)
Offsets == -2 .. 2

Next ==
  \/ \E i \in Imports : s_stream_importer_add_ex(i)
  \/ \E e \in Exports : s_stream_exporter_add_ex(e)
  \/ \E s \in Streams, f \in Files : s_stream_open(s, f) \/ s_stream_create(s, f)
  \/ Refuses \/ Accepts \/ NobodyAccepts
  \/ \E s \in Streams, size \in Sizes :
       libsndfile_stream_get(s, size) \/ oggvorbis_reader_stream_get(s, size)
  \/ \E s \in Streams : OddSize(s)
  \/ \E n \in 1 .. Packet : ov_read(n)
  \/ BufferIsFull
  \/ \E hole \in BOOLEAN : NothingRead(hole)
  \/ \E s \in Streams, offset \in Offsets :
       \/ \E whence \in {"set", "cur", "end"} : libsndfile_stream_seek(s, offset, whence)
       \/ oggvorbis_reader_stream_seek(s, offset)
  \/ \E s \in Streams : s_stream_close(s) \/ s_stream_destroy(s)

Spec == Init /\ [][Next]_vars

-----------------------------------------------------------------------------
(* Properties.                                                             *)

(* The lists, the objects and the calls in progress have their types, and  *)
(* no importer is listed twice.                                            *)
ListsOK ==
  /\ first \in BOOLEAN
  /\ importers \in Seq(Importers) /\ IsInjective(importers) /\ exporters \in Seq(Exports)
WalkOK ==
  /\ walk \in Walks \cup {None}
  /\ walk # None => walk.at \in 1 .. Len(Walked) + 1
StreamsOK ==
  /\ status \in [Streams -> {"none", "open", "closed"}]
  /\ codec \in [Streams -> Importers \cup Exports \cup {None}]
  /\ filename \in [Streams -> Files \cup {None}]
  /\ handles \subseteq {Vorbis, Sndfile} \X Streams
  /\ pos \in [Streams -> Nat] /\ expect \in [Streams -> Nat]
  /\ \A s \in Streams : filename[s] # None => pos[s] <= Length[filename[s]]
  /\ allowance \in [Streams -> Nat] /\ failed \subseteq Streams
ReadsOK ==
  /\ read \in Reads \cup {None}
  /\ read # None => read.readsize <= read.size /\ Len(read.buffer) = read.size
  /\ got \in [stream : Streams \cup {None}, size : Sizes \cup {0},
               frames : Seq(Nat \cup {None}), from : Nat]
  /\ holes \in 0 .. MaxHoles
TypeOK == ListsOK /\ WalkOK /\ StreamsOK /\ ReadsOK

(* A stream was opened by the first of the importers that opens its file,  *)
(* also when importers were added while they were being asked.             *)
FirstWilling ==
  \A s \in Streams : status[s] = "open" /\ codec[s] \in Importers =>
    \E k \in 1 .. Len(importers) :
      /\ importers[k] = codec[s]
      /\ \A j \in 1 .. k-1 : filename[s] \notin Opens[importers[j]]

(* The library has a file open for just the streams its importers opened   *)
(* and nobody closed: none is left by an importer that refused, or by one  *)
(* that an earlier one made unnecessary.                                   *)
FilesMatchStreams ==
  /\ TypeOK
  /\ FirstWilling
  /\ handles = {<<codec[s], s>> : s \in {t \in Streams : status[t] = "open" /\ codec[t] \in {Vorbis, Sndfile}}}

(* A buffer that s_stream_get_buffer() returns is full of the frames that  *)
(* follow those of the buffer before, in however many pieces the decoder   *)
(* delivered them, and between two calls the decoder is where the client   *)
(* takes it to be, so that s_stream_tell() and a relative seek count from  *)
(* the last frame delivered: if no call on the stream has failed since it  *)
(* was opened or moved.                                                    *)
PositionIsExpected ==
  Idle => \A s \in Streams : s \notin failed => pos[s] = expect[s]
ContiguousDelivery ==
  /\ PositionIsExpected
  /\ got.stream # None /\ got.stream \notin failed =>
       got.frames = Run(got.from, Len(got.frames))

(* What a client lacks of the frames before the place where the decoder    *)
(* stands (at the end of the file, or behind a hole, as well): nothing     *)
(* with libsndfile, whose short last buffer is delivered; with oggvorbis   *)
(* less than a buffer for each call that met the end or a hole with part   *)
(* of its buffer filled, and nothing for one that failed at once.          *)
LossIsLessThanABuffer ==
  Idle => \A s \in Streams : status[s] = "open" =>
    /\ codec[s] = Sndfile => expect[s] = pos[s]
    /\ pos[s] - expect[s] \in 0 .. allowance[s]
=============================================================================
