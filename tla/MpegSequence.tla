---------------------------- MODULE MpegSequence ----------------------------
(***************************************************************************)
(* The frame by frame MPEG encoder: the API of mpeg2enc/api.c, which holds *)
(* back the frames between two reference frames, and the picture order of  *)
(* SimpegWrite_putseq_encode_bitmap() in mpeg2enc/putseq.c.                *)
(*                                                                         *)
(* A frame is the number of frames accepted before it, so a frame the      *)
(* client puts again after a failure has the same number.  A picture is    *)
(* what the stream says of it and which frames it was predicted from; how  *)
(* its blocks are coded is left out.  A call that encodes is a step per    *)
(* picture, because any of them may longjmp() out of the call.             *)
(***************************************************************************)
EXTENDS Integers, FiniteSets, SequencesExt

CONSTANTS
  Shapes,       \* pairs <<N, M>> that a parameter file asks for
  Announced,    \* what "num frames" may say
  MaxFrames,    \* bound: frames a client puts
  MaxFailures,  \* bound: pictures whose encoding fails
  None

ASSUME BoundsAssumption ==
  /\ Shapes \subseteq Int \X Int /\ Announced \subseteq Nat \ {0}
  /\ MaxFrames \in Nat /\ MaxFailures \in Nat /\ None \notin Nat

VARIABLES
  status,       \* of the context: "none", "open", "closed" or "refused"
  N, M, nframes, fieldpic,
  input,        \* SimpegWrite_current_input_frame
  frame,        \* SimpegWrite_current_frame
  bufbuf,       \* bufbuf[k]: the frame held back in slot k
  oldref, newref,  \* the frames in the two reference buffers
  call,         \* the call in progress
  todo,         \* the frames that call has yet to encode
  left,         \* Np and Nb: the P and B pictures rate control still counts on
  stream,       \* the pictures written
  failures      \* history: pictures that failed

shape == <<N, M, nframes, fieldpic>>
vars  == <<status, shape, input, frame, bufbuf, oldref, newref, call, todo, left, stream, failures>>

Slots == 0 .. M-1
Empty == [k \in Slots |-> None]

Init ==
  /\ status = "none"
  /\ N = 1 /\ M = 1 /\ nframes = 1 /\ fieldpic = FALSE
  /\ input = 0 /\ frame = 0
  /\ bufbuf = [k \in {0} |-> None]
  /\ oldref = None /\ newref = None
  /\ call = "none" /\ todo = <<>>
  /\ left = [np |-> 0, nb |-> 0] /\ stream = <<>>
  /\ failures = 0

-----------------------------------------------------------------------------
(* The place of the next picture in the sequence.                          *)

Lesser(a, b) == IF a < b THEN a ELSE b
CDiv(a, b)   == IF a >= 0 THEN a \div b ELSE -((-a) \div b)

(* "f0: lowest frame number in current GOP"                                *)
GroupStart ==
  LET f0 == N * ((frame + (M-1)) \div N) - (M-1) IN IF f0 < 0 THEN 0 ELSE f0

IsReference == frame = 0 \/ (frame - 1) % M = 0
PictType == IF ~IsReference THEN "B" ELSE IF frame = GroupStart THEN "I" ELSE "P"

DisplayNumber ==
  IF ~IsReference THEN frame - 1
  ELSE Lesser(IF frame = 0 THEN 0 ELSE frame + M - 1, nframes - 1)

UncutBudget ==
  LET n  == IF frame = 0 THEN N - (M-1) ELSE N
      np == IF frame = 0 THEN CDiv(n + 2*(M-1), M) - 1 ELSE CDiv(n + (M-1), M) - 1
  IN [np |-> np, nb |-> n - np - 1]

(* The P and B pictures of a group.                                        *)
GroupBudget ==
  LET full == IF frame = 0 THEN N - (M-1) ELSE N
      n    == Lesser(full, nframes - GroupStart)
      np   == IF frame = 0 THEN CDiv(n + 2*(M-1), M) - 1 ELSE CDiv(n + (M-1), M) - 1
  IN [np |-> np, nb |-> n - np - 1]

(* Rate control counts pictures: a frame is one, or the two of its fields, *)
(* of which the second of an I frame is a P picture.                       *)
Pictures == IF fieldpic THEN 2 ELSE 1

rc_init_GOP(g) == [np |-> IF fieldpic THEN 2 * g.np + 1 ELSE g.np,
                   nb |-> IF fieldpic THEN 2 * g.nb ELSE g.nb]

Planned == IF PictType = "I" THEN rc_init_GOP(GroupBudget) ELSE left

(* What is left when the first n pictures of a frame are coded.            *)
rc_update_pict(n) ==
  [np |-> Planned.np - (CASE PictType = "P" -> n
                          [] PictType = "I" /\ n = 2 -> 1
                          [] OTHER -> 0),
   nb |-> Planned.nb - (IF PictType = "B" THEN n ELSE 0)]

-----------------------------------------------------------------------------
(* Opening.                                                                *)

Accepted(s) == s[1] >= 1 /\ s[2] >= 1 /\ s[1] % s[2] = 0

SimpegWrite_begin_encode(s, announced, fields) ==
  /\ status = "none"
  /\ \/ /\ Accepted(s)
        /\ status' = "open"
        /\ N' = s[1] /\ M' = s[2] /\ nframes' = announced /\ fieldpic' = fields
        /\ bufbuf' = [k \in 0 .. M'-1 |-> None]
     \/ /\ status' = "refused"
        /\ UNCHANGED <<shape, bufbuf>>
  /\ UNCHANGED <<input, frame, oldref, newref, call, todo, left, stream, failures>>

-----------------------------------------------------------------------------
(* Putting frames.                                                         *)

Idle == status = "open" /\ call = "none"

(* The frames held back, in the order of their slots; those before slot k. *)
HeldBefore[k \in 0..M] ==
  IF k = 0 THEN <<>>
  ELSE IF bufbuf[k - 1] = None THEN HeldBefore[k - 1]
  ELSE Append(HeldBefore[k - 1], bufbuf[k - 1])

HeldBack == HeldBefore[M]

BuffersFirst ==
  /\ input % M = 0
  /\ call' = "put"
  /\ todo' = Append(HeldBack, input)
  /\ UNCHANGED <<input, bufbuf>>

ReferenceFrame ==
  /\ input % M = 0
  /\ call' = "put"
  /\ todo' = <<input>> \o HeldBack
  /\ UNCHANGED <<input, bufbuf>>

HeldFrame ==
  /\ input % M # 0
  /\ bufbuf' = [bufbuf EXCEPT ![input % M] = input]
  /\ input' = input + 1
  /\ UNCHANGED <<call, todo>>

SimpegWrite_encode_bitmap ==
  /\ Idle /\ input < MaxFrames
  /\ ReferenceFrame \/ HeldFrame
  /\ UNCHANGED <<status, shape, frame, oldref, newref, left, stream, failures>>

ShufflesForPOnly(c) ==
  IF PictType = "P" THEN oldref' = newref /\ newref' = c ELSE UNCHANGED <<oldref, newref>>

(* The reference buffers are swapped before the new frame is read into the *)
(* newer of them.                                                          *)
Shuffle(c) ==
  IF IsReference THEN oldref' = newref /\ newref' = c ELSE UNCHANGED <<oldref, newref>>

SimpegWrite_putseq_encode_bitmap ==
  /\ todo # <<>>
  /\ Shuffle(Head(todo))
  /\ stream' = Append(stream,
       [content |-> Head(todo), type |-> PictType, number |-> DisplayNumber,
        start |-> GroupStart, temp_ref |-> DisplayNumber - GroupStart,
        old |-> oldref', new |-> newref', by |-> call, planned |-> Planned])
  /\ left' = rc_update_pict(Pictures)
  /\ frame' = frame + 1
  /\ todo' = Tail(todo)
  /\ UNCHANGED <<status, shape, input, bufbuf, call, failures>>

CountsFailedFrames ==
  /\ todo # <<>> /\ failures < MaxFailures
  /\ Shuffle(None)
  /\ \E n \in 0 .. Pictures - 1 : left' = rc_update_pict(n)
  /\ failures' = failures + 1
  /\ call' = "none" /\ todo' = <<>>
  /\ status' = IF call = "end" THEN "closed" ELSE status
  /\ bufbuf' = IF call = "end" THEN Empty ELSE bufbuf
  /\ input' = input + 1
  /\ UNCHANGED <<shape, frame, stream>>

(* simpeg_encode_error() while a picture is encoded: longjmp() to the call *)
(* in progress.  A put returns 0 and leaves the context as it is; the end  *)
(* cleans up.                                                              *)
SimpegWrite_error ==
  /\ todo # <<>> /\ failures < MaxFailures
  /\ Shuffle(None)
  /\ \E n \in 0 .. Pictures - 1 : left' = rc_update_pict(n)
  /\ failures' = failures + 1
  /\ call' = "none" /\ todo' = <<>>
  /\ status' = IF call = "end" THEN "closed" ELSE status
  /\ bufbuf' = IF call = "end" THEN Empty ELSE bufbuf
  /\ UNCHANGED <<shape, input, frame, stream>>

(* "clean buffer", and the put returns 1.                                  *)
PutReturns ==
  /\ call = "put" /\ todo = <<>>
  /\ bufbuf' = Empty
  /\ input' = input + 1
  /\ call' = "none"
  /\ UNCHANGED <<status, shape, frame, oldref, newref, todo, left, stream, failures>>

-----------------------------------------------------------------------------
(* Closing.                                                                *)

DropsHeldBack ==
  /\ Idle
  /\ call' = "end"
  /\ todo' = <<>>
  /\ UNCHANGED <<status, shape, input, frame, bufbuf, oldref, newref, left, stream, failures>>

(* "before we're done - encode any buffered frames"                        *)
SimpegWrite_end_encode ==
  /\ Idle
  /\ call' = "end"
  /\ todo' = HeldBack
  /\ UNCHANGED <<status, shape, input, frame, bufbuf, oldref, newref, left, stream, failures>>

EndReturns ==
  /\ call = "end" /\ todo = <<>>
  /\ status' = "closed"
  /\ bufbuf' = Empty
  /\ call' = "none"
  /\ UNCHANGED <<shape, input, frame, oldref, newref, todo, left, stream, failures>>

Next ==
  \/ \E s \in Shapes, announced \in Announced, fields \in BOOLEAN :
       SimpegWrite_begin_encode(s, announced, fields)
  \/ SimpegWrite_encode_bitmap \/ PutReturns
  \/ SimpegWrite_putseq_encode_bitmap \/ SimpegWrite_error
  \/ SimpegWrite_end_encode \/ EndReturns

Spec == Init /\ [][Next]_vars

-----------------------------------------------------------------------------
(* Properties.                                                             *)

Frames == 0 .. MaxFrames
Written == ToSet(stream)

(* The context's fields and the pictures have the types global.h gives     *)
(* them, and the frames put never outrun the slots they are held in.       *)
TypeOK ==
  /\ status \in {"none", "open", "closed", "refused"}
  /\ N >= 1 /\ M >= 1 /\ nframes \in Nat \ {0} /\ fieldpic \in BOOLEAN
  /\ left \in [np : Int, nb : Int]
  /\ input \in Frames /\ frame \in 0 .. (MaxFrames + MaxFailures * M)
  /\ bufbuf \in [Slots -> Frames \cup {None}]
  /\ {oldref, newref} \subseteq Frames \cup {None}
  /\ call \in {"none", "put", "end"}
  /\ todo \in Seq(Frames)
  /\ \A p \in Written : p.type \in {"I", "P", "B"} /\ p.content \in Frames
  /\ failures \in 0 .. MaxFailures

(* Between two calls the slots hold exactly the frames accepted since the  *)
(* last reference frame, also after calls that failed: no put overwrites a *)
(* frame that is held back, and none is encoded twice from a stale slot.   *)
HeldSinceReference ==
  /\ TypeOK
  /\ Idle =>
    LET r == IF input = 0 THEN 0 ELSE (input - 1) % M IN
      \A k \in Slots : bufbuf[k] = IF k \in 1 .. r THEN input - 1 - r + k ELSE None

(* No frame is lost: frames stay held as they should, and a movie that was *)
(* closed without an error has every frame whose put returned 1, once,     *)
(* whatever number of frames had been announced.                           *)
EveryFrameOnce ==
  /\ HeldSinceReference
  /\ status = "closed" /\ failures = 0 =>
       /\ Len(stream) = input
       /\ {p.content : p \in Written} = 0 .. input - 1

(* putseq.c:468, "f: frame number in display order": frames encoded by a   *)
(* put are numbered in the order they were put, but for references beyond  *)
(* the announced number of frames, which all have the number of the last.  *)
NumberedAsPut ==
  \A p \in Written : p.by = "put" =>
    p.number = IF p.type = "B" THEN p.content ELSE Lesser(p.content, nframes - 1)

(* No two pictures of a group share a temporal reference, and all of them  *)
(* lie in the group, as long as no more frames are put than announced.     *)
TemporalReferences ==
  frame <= nframes =>
    \A p \in Written :
      /\ p.temp_ref \in 0 .. N - 1
      /\ \A q \in Written : p # q /\ p.start = q.start => p.temp_ref # q.temp_ref

(* The frames held back at the end of the movie (api.c:346) are shown      *)
(* after all others and in their order, but for the first of them: it      *)
(* becomes the reference that never came and is shown last.                *)
FirstOfTheTailIsLast ==
  frame <= nframes =>
    \A p, q \in Written :
      p.by = "end" /\ q.content < p.content =>
        IF q.by = "end" /\ q.content % M = 1 THEN q.number > p.number ELSE q.number < p.number

(* Shown in the order of their numbers, the pictures are as they were put, *)
(* each with a place of its own in its group, up to a last group that the  *)
(* movie's end cut short.                                                  *)
GroupsInDisplayOrder ==
  failures = 0 => NumberedAsPut /\ TemporalReferences /\ FirstOfTheTailIsLast

(* A B picture lies between the frames its two references hold, a P        *)
(* picture after its one.                                                  *)
ReferencesStraddle ==
  \A p \in Written :
    failures = 0 /\ p.by = "put" /\ p.type # "I" =>
      /\ p.old # None /\ p.new # None
      /\ p.old < p.content
      /\ p.type = "B" => p.content < p.new

(* rc_init_pict() divides what is left of a group's bits by the pictures   *)
(* left in it.  As long as no more frames are coded than announced, it     *)
(* counts on those that come and no other: on the one to be coded at       *)
(* least, so it never divides by zero, and on none once the group is       *)
(* complete, be it the last and shorter one.                               *)
GroupsKeepBudget ==
  failures = 0 /\ frame <= nframes =>
    /\ \A p \in Written :
         /\ p.type = "P" => p.planned.np >= Pictures
         /\ p.type = "B" => p.planned.nb >= Pictures
         /\ p.type = "I" => p.planned.np >= Pictures - 1 /\ p.planned.nb >= 0
    /\ status = "open" /\ frame > 0 /\ (PictType = "I" \/ frame = nframes) =>
         left.np = 0 /\ left.nb = 0

=============================================================================
