------------------------- MODULE MpegSequence_proofs -------------------------
(***************************************************************************)
(* Proofs about the frame by frame MPEG encoder (MpegSequence), for every  *)
(* shape of the groups, any number of frames and of failures.              *)
(*                                                                         *)
(* Everything hangs on one position: the frame number of putseq.c is the   *)
(* number of frames accepted less those still held back or still to do in  *)
(* the call in progress, and the failures before it.  From it follow which *)
(* picture is a reference, what the two reference buffers hold and which   *)
(* frames the stream has.                                                  *)
(***************************************************************************)
EXTENDS MpegSequence, SequenceTheorems, WellFoundedInduction, TLAPS

(* The frames held back since the last reference frame, and the pictures   *)
(* the put of a reference frame writes.                                    *)
Held == IF input = 0 THEN 0 ELSE (input - 1) % M
Full == IF input = 0 THEN 1 ELSE M

Budgets == [np : Int, nb : Int]
Picture ==
  [content : Frames, type : {"I", "P", "B"}, number : Int, start : Int, temp_ref : Int,
   old : Frames \cup {None}, new : Frames \cup {None}, by : {"put", "end"}, planned : Budgets]

FieldsOK ==
  /\ status \in {"none", "open", "closed", "refused"}
  /\ N \in Nat \ {0} /\ M \in Nat \ {0} /\ N % M = 0
  /\ nframes \in Nat \ {0} /\ fieldpic \in BOOLEAN
  /\ left \in Budgets
  /\ input \in Frames /\ frame \in Nat
  /\ oldref \in Frames \cup {None} /\ newref \in Frames \cup {None}
  /\ call \in {"none", "put", "end"}
  /\ todo \in Seq(Frames)
  /\ stream \in Seq(Picture) /\ Len(stream) = frame
  /\ failures \in 0 .. MaxFailures

CallsOK ==
  /\ call # "none" => status = "open"
  /\ call = "none" => todo = <<>>
  /\ call = "put" => input < MaxFrames /\ input % M = 0
  /\ status \in {"none", "refused"} => input = 0 /\ frame = 0 /\ newref = None

(* What HeldSinceReference says between two calls, and during them.        *)
SlotsOK ==
  bufbuf = [k \in Slots |-> IF status = "open" /\ k \in 1 .. Held
                            THEN input - 1 - Held + k ELSE None]

(* The frames still to be coded are the last of those held, in order, and  *)
(* before them the reference frame, as long as nothing has been coded.     *)
TodoOK ==
  /\ call = "put" =>
       /\ Len(todo) <= Full
       /\ \A j \in 1 .. Len(todo) :
            todo[j] = IF j = 1 /\ Len(todo) = Full THEN input ELSE input - Len(todo) + j - 1
  /\ call = "end" =>
       /\ Len(todo) <= Held
       /\ \A j \in 1 .. Len(todo) : todo[j] = input - Len(todo) + j - 1

Position ==
  IF call = "put" THEN input + 1 - Len(todo)
  ELSE IF call = "end" THEN input - Len(todo)
  ELSE input - Held

(* A put that failed leaves at most M pictures too many behind.            *)
FrameOK ==
  /\ status = "open" => frame - Position \in 0 .. failures * M
  /\ status = "closed" => /\ frame - input <= failures * M
                          /\ failures = 0 => frame = input

Inv == FieldsOK /\ CallsOK /\ SlotsOK /\ TodoOK /\ FrameOK

(* What the stream holds while nothing has failed.                         *)
Contents == {p.content : p \in Written}
Before(n) == {c \in Frames : c < n}

ContentsOK ==
  failures = 0 =>
    /\ status \in {"none", "refused"} => Contents = {}
    /\ status = "open" /\ call = "none" => Contents = Before(input - Held)
    /\ status = "open" /\ call = "put" =>
         Contents = IF Len(todo) = Full THEN Before(input + 1 - Full)
                    ELSE Before(input - Len(todo)) \cup {input}
    /\ status = "open" /\ call = "end" => Contents = Before(input - Len(todo))
    /\ status = "closed" => Contents = Before(input)

(* What the two reference buffers hold while nothing has failed.           *)
RefsOK ==
  failures = 0 /\ status = "open" /\ call # "end" =>
    IF call = "put" /\ Len(todo) < Full
    THEN newref = input /\ oldref = IF input = 0 THEN None ELSE input - M
    ELSE newref = IF input = 0 THEN None ELSE input - 1 - Held

-----------------------------------------------------------------------------
(* Division and remainders.                                                *)

LEMMA Division ==
  ASSUME NEW a \in Int, NEW m \in Nat \ {0}
  PROVE  a \div m \in Int /\ a % m \in 0 .. m - 1 /\ a = m * (a \div m) + (a % m)
OBVIOUS

LEMMA Remainder ==
  ASSUME NEW m \in Nat \ {0}, NEW q \in Int, NEW r \in 0 .. m - 1
  PROVE  (m * q + r) % m = r
BY SMTT(30)

LEMMA NextRemainder ==
  ASSUME NEW a \in Nat, NEW m \in Nat \ {0}
  PROVE  (a + 1) % m = IF a % m = m - 1 THEN 0 ELSE (a % m) + 1
<1> DEFINE q == a \div m
           r == a % m
<1>1. q \in Int /\ r \in 0 .. m - 1 /\ a = m * q + r
  BY Division
<1>0. r = a % m
  OBVIOUS
<1> HIDE DEF q, r
<1>2. CASE r = m - 1
  <2>1. a + 1 = m * (q + 1) + 0 /\ q + 1 \in Int /\ 0 \in 0 .. m - 1
    BY <1>1, <1>2
  <2>2. (m * (q + 1) + 0) % m = 0
    BY <2>1, Remainder
  <2> QED BY <2>1, <2>2, <1>0, <1>2
<1>3. CASE r # m - 1
  <2>1. a + 1 = m * q + (r + 1) /\ r + 1 \in 0 .. m - 1
    BY <1>1, <1>3
  <2>2. (m * q + (r + 1)) % m = r + 1
    BY <1>1, <2>1, Remainder
  <2> QED BY <2>1, <2>2, <1>0, <1>3
<1> QED BY <1>2, <1>3

LEMMA RemainderAtMost ==
  ASSUME NEW a \in Nat, NEW m \in Nat \ {0}
  PROVE  a % m <= a
<1>1. a \div m \in Int /\ a % m \in 0 .. m - 1 /\ a = m * (a \div m) + (a % m)
  BY Division
<1>2. a \div m >= 0
  BY <1>1
<1> QED BY <1>1, <1>2

LEMMA Multiple ==
  ASSUME NEW a \in Int, NEW m \in Nat \ {0}, a % m = 0
  PROVE  \E q \in Int : a = m * q
<1> DEFINE q == a \div m
<1>1. q \in Int /\ a = m * q + 0
  BY Division
<1> HIDE DEF q
<1>2. a = m * q
  BY <1>1
<1> QED BY <1>1, <1>2

LEMMA BackFromMultiple ==
  ASSUME NEW a \in Int, NEW m \in Nat \ {0}, NEW l \in 1 .. m, a % m = 0
  PROVE  (a - l) % m = m - l
<1>1. PICK q \in Int : a = m * q
  BY Multiple
<1>2. a - l = m * (q - 1) + (m - l) /\ m - l \in 0 .. m - 1 /\ q - 1 \in Int
  BY <1>1
<1>3. (m * (q - 1) + (m - l)) % m = m - l
  BY <1>2, Remainder
<1> QED BY <1>2, <1>3

LEMMA MultipleAtLeast ==
  ASSUME NEW a \in Nat \ {0}, NEW m \in Nat \ {0}, a % m = 0
  PROVE  m <= a
<1>1. PICK q \in Int : a = m * q
  BY Multiple
<1>2. q >= 1
  BY <1>1
<1> QED BY <1>1, <1>2

LEMMA MoreIsMore ==
  ASSUME NEW a \in Nat, NEW b \in Nat, NEW m \in Nat, a <= b
  PROVE  a * m <= b * m /\ a * m \in Nat /\ (a + 1) * m = a * m + m
OBVIOUS

(* A set of naturals that is not empty has a least element.                *)
LEMMA SmallestIndex ==
  ASSUME NEW T \in SUBSET Nat, T # {}
  PROVE  \E x \in T : \A y \in T : x <= y
<1> DEFINE R == OpToRel(<, Nat)
<1>1. \A x, y \in Nat : <<y, x>> \in R <=> y < x
  BY DEF OpToRel
<1>2. IsWellFoundedOn(R, Nat)
  BY NatLessThanWellFounded
<1> HIDE DEF R
<1>3. PICK x \in T : \A y \in T : ~(<<y, x>> \in R)
  BY <1>2, WFMin
<1>4. ASSUME NEW y \in T PROVE x <= y
  <2>1. x \in Nat /\ y \in Nat /\ ~(y < x)
    BY <1>1, <1>3
  <2> QED BY <2>1
<1> QED BY <1>4

-----------------------------------------------------------------------------
(* What is held back.                                                      *)

LEMMA HeldIs ==
  ASSUME FieldsOK
  PROVE  /\ Held \in Nat /\ Held <= M - 1 /\ Held <= input
         /\ input % M = IF input = 0 \/ Held = M - 1 THEN 0 ELSE Held + 1
<1>1. input \in Nat /\ M \in Nat \ {0}
  BY BoundsAssumption DEF FieldsOK, Frames
<1>2. CASE input = 0
  <2>1. (M * 0 + 0) % M = 0
    BY <1>1, Remainder
  <2>2. input % M = 0
    BY <1>1, <1>2, <2>1
  <2> QED BY <1>1, <1>2, <2>2 DEF Held
<1>3. CASE input # 0
  <2>1. PICK p \in Nat : p = input - 1 /\ p + 1 = input
    BY <1>1, <1>3
  <2>2. p % M \in 0 .. M - 1 /\ p \div M \in Int
    BY <1>1, Division
  <2>3. p % M <= p
    BY <1>1, RemainderAtMost
  <2>4. (p + 1) % M = IF p % M = M - 1 THEN 0 ELSE (p % M) + 1
    BY <1>1, NextRemainder
  <2>5. Held = p % M
    BY <1>3, <2>1 DEF Held
  <2> HIDE DEF Held
  <2> QED BY <1>1, <1>3, <2>1, <2>2, <2>3, <2>4, <2>5
<1> QED BY <1>2, <1>3

(* In a put of a reference frame.                                          *)
LEMMA FullIs ==
  ASSUME FieldsOK, input % M = 0
  PROVE  Full = Held + 1 /\ Full \in 1 .. M /\ Full <= input + 1
<1>1. Held \in Nat /\ Held <= M - 1 /\ input \in Nat /\ M \in Nat \ {0} /\ Held <= input
      /\ (input % M = IF input = 0 \/ Held = M - 1 THEN 0 ELSE Held + 1)
  BY HeldIs, BoundsAssumption DEF FieldsOK, Frames
<1>2. CASE input = 0
  BY <1>1, <1>2 DEF Full, Held
<1>3. CASE input # 0
  <2>1. Held = M - 1
    BY <1>1, <1>3
  <2> QED BY <1>1, <1>3, <2>1 DEF Full
<1> QED BY <1>2, <1>3

LEMMA HeldBackIs ==
  ASSUME FieldsOK, SlotsOK, status = "open"
  PROVE  HeldBack = [j \in 1 .. Held |-> input - 1 - Held + j]
<1>1. PICK r \in Nat : r = Held /\ r <= M - 1
  BY HeldIs
<1>2. PICK a \in Int : a = input - 1 - r
  BY BoundsAssumption DEF FieldsOK, Frames
<1>3. M \in Nat \ {0} /\ None \notin Nat /\ input \in Nat /\ r <= input
  BY HeldIs, <1>1, BoundsAssumption DEF FieldsOK, Frames
<1>4. \A k \in 0 .. M - 1 : bufbuf[k] = IF k \in 1 .. r THEN a + k ELSE None
  BY <1>1, <1>2 DEF SlotsOK, Slots
<1> DEFINE Cut(k) == IF k = 0 THEN 0 ELSE IF k - 1 <= r THEN k - 1 ELSE r
           spelled == [k \in 0 .. M |-> [j \in 1 .. Cut(k) |-> a + j]]
<1>s. \A k \in 0 .. M : spelled[k] = [j \in 1 .. Cut(k) |-> a + j]
  OBVIOUS
<1>5. spelled = [k \in 0 .. M |-> IF k = 0 THEN <<>>
                                  ELSE IF bufbuf[k - 1] = None THEN spelled[k - 1]
                                  ELSE Append(spelled[k - 1], bufbuf[k - 1])]
  <2> SUFFICES ASSUME NEW k \in 0 .. M
      PROVE  spelled[k] = IF k = 0 THEN <<>>
                          ELSE IF bufbuf[k - 1] = None THEN spelled[k - 1]
                          ELSE Append(spelled[k - 1], bufbuf[k - 1])
    OBVIOUS
  <2>1. CASE k = 0
    BY <2>1
  <2>2. CASE k = 1
    <3>1. bufbuf[0] = None
      BY <1>3, <1>4
    <3>2. spelled[1] = [j \in 1 .. 0 |-> a + j] /\ spelled[0] = [j \in 1 .. 0 |-> a + j]
      BY <1>1, <1>3
    <3> HIDE DEF spelled
    <3> QED BY <2>2, <3>1, <3>2
  <2>3. CASE k > 1 /\ k - 1 <= r
    <3>1. bufbuf[k - 1] = a + (k - 1) /\ bufbuf[k - 1] # None
      BY <1>1, <1>2, <1>3, <1>4, <2>3
    <3>2. Cut(k) = k - 1 /\ Cut(k - 1) = k - 2
      BY <1>1, <2>3
    <3>3. spelled[k - 1] = [j \in 1 .. k - 2 |-> a + j] /\ spelled[k] = [j \in 1 .. k - 1 |-> a + j]
      BY <3>2, <2>3, <1>3
    <3>4. Append([j \in 1 .. k - 2 |-> a + j], a + (k - 1)) = [j \in 1 .. k - 1 |-> a + j]
      BY <2>3, <1>1, <1>3
    <3> HIDE DEF spelled
    <3> QED BY <2>3, <3>1, <3>3, <3>4
  <2>4. CASE k > 1 /\ k - 1 > r
    <3>1. bufbuf[k - 1] = None
      BY <1>1, <1>3, <1>4, <2>4
    <3>2. Cut(k) = r /\ Cut(k - 1) = r
      BY <1>1, <2>4
    <3>3. spelled[k] = [j \in 1 .. r |-> a + j] /\ spelled[k - 1] = [j \in 1 .. r |-> a + j]
      <4>1. k \in 0 .. M /\ k - 1 \in 0 .. M
        BY <2>4, <1>3
      <4> HIDE DEF spelled, Cut
      <4> QED BY <4>1, <3>2, <1>s
    <3> HIDE DEF spelled
    <3> QED BY <2>4, <3>1, <3>3
  <2> QED BY <2>1, <2>2, <2>3, <2>4
<1>6. spelled[M] = [j \in 1 .. r |-> a + j]
  BY <1>1, <1>3
<1> HIDE DEF spelled
<1>7. HeldBefore = [k \in 0 .. M |-> IF k = 0 THEN <<>>
                                     ELSE IF bufbuf[k - 1] = None THEN HeldBefore[k - 1]
                                     ELSE Append(HeldBefore[k - 1], bufbuf[k - 1])]
  BY <1>5 DEF HeldBefore
<1>8. \A k \in 0 .. M : HeldBefore[k] = IF k = 0 THEN <<>>
                                        ELSE IF bufbuf[k - 1] = None THEN HeldBefore[k - 1]
                                        ELSE Append(HeldBefore[k - 1], bufbuf[k - 1])
  BY <1>7
<1>9. \A k \in 0 .. M : spelled[k] = IF k = 0 THEN <<>>
                                     ELSE IF bufbuf[k - 1] = None THEN spelled[k - 1]
                                     ELSE Append(spelled[k - 1], bufbuf[k - 1])
  BY <1>5
<1>10. \A k \in 0 .. M : HeldBefore[k] = spelled[k]
  <2> DEFINE T == {k \in 0 .. M : HeldBefore[k] # spelled[k]}
  <2> SUFFICES ASSUME T # {} PROVE FALSE
    OBVIOUS
  <2>0. T \in SUBSET Nat
    BY <1>3
  <2>1. PICK k \in T : \A l \in T : k <= l
    <3> HIDE DEF T
    <3> QED BY <2>0, SmallestIndex
  <2>2. k \in 0 .. M /\ HeldBefore[k] # spelled[k]
    OBVIOUS
  <2>3. k # 0
    BY <1>8, <1>9, <2>2
  <2>4. k - 1 \in 0 .. M /\ k - 1 \notin T
    BY <2>1, <2>2, <2>3, <1>3
  <2>5. HeldBefore[k - 1] = spelled[k - 1]
    BY <2>4
  <2> QED BY <1>8, <1>9, <2>2, <2>3, <2>5
<1> QED BY <1>1, <1>2, <1>3, <1>6, <1>10 DEF HeldBack

-----------------------------------------------------------------------------
(* The invariant, a lemma for each action.                                 *)

LEMMA InvInit == Init => Inv
<1> SUFFICES ASSUME Init PROVE Inv
  OBVIOUS
<1> USE BoundsAssumption DEF Init
<1>1. FieldsOK
  <2>1. (1 * 1 + 0) % 1 = 0
    BY Remainder
  <2>2. N % M = 0
    BY <2>1
  <2>3. todo \in Seq(Frames) /\ stream \in Seq(Picture) /\ Len(stream) = 0
    OBVIOUS
  <2> QED BY <2>2, <2>3 DEF FieldsOK, Frames, Budgets
<1>2. CallsOK
  BY DEF CallsOK
<1>3. SlotsOK
  BY DEF SlotsOK, Slots
<1>4. TodoOK /\ FrameOK
  BY DEF TodoOK, FrameOK
<1> QED BY <1>1, <1>2, <1>3, <1>4 DEF Inv

(* What every step reads of the state it starts from.                      *)
LEMMA Numbers ==
  ASSUME Inv
  PROVE  /\ input \in Nat /\ MaxFrames \in Nat /\ input <= MaxFrames /\ frame \in Nat
         /\ M \in Nat \ {0} /\ N \in Nat \ {0} /\ MaxFailures \in Nat
         /\ failures \in Nat /\ None \notin Nat
         /\ failures * M \in Nat /\ (failures + 1) * M = failures * M + M
         /\ Held \in Nat /\ Held <= M - 1 /\ Held <= input
         /\ input % M = IF input = 0 \/ Held = M - 1 THEN 0 ELSE Held + 1
         /\ Len(todo) \in Nat
         /\ call = "put" => Full = Held + 1 /\ Full \in 1 .. M /\ Full <= input + 1
<1> USE BoundsAssumption DEF Inv
<1>1. input \in Nat /\ MaxFrames \in Nat /\ input <= MaxFrames /\ frame \in Nat
      /\ M \in Nat \ {0} /\ N \in Nat \ {0} /\ failures \in Nat /\ None \notin Nat
      /\ MaxFailures \in Nat
  BY DEF FieldsOK, Frames
<1>2. failures * M \in Nat /\ (failures + 1) * M = failures * M + M
  BY <1>1, MoreIsMore
<1>3. Len(todo) \in Nat
  BY DEF FieldsOK
<1>4. Held \in Nat /\ Held <= M - 1 /\ Held <= input
      /\ (input % M = IF input = 0 \/ Held = M - 1 THEN 0 ELSE Held + 1)
  BY HeldIs
<1>5. call = "put" => Full = Held + 1 /\ Full \in 1 .. M /\ Full <= input + 1
  BY FullIs DEF CallsOK
<1> QED BY <1>1, <1>2, <1>3, <1>4, <1>5

LEMMA LastOnes ==
  ASSUME NEW n \in Frames, NEW h \in Nat, h <= n
  PROVE  /\ [j \in 1 .. h |-> n - 1 - h + j] \in Seq(Frames)
         /\ Len([j \in 1 .. h |-> n - 1 - h + j]) = h
<1>1. n \in Nat /\ n <= MaxFrames /\ MaxFrames \in Nat
  BY BoundsAssumption DEF Frames
<1>2. \A j \in 1 .. h : n - 1 - h + j \in Frames
  BY <1>1 DEF Frames
<1> DEFINE s == [j \in 1 .. h |-> n - 1 - h + j]
<1>3. s \in [1 .. h -> Frames]
  BY <1>2
<1> HIDE DEF s
<1>4. s \in Seq(Frames) /\ Len(s) = h
  BY <1>3
<1> QED BY <1>4 DEF s

(* SimpegWrite_begin_encode                                                *)
LEMMA BeginKeepsInv ==
  ASSUME Inv, NEW s \in Shapes, NEW announced \in Announced, NEW fields \in BOOLEAN,
         SimpegWrite_begin_encode(s, announced, fields)
  PROVE  Inv'
<1> USE DEF SimpegWrite_begin_encode
<1>0. /\ status = "none" /\ input = 0 /\ frame = 0 /\ newref = None /\ call = "none" /\ todo = <<>>
      /\ Len(stream) = 0 /\ failures \in Nat
  BY Numbers DEF Inv, CallsOK, FieldsOK
<1>1. CASE Accepted(s) /\ status' = "open" /\ N' = s[1] /\ M' = s[2] /\ nframes' = announced
           /\ fieldpic' = fields /\ bufbuf' = [k \in 0 .. M'-1 |-> None]
  <2>1. s[1] \in Nat \ {0} /\ s[2] \in Nat \ {0} /\ s[1] % s[2] = 0
    BY <1>1, BoundsAssumption DEF Accepted
  <2>2. announced \in Nat \ {0}
    BY BoundsAssumption
  <2>3. FieldsOK'
    BY <1>1, <2>1, <2>2 DEF Inv, FieldsOK, Budgets, Picture, Frames
  <2>4. CallsOK'
    BY <1>0, <1>1 DEF Inv, CallsOK
  <2>5. SlotsOK' /\ TodoOK'
    BY <1>0, <1>1 DEF SlotsOK, TodoOK, Slots, Held
  <2>6. FrameOK'
    <3>1. (failures * M)' \in Nat
      BY <1>0, <1>1, <2>1, MoreIsMore
    <3> QED BY <1>0, <1>1, <3>1 DEF FrameOK, Position, Held
  <2> QED BY <2>3, <2>4, <2>5, <2>6 DEF Inv
<1>2. CASE status' = "refused" /\ UNCHANGED <<shape, bufbuf>>
  BY <1>0, <1>2 DEF Inv, FieldsOK, CallsOK, SlotsOK, TodoOK, FrameOK, Slots, Held, Frames, Budgets,
     Picture, shape
<1> QED BY <1>1, <1>2

(* SimpegWrite_encode_bitmap of a reference frame                          *)
LEMMA ReferenceTodo ==
  ASSUME Inv, SimpegWrite_encode_bitmap, ReferenceFrame
  PROVE  /\ input % M = 0 /\ Full = Held + 1 /\ input < MaxFrames
         /\ todo' \in Seq(Frames) /\ Len(todo') = Held + 1
         /\ \A j \in 1 .. Held + 1 :
              todo'[j] = IF j = 1 THEN input ELSE input - (Held + 1) + j - 1
<1> USE DEF SimpegWrite_encode_bitmap, ReferenceFrame, Idle
<1>1. FieldsOK /\ input % M = 0 /\ Full = Held + 1 /\ input < MaxFrames
  BY FullIs DEF Inv
<1>2. HeldBack = [j \in 1 .. Held |-> input - 1 - Held + j]
  BY HeldBackIs DEF Inv
<1> DEFINE first == <<input>>
           rest == [j \in 1 .. Held |-> input - 1 - Held + j]
<1>3. rest \in Seq(Frames) /\ Len(rest) = Held
  BY Numbers, LastOnes DEF Inv, FieldsOK
<1>4. first \in Seq(Frames) /\ Len(first) = 1 /\ first[1] = input
  BY Numbers DEF Frames
<1>5. /\ todo' \in Seq(Frames) /\ Len(todo') = Held + 1
      /\ \A j \in 1 .. Held + 1 :
           todo'[j] = IF j = 1 THEN input ELSE input - (Held + 1) + j - 1
  <2>1. todo' = first \o rest
    BY <1>2
  <2>2. Held \in Nat /\ input \in Nat
    BY Numbers
  <2>3. \A j \in 2 .. Held + 1 : rest[j - 1] = input - 1 - Held + (j - 1)
    BY <2>2
  <2> HIDE DEF first, rest, ReferenceFrame, SimpegWrite_encode_bitmap, Idle
  <2>6. /\ first \o rest \in Seq(Frames) /\ Len(first \o rest) = Len(first) + Len(rest)
         /\ \A j \in 1 .. Len(first) + Len(rest) :
              (first \o rest)[j] = IF j <= Len(first) THEN first[j] ELSE rest[j - Len(first)]
    BY <1>3, <1>4, ConcatProperties
  <2>4. todo' \in Seq(Frames) /\ Len(todo') = 1 + Held
    BY ONLY <1>3, <1>4, <2>1, <2>2, <2>6
  <2>5. \A j \in 1 .. 1 + Held : todo'[j] = IF j <= 1 THEN first[j] ELSE rest[j - 1]
    BY ONLY <1>3, <1>4, <2>1, <2>2, <2>6
  <2>7. PICK h \in Nat, n \in Nat : h = Held /\ n = input
    BY <2>2
  <2>8. \A j \in 1 .. h + 1 : todo'[j] = IF j = 1 THEN n ELSE n - (h + 1) + j - 1
    <3> SUFFICES ASSUME NEW j \in 1 .. h + 1
                 PROVE  todo'[j] = IF j = 1 THEN n ELSE n - (h + 1) + j - 1
      OBVIOUS
    <3>1. CASE j = 1
      BY <3>1, <1>4, <2>5, <2>7
    <3>2. CASE j # 1
      <4>1. j \in 2 .. h + 1
        BY <3>2
      <4>2. todo'[j] = rest[j - 1] /\ rest[j - 1] = n - 1 - h + (j - 1)
        BY <4>1, <2>3, <2>5, <2>7
      <4> QED BY <3>2, <4>1, <4>2
    <3> QED BY <3>1, <3>2
  <2> QED BY <2>2, <2>4, <2>7, <2>8
<1> HIDE DEF first, rest
<1> QED BY <1>1, <1>5

LEMMA ReferenceKeepsInv ==
  ASSUME Inv, SimpegWrite_encode_bitmap, ReferenceFrame
  PROVE  Inv'
<1> USE DEF SimpegWrite_encode_bitmap, ReferenceFrame, Idle
<1>1. FieldsOK /\ input % M = 0 /\ Full = Held + 1 /\ input < MaxFrames
  BY ReferenceTodo DEF Inv
<1>5. /\ todo' \in Seq(Frames) /\ Len(todo') = Held + 1
      /\ \A j \in 1 .. Held + 1 :
           todo'[j] = IF j = 1 THEN input ELSE input - (Held + 1) + j - 1
  BY ReferenceTodo
<1>6. Held' = Held /\ Full' = Full
  BY DEF Held, Full, shape
<1>7. FieldsOK'
  BY <1>1, <1>5 DEF FieldsOK, Budgets, Picture, Frames, shape
<1>8. CallsOK'
  BY <1>1 DEF Inv, CallsOK, shape
<1>9. SlotsOK'
  BY <1>6 DEF Inv, SlotsOK, Slots, shape
<1>10. TodoOK'
  BY <1>1, <1>5, <1>6 DEF TodoOK
<1>11. FrameOK'
  <2>1. Position' = Position
    <3>1. PICK h \in Nat : h = Held /\ Len(todo') = h + 1
      BY <1>5, Numbers
    <3>2. Position' = input + 1 - (h + 1)
      BY <3>1 DEF Position
    <3>3. Position = input - h
      BY <3>1 DEF Position
    <3> QED BY <3>1, <3>2, <3>3, Numbers
  <2> QED BY <2>1 DEF Inv, FrameOK, shape
<1> QED BY <1>7, <1>8, <1>9, <1>10, <1>11 DEF Inv

(* SimpegWrite_encode_bitmap of a frame that is held back                  *)
LEMMA HeldGrows ==
  ASSUME Inv, SimpegWrite_encode_bitmap, HeldFrame
  PROVE  Held' = Held + 1
<1> USE DEF SimpegWrite_encode_bitmap, HeldFrame, Idle
<1>1. input > 0 /\ input % M = Held + 1
  <2>1. /\ Held \in Nat /\ input \in Nat
        /\ input % M = IF input = 0 \/ Held = M - 1 THEN 0 ELSE Held + 1
    BY Numbers
  <2>2. input % M # 0
    OBVIOUS
  <2> QED BY ONLY <2>1, <2>2
<1>2. Held' = Held + 1
  <2>0. input' = input + 1 /\ M' = M /\ input \in Nat
    BY Numbers DEF shape
  <2>1. input' - 1 = input /\ input' # 0 /\ M' = M
    BY <2>0
  <2>2. Held' = input % M
    BY <2>1 DEF Held
  <2> QED BY <1>1, <2>2
<1> QED BY <1>2

LEMMA HeldFrameKeepsInv ==
  ASSUME Inv, SimpegWrite_encode_bitmap, HeldFrame
  PROVE  Inv'
<1> USE DEF SimpegWrite_encode_bitmap, HeldFrame, Idle
<1>1. input > 0 /\ input % M = Held + 1 /\ Held + 1 <= M - 1 /\ input < MaxFrames
  <2>1. /\ Held \in Nat /\ Held <= M - 1
        /\ input % M = IF input = 0 \/ Held = M - 1 THEN 0 ELSE Held + 1
    BY HeldIs DEF Inv
  <2>2. input \in Nat /\ M \in Nat
    BY Numbers
  <2>3. input % M # 0 /\ input < MaxFrames
    OBVIOUS
  <2> QED BY ONLY <2>1, <2>2, <2>3
<1>2. Held' = Held + 1
  BY HeldGrows
<1>3. FieldsOK'
  BY <1>1, Numbers DEF Inv, FieldsOK, Budgets, Picture, Frames, shape
<1>4. CallsOK'
  BY <1>1, Numbers DEF Inv, CallsOK, shape
<1>5. SlotsOK'
  <2>1. Slots' = Slots
    BY DEF Slots, shape
  <2>2. \A k \in Slots :
          bufbuf'[k] = IF k \in 1 .. Held + 1 THEN (input + 1) - 1 - (Held + 1) + k ELSE None
    <3> SUFFICES ASSUME NEW k \in Slots
        PROVE bufbuf'[k] = IF k \in 1 .. Held + 1 THEN (input + 1) - 1 - (Held + 1) + k ELSE None
      OBVIOUS
    <3>1. bufbuf'[k] = IF k = Held + 1 THEN input ELSE bufbuf[k]
      BY <1>1 DEF Inv, SlotsOK
    <3>2. bufbuf[k] = IF k \in 1 .. Held THEN input - 1 - Held + k ELSE None
      BY DEF Inv, SlotsOK
    <3>3. k \in Int
      BY Numbers DEF Slots
    <3>4. PICK h \in Nat : h = Held
      BY Numbers
    <3>5. input \in Nat
      BY Numbers
    <3> QED BY <3>1, <3>2, <3>3, <3>4, <3>5
  <2>3. bufbuf' = [k \in Slots |-> bufbuf'[k]]
    BY DEF Inv, SlotsOK
  <2> QED BY <1>2, <2>1, <2>2, <2>3 DEF SlotsOK
<1>6. TodoOK'
  BY DEF TodoOK
<1>7. FrameOK'
  <2>1. Position' = Position
    BY <1>2, Numbers DEF Position
  <2> QED BY <2>1 DEF Inv, FrameOK, shape
<1> QED BY <1>3, <1>4, <1>5, <1>6, <1>7 DEF Inv

(* A put of a reference frame returns.                                     *)
LEMMA PutReturnsKeepsInv ==
  ASSUME Inv, PutReturns
  PROVE  Inv'
<1> USE DEF PutReturns
<1>1. status = "open" /\ input % M = 0 /\ input < MaxFrames /\ Len(todo) = 0
  BY DEF Inv, CallsOK
<1>2. Held' = 0
  BY <1>1, Numbers DEF Held, shape
<1>3. FieldsOK'
  BY <1>1, Numbers DEF Inv, FieldsOK, Budgets, Picture, Frames, shape
<1>4. CallsOK'
  BY <1>1 DEF Inv, CallsOK, shape
<1>5. SlotsOK'
  BY <1>2 DEF Empty, SlotsOK, Slots, shape
<1>6. TodoOK'
  BY DEF TodoOK
<1>7. FrameOK'
  <2>1. Position' = Position
    BY <1>1, <1>2, Numbers DEF Position
  <2> QED BY <1>1, <2>1 DEF Inv, FrameOK, shape
<1> QED BY <1>3, <1>4, <1>5, <1>6, <1>7 DEF Inv

(* SimpegWrite_end_encode begins                                           *)
LEMMA EndTodo ==
  ASSUME Inv, SimpegWrite_end_encode
  PROVE  todo' \in Seq(Frames) /\ Len(todo') = Held
         /\ \A j \in 1 .. Held : todo'[j] = input - Held + j - 1
<1> USE DEF SimpegWrite_end_encode, Idle
<1>1. todo' = [j \in 1 .. Held |-> input - 1 - Held + j]
  BY HeldBackIs DEF Inv
<1>2. todo' \in Seq(Frames) /\ Len(todo') = Held
      /\ \A j \in 1 .. Held : todo'[j] = input - Held + j - 1
  <2>1. PICK h \in Nat : h = Held /\ h <= input
    BY Numbers
  <2>2. input \in Frames /\ input \in Nat
    BY Numbers DEF Inv, FieldsOK
  <2>3. \A j \in 1 .. h : todo'[j] = input - h + j - 1
    BY <1>1, <2>1, <2>2
  <2> QED BY <1>1, <2>1, <2>2, <2>3, LastOnes
<1> QED BY <1>2

LEMMA EndKeepsInv ==
  ASSUME Inv, SimpegWrite_end_encode
  PROVE  Inv'
<1> USE DEF SimpegWrite_end_encode, Idle
<1>2. todo' \in Seq(Frames) /\ Len(todo') = Held
      /\ \A j \in 1 .. Held : todo'[j] = input - Held + j - 1
  BY EndTodo
<1>3. Held' = Held
  BY DEF Held, shape
<1>4. FieldsOK'
  BY <1>2 DEF Inv, FieldsOK, Budgets, Picture, Frames, shape
<1>5. CallsOK'
  BY DEF Inv, CallsOK, shape
<1>6. SlotsOK'
  BY <1>3 DEF Inv, SlotsOK, Slots, shape
<1>7. TodoOK'
  BY <1>2, <1>3, Numbers DEF TodoOK
<1>8. FrameOK'
  <2>1. Position' = Position
    BY <1>2, Numbers DEF Position
  <2> QED BY <2>1 DEF Inv, FrameOK, shape
<1> QED BY <1>4, <1>5, <1>6, <1>7, <1>8 DEF Inv

(* SimpegWrite_end_encode returns                                          *)
LEMMA EndReturnsKeepsInv ==
  ASSUME Inv, EndReturns
  PROVE  Inv'
<1> USE DEF EndReturns
<1>1. status = "open" /\ Len(todo) = 0
  BY DEF Inv, CallsOK
<1>2. FieldsOK'
  BY <1>1 DEF Inv, FieldsOK, Budgets, Picture, Frames, shape
<1>3. CallsOK'
  BY <1>1 DEF Inv, CallsOK, shape
<1>4. SlotsOK'
  BY DEF Empty, SlotsOK, Slots, shape
<1>5. TodoOK'
  BY DEF TodoOK
<1>6. FrameOK'
  <2>1. Position = input
    BY <1>1, Numbers DEF Position
  <2>2. frame - input \in 0 .. failures * M /\ (failures = 0 => failures * M = 0)
    BY <1>1, <2>1, Numbers DEF Inv, FrameOK
  <2>3. failures = 0 => frame = input
    <3>1. failures = 0 => frame - input \in 0 .. 0
      BY <2>2
    <3> QED BY <3>1, Numbers
  <2> QED BY <1>1, <2>2, <2>3, Numbers DEF FrameOK, shape
<1> QED BY <1>2, <1>3, <1>4, <1>5, <1>6 DEF Inv

-----------------------------------------------------------------------------
(* Coding a picture.                                                       *)

LEMMA PlaceTyped ==
  ASSUME FieldsOK
  PROVE  /\ GroupStart \in Int /\ DisplayNumber \in Int /\ PictType \in {"I", "P", "B"}
         /\ frame = 0 => IsReference /\ GroupStart = 0 /\ PictType = "I"
<1>1. N \in Nat \ {0} /\ M \in Nat \ {0} /\ frame \in Nat /\ nframes \in Nat /\ N % M = 0
  BY DEF FieldsOK
<1>2. PICK a \in Int : a = frame + (M - 1)
  BY <1>1
<1>3. a \div N \in Int /\ a % N \in 0 .. N - 1 /\ a = N * (a \div N) + (a % N)
  BY <1>1, <1>2, Division
<1>4. GroupStart \in Int
  BY <1>1, <1>2, <1>3 DEF GroupStart
<1>5. DisplayNumber \in Int
  BY <1>1 DEF DisplayNumber, Lesser
<1>6. ASSUME frame = 0 PROVE GroupStart = 0
  <2>1. M <= N
    BY <1>1, MultipleAtLeast
  <2>2. a \in 0 .. N - 1 /\ a = M - 1
    BY <1>1, <1>2, <1>6, <2>1
  <2>3. (N * 0 + a) % N = a
    BY <1>1, <2>2, Remainder
  <2>4. a % N = a
    BY <1>1, <2>2, <2>3
  <2>5. N * (a \div N) = 0
    BY <1>1, <1>2, <1>3, <2>4
  <2>6. frame + (M - 1) = a
    BY <1>2
  <2> QED BY <1>1, <2>2, <2>5, <2>6 DEF GroupStart
<1> QED BY <1>4, <1>5, <1>6 DEF PictType, IsReference

LEMMA QuotientTyped ==
  ASSUME NEW a \in Int, NEW b \in Nat \ {0}
  PROVE  CDiv(a, b) \in Int
<1>1. a \div b \in Int /\ (-a) \div b \in Int
  BY Division
<1> QED BY <1>1 DEF CDiv

LEMMA BudgetsTyped ==
  ASSUME FieldsOK
  PROVE  /\ Planned \in Budgets
         /\ \A n \in 0 .. 2 : rc_update_pict(n) \in Budgets
         /\ Pictures \in 1 .. 2
<1>1. N \in Nat \ {0} /\ M \in Nat \ {0} /\ frame \in Nat /\ nframes \in Nat
      /\ left \in Budgets /\ GroupStart \in Int
  BY PlaceTyped DEF FieldsOK
<1>2. GroupBudget \in Budgets
  <2> DEFINE n == Lesser(IF frame = 0 THEN N - (M-1) ELSE N, nframes - GroupStart)
             np == IF frame = 0 THEN CDiv(n + 2*(M-1), M) - 1 ELSE CDiv(n + (M-1), M) - 1
  <2>1. n \in Int
    BY <1>1 DEF Lesser
  <2>2. GroupBudget = [np |-> np, nb |-> n - np - 1]
    BY DEF GroupBudget
  <2> HIDE DEF n
  <2>3. n + 2*(M-1) \in Int /\ n + (M-1) \in Int
    BY <1>1, <2>1
  <2>4. CDiv(n + 2*(M-1), M) \in Int /\ CDiv(n + (M-1), M) \in Int
    BY <1>1, <2>3, QuotientTyped
  <2>5. np \in Int
    BY <2>4
  <2> HIDE DEF np
  <2> QED BY <2>1, <2>2, <2>5 DEF Budgets
<1>3. Planned \in Budgets
  <2>1. \A g \in Budgets : rc_init_GOP(g) \in Budgets
    BY DEF rc_init_GOP, Budgets
  <2> QED BY <1>1, <1>2, <2>1 DEF Planned
<1>4. ASSUME NEW n \in 0 .. 2 PROVE rc_update_pict(n) \in Budgets
  BY <1>3 DEF rc_update_pict, Budgets
<1> QED BY <1>3, <1>4 DEF Pictures

(* The next frame to code and what is left to do after it.                 *)
LEMMA HeadIs ==
  ASSUME Inv, todo # <<>>
  PROVE  /\ Len(todo) \in Nat \ {0} /\ Head(todo) \in Frames /\ status = "open"
         /\ call \in {"put", "end"}
         /\ Tail(todo) \in Seq(Frames) /\ Len(Tail(todo)) = Len(todo) - 1
         /\ \A j \in 1 .. Len(todo) - 1 : Tail(todo)[j] = todo[j + 1]
         /\ call = "put" => /\ Len(todo) <= Full
                            /\ Head(todo) = IF Len(todo) = Full THEN input ELSE input - Len(todo)
         /\ call = "end" => /\ Len(todo) <= Held
                            /\ Head(todo) = input - Len(todo)
<1>0. input \in Nat
  BY Numbers
<1>1. todo \in Seq(Frames) /\ call \in {"none", "put", "end"}
  BY DEF Inv, FieldsOK
<1>2. Len(todo) \in Nat \ {0} /\ Head(todo) = todo[1] /\ Head(todo) \in Frames
  BY <1>1
<1>3. Tail(todo) \in Seq(Frames) /\ Len(Tail(todo)) = Len(todo) - 1
      /\ \A j \in 1 .. Len(todo) - 1 : Tail(todo)[j] = todo[j + 1]
  BY <1>1, <1>2
<1>4. call \in {"put", "end"} /\ status = "open"
  BY <1>1 DEF Inv, CallsOK
<1>5. call = "put" => /\ Len(todo) <= Full
                      /\ Head(todo) = IF Len(todo) = Full THEN input ELSE input - Len(todo)
  <2>1. call = "put" => /\ Len(todo) <= Full
                        /\ todo[1] = IF 1 = 1 /\ Len(todo) = Full THEN input
                                     ELSE input - Len(todo) + 1 - 1
    BY <1>2 DEF Inv, TodoOK
  <2> QED BY <1>0, <1>2, <2>1
<1>6. call = "end" => Len(todo) <= Held /\ Head(todo) = input - Len(todo)
  <2>1. call = "end" => Len(todo) <= Held /\ todo[1] = input - Len(todo) + 1 - 1
    BY <1>2 DEF Inv, TodoOK
  <2> QED BY <1>0, <1>2, <2>1
<1> QED BY <1>2, <1>3, <1>4, <1>5, <1>6

(* The picture the next step writes.                                       *)
NextPicture ==
  [content |-> Head(todo), type |-> PictType, number |-> DisplayNumber,
   start |-> GroupStart, temp_ref |-> DisplayNumber - GroupStart,
   old |-> oldref', new |-> newref', by |-> call, planned |-> Planned]

(* SimpegWrite_putseq_encode_bitmap                                        *)
LEMMA EncodeKeepsInv ==
  ASSUME Inv, SimpegWrite_putseq_encode_bitmap
  PROVE  Inv'
<1> USE DEF SimpegWrite_putseq_encode_bitmap
<1>1. /\ Len(todo) \in Nat \ {0} /\ Head(todo) \in Frames /\ status = "open"
      /\ call \in {"put", "end"}
      /\ todo' \in Seq(Frames) /\ Len(todo') = Len(todo) - 1
      /\ \A j \in 1 .. Len(todo) - 1 : todo'[j] = todo[j + 1]
      /\ call = "put" => Len(todo) <= Full
      /\ call = "end" => Len(todo) <= Held
  BY HeadIs
<1>2. FieldsOK /\ GroupStart \in Int /\ DisplayNumber \in Int /\ PictType \in {"I", "P", "B"}
      /\ Planned \in Budgets /\ rc_update_pict(Pictures) \in Budgets
  <2>1. FieldsOK
    BY DEF Inv
  <2>2. \A n \in 1 .. 2 : rc_update_pict(n) \in Budgets
    BY <2>1, BudgetsTyped
  <2> QED BY <2>1, <2>2, PlaceTyped, BudgetsTyped
<1>3. Held' = Held /\ Full' = Full
  BY DEF Held, Full, shape
<1>n. input \in Nat /\ Held \in Nat /\ (call = "put" => Full \in Nat)
  BY Numbers
<1>4. oldref' \in Frames \cup {None} /\ newref' \in Frames \cup {None}
  BY <1>1, <1>2 DEF Shuffle, FieldsOK
<1>5. stream' \in Seq(Picture) /\ Len(stream') = frame'
  <2>1. NextPicture \in Picture
    <3>1. DisplayNumber - GroupStart \in Int
      BY <1>2
    <3> QED BY <1>1, <1>2, <1>4, <3>1 DEF NextPicture, Picture
  <2>2. stream' = Append(stream, NextPicture)
    BY DEF NextPicture
  <2>3. stream \in Seq(Picture) /\ Len(stream) = frame /\ frame' = frame + 1
    BY <1>2 DEF FieldsOK
  <2> HIDE DEF SimpegWrite_putseq_encode_bitmap
  <2> QED BY <2>1, <2>2, <2>3
<1>6. FieldsOK'
  <2>1. left' \in Budgets /\ frame' \in Nat /\ todo' \in Seq(Frames)
    BY <1>1, <1>2 DEF FieldsOK
  <2>2. status' = status /\ N' = N /\ M' = M /\ nframes' = nframes /\ fieldpic' = fieldpic
        /\ input' = input /\ call' = call /\ failures' = failures
    BY DEF shape
  <2> HIDE DEF SimpegWrite_putseq_encode_bitmap
  <2>3. Budgets' = Budgets /\ Picture' = Picture /\ Frames' = Frames
    BY DEF Budgets, Picture, Frames
  <2> QED BY <1>2, <1>4, <1>5, <2>1, <2>2, <2>3 DEF FieldsOK
<1>7. CallsOK'
  BY <1>1 DEF Inv, CallsOK, shape
<1>8. SlotsOK'
  BY <1>3 DEF Inv, SlotsOK, Slots, shape
<1>9. TodoOK'
  <2>0. PICK n \in Nat : n = input
    BY <1>n
  <2>1. PICK l \in Nat : l + 1 = Len(todo) /\ n = input /\ Len(todo') = l
    <3>1. Len(todo) - 1 \in Nat /\ (Len(todo) - 1) + 1 = Len(todo)
      BY <1>1
    <3> QED BY <1>1, <2>0, <3>1
  <2>2. ASSUME call = "put"
        PROVE  Len(todo') <= Full' /\ \A j \in 1 .. Len(todo') :
                 todo'[j] = IF j = 1 /\ Len(todo') = Full' THEN input' ELSE input' - Len(todo') + j - 1
    <3>1. l + 1 <= Full /\ Full \in Nat
      BY <1>1, <1>n, <2>1, <2>2
    <3>2. \A j \in 1 .. l : todo'[j] = n - l + j - 1
      <4> SUFFICES ASSUME NEW j \in 1 .. l PROVE todo'[j] = n - l + j - 1
        OBVIOUS
      <4>1. todo'[j] = todo[j + 1] /\ j + 1 \in 1 .. l + 1 /\ j + 1 # 1
        BY <1>1, <2>1
      <4>2. todo[j + 1] = n - (l + 1) + (j + 1) - 1
        <5>1. \A k \in 1 .. Len(todo) : k # 1 => todo[k] = input - Len(todo) + k - 1
          BY <2>2 DEF Inv, TodoOK
        <5> HIDE DEF SimpegWrite_putseq_encode_bitmap
        <5> QED BY <2>1, <4>1, <5>1
      <4> HIDE DEF SimpegWrite_putseq_encode_bitmap
      <4> QED BY <4>1, <4>2
    <3>3. input' = n /\ Len(todo') = l /\ l # Full
      BY <2>1, <3>1
    <3> HIDE DEF SimpegWrite_putseq_encode_bitmap
    <3> QED BY <1>3, <2>1, <3>1, <3>2, <3>3
  <2>3. ASSUME call = "end"
        PROVE  Len(todo') <= Held' /\ \A j \in 1 .. Len(todo') : todo'[j] = input' - Len(todo') + j - 1
    <3>1. l + 1 <= Held /\ Held \in Nat
      BY <1>1, <1>n, <2>1, <2>3
    <3>2. \A j \in 1 .. l : todo'[j] = n - l + j - 1
      <4> SUFFICES ASSUME NEW j \in 1 .. l PROVE todo'[j] = n - l + j - 1
        OBVIOUS
      <4>1. todo'[j] = todo[j + 1] /\ j + 1 \in 1 .. l + 1
        BY <1>1, <2>1
      <4>2. todo[j + 1] = n - (l + 1) + (j + 1) - 1
        <5>1. \A k \in 1 .. Len(todo) : todo[k] = input - Len(todo) + k - 1
          BY <2>3 DEF Inv, TodoOK
        <5> HIDE DEF SimpegWrite_putseq_encode_bitmap
        <5> QED BY <2>1, <4>1, <5>1
      <4> HIDE DEF SimpegWrite_putseq_encode_bitmap
      <4> QED BY <4>1, <4>2
    <3>3. input' = n /\ Len(todo') = l
      BY <2>1
    <3> HIDE DEF SimpegWrite_putseq_encode_bitmap
    <3> QED BY <1>3, <2>1, <3>1, <3>2, <3>3
  <2> QED BY <2>2, <2>3 DEF TodoOK
<1>10. FrameOK'
  <2>0. PICK n \in Nat : n = input
    BY <1>n
  <2>1. PICK l \in Nat : l + 1 = Len(todo) /\ n = input /\ Len(todo') = l
    <3>1. Len(todo) - 1 \in Nat /\ (Len(todo) - 1) + 1 = Len(todo)
      BY <1>1
    <3> QED BY <1>1, <2>0, <3>1
  <2>2. Position \in Int /\ Position' = Position + 1
    BY <1>1, <2>1 DEF Position
  <2>3. frame' - Position' = frame - Position
    BY <1>2, <2>2 DEF FieldsOK
  <2> QED BY <1>1, <2>3 DEF Inv, FrameOK, shape
<1> QED BY <1>6, <1>7, <1>8, <1>9, <1>10 DEF Inv

(* SimpegWrite_error                                                       *)
LEMMA ErrorKeepsInv ==
  ASSUME Inv, SimpegWrite_error
  PROVE  Inv'
<1> USE DEF SimpegWrite_error
<1>1. /\ Len(todo) \in Nat \ {0} /\ status = "open" /\ call \in {"put", "end"}
      /\ call = "put" => Len(todo) <= Full
      /\ call = "end" => Len(todo) <= Held
  BY HeadIs
<1>2. left' \in Budgets
  <2>1. PICK n \in 0 .. Pictures - 1 : left' = rc_update_pict(n)
    OBVIOUS
  <2>2. FieldsOK /\ Pictures \in 1 .. 2
    BY BudgetsTyped DEF Inv
  <2>3. n \in 0 .. 2
    BY <2>2
  <2> QED BY <2>1, <2>2, <2>3, BudgetsTyped
<1>3. oldref' \in Frames \cup {None} /\ newref' \in Frames \cup {None}
  BY DEF Inv, Shuffle, FieldsOK
<1>4. Held' = Held /\ (failures * M)' = failures * M + M /\ M' = M
  <2>1. failures' = failures + 1 /\ M' = M /\ input' = input
    BY DEF shape
  <2> QED BY <2>1, Numbers DEF Held
<1>5. FieldsOK'
  <2>1. failures' \in 0 .. MaxFailures
    BY Numbers DEF Inv, FieldsOK
  <2> QED BY <1>1, <1>2, <1>3, <2>1 DEF Inv, FieldsOK, shape, Budgets, Picture, Frames
<1>6. CallsOK'
  BY <1>1 DEF Inv, CallsOK, shape
<1>7. SlotsOK'
  <2>1. CASE call = "put"
    BY <1>1, <1>4, <2>1 DEF Inv, SlotsOK, Slots, shape
  <2>2. CASE call = "end"
    BY <2>2 DEF Empty, SlotsOK, Slots, shape
  <2> QED BY <1>1, <2>1, <2>2
<1>8. TodoOK'
  BY DEF TodoOK
<1>9. FrameOK'
  <2>1. PICK l \in Nat \ {0}, n \in Nat, h \in Nat : l = Len(todo) /\ n = input /\ h = Held
    BY <1>1, Numbers
  <2>2. PICK e \in Nat : e = frame - Position /\ e <= failures * M
    BY <1>1, Numbers DEF Inv, FrameOK
  <2>5. frame \in Nat /\ frame' = frame /\ input' = input /\ failures' = failures + 1
        /\ failures \in Nat /\ M \in Nat /\ failures * M \in Nat
    BY Numbers
  <2>7. call' = "none" /\ status' = IF call = "end" THEN "closed" ELSE status
    OBVIOUS
  <2> HIDE DEF SimpegWrite_error
  <2>6. PICK t \in Nat, m \in Nat : t = failures * M /\ m = M
    BY <2>5
  <2>3. CASE call = "put"
    <3>1. l <= h + 1 /\ h <= M - 1
      BY <1>1, <2>1, <2>3, Numbers
    <3>2. Position = n + 1 - l /\ Position' = n - h
      BY <1>4, <2>1, <2>3, <2>5, <2>7 DEF Position
    <3>3. frame' - Position' = e + (h + 1 - l)
      BY <2>2, <2>5, <3>2, <2>1
    <3>4. frame' - Position' \in 0 .. (failures * M)'
      BY <1>4, <2>2, <2>1, <2>6, <3>1, <3>3
    <3> QED BY <1>1, <2>3, <2>7, <3>4 DEF FrameOK
  <2>4. CASE call = "end"
    <3>1. Position = n - l
      BY <2>1, <2>4 DEF Position
    <3>2. frame' - input' = e - l
      BY <2>1, <2>2, <2>5, <3>1
    <3>3. frame' - input' <= (failures * M)' /\ failures' # 0
      BY <1>4, <2>1, <2>2, <2>5, <2>6, <3>2
    <3> QED BY <2>4, <2>7, <3>3 DEF FrameOK
  <2> QED BY <1>1, <2>3, <2>4
<1> QED BY <1>5, <1>6, <1>7, <1>8, <1>9 DEF Inv

LEMMA InvStep == Inv /\ [Next]_vars => Inv'
<1> SUFFICES ASSUME Inv, [Next]_vars PROVE Inv'
  OBVIOUS
<1>1. CASE UNCHANGED vars
  BY <1>1 DEF vars, shape, Inv, FieldsOK, CallsOK, SlotsOK, TodoOK, FrameOK, Held, Full, Position,
     Slots, Frames, Budgets, Picture
<1>2. CASE Next
  BY <1>2, BeginKeepsInv, ReferenceKeepsInv, HeldFrameKeepsInv, PutReturnsKeepsInv,
     EncodeKeepsInv, ErrorKeepsInv, EndKeepsInv, EndReturnsKeepsInv
     DEF Next, SimpegWrite_encode_bitmap
<1> QED BY <1>1, <1>2

THEOREM Invariant == Spec => []Inv
<1> QED BY InvInit, InvStep, PTL DEF Spec

-----------------------------------------------------------------------------
(* What is held back between two calls.                                    *)

LEMMA InvHeld == Inv => HeldSinceReference
<1> SUFFICES ASSUME Inv PROVE HeldSinceReference
  OBVIOUS
<1>1. frame \in 0 .. (MaxFrames + MaxFailures * M)
  <2>1. failures * M <= MaxFailures * M /\ MaxFailures * M \in Nat /\ failures * M \in Nat
    <3>1. failures <= MaxFailures
      BY Numbers DEF Inv, FieldsOK
    <3>2. failures \in Nat /\ MaxFailures \in Nat /\ M \in Nat
      BY Numbers
    <3> QED BY ONLY <3>1, <3>2, MoreIsMore
  <2>2. PICK t \in Nat, b \in Nat : t = failures * M /\ b = MaxFailures * M /\ t <= b
    BY <2>1
  <2>3. input \in Nat /\ MaxFrames \in Nat /\ input <= MaxFrames /\ frame \in Nat /\ Held \in Nat
        /\ Len(todo) \in Nat
    BY Numbers
  <2>4. CASE status = "open"
    <3>1. frame - Position \in 0 .. t
      BY <2>2, <2>4 DEF Inv, FrameOK
    <3>2. call = "put" => input + 1 <= MaxFrames
      BY <2>3 DEF Inv, CallsOK
    <3>3. Position \in Int /\ Position <= MaxFrames
      BY <2>3, <3>2 DEF Position
    <3> QED BY <2>2, <2>3, <3>1, <3>3
  <2>5. CASE status = "closed"
    BY <2>2, <2>3, <2>5 DEF Inv, FrameOK
  <2>6. CASE status \in {"none", "refused"}
    BY <2>2, <2>3, <2>6 DEF Inv, CallsOK
  <2> QED BY <2>4, <2>5, <2>6 DEF Inv, FieldsOK
<1>2. bufbuf \in [Slots -> Frames \cup {None}]
  <2>1. ASSUME NEW k \in Slots, k \in 1 .. Held PROVE input - 1 - Held + k \in Frames
    <3>1. PICK n \in Nat, h \in Nat : n = input /\ h = Held /\ n <= MaxFrames /\ h <= n
      BY Numbers
    <3>2. k \in 1 .. h /\ MaxFrames \in Nat
      BY <2>1, <3>1, Numbers
    <3>3. n - 1 - h + k \in 0 .. MaxFrames
      BY <3>1, <3>2
    <3> QED BY <3>1, <3>3 DEF Frames
  <2> QED BY <2>1 DEF Inv, SlotsOK
<1>3. ASSUME NEW p \in Written PROVE p.type \in {"I", "P", "B"} /\ p.content \in Frames
  <2>1. stream \in Seq(Picture)
    BY DEF Inv, FieldsOK
  <2>2. PICK k \in DOMAIN stream : p = stream[k]
    BY DEF Written, ToSet
  <2>3. p \in Picture
    BY <2>1, <2>2
  <2> QED BY <2>3 DEF Picture
<1>4. TypeOK
  <2>1. N >= 1 /\ M >= 1
    BY DEF Inv, FieldsOK
  <2>2. left \in [np : Int, nb : Int] /\ {oldref, newref} \subseteq Frames \cup {None}
    BY DEF Inv, FieldsOK, Budgets
  <2> QED BY <1>1, <1>2, <1>3, <2>1, <2>2 DEF Inv, FieldsOK, TypeOK
<1>5. ASSUME Idle, NEW k \in Slots
      PROVE  bufbuf[k] = IF k \in 1 .. Held THEN input - 1 - Held + k ELSE None
  BY <1>5 DEF Inv, SlotsOK, Idle
<1> QED BY <1>4, <1>5 DEF HeldSinceReference, Held

(* Between two calls the slots hold exactly the frames put since the last  *)
(* reference frame, whatever number of puts failed.                        *)
THEOREM HeldAlwaysSinceReference == Spec => []HeldSinceReference
<1> QED BY Invariant, InvHeld, PTL

-----------------------------------------------------------------------------
(* What is in the stream.                                                  *)

LEMMA WrittenGrows ==
  ASSUME Inv, SimpegWrite_putseq_encode_bitmap
  PROVE  Written' = Written \cup {NextPicture}
<1>1. stream \in Seq(Picture) /\ stream' = Append(stream, NextPicture)
  BY DEF Inv, FieldsOK, SimpegWrite_putseq_encode_bitmap, NextPicture
<1> DEFINE n == Len(stream)
<1>2. n \in Nat /\ DOMAIN stream = 1 .. n
  BY <1>1
<1>3. DOMAIN stream' = 1 .. n + 1 /\ stream'[n + 1] = NextPicture
      /\ \A k \in 1 .. n : stream'[k] = stream[k]
  BY <1>1
<1> HIDE DEF n
<1>4. Written = {stream[k] : k \in 1 .. n}
  BY <1>2 DEF Written, ToSet
<1>5. Written' = {stream'[k] : k \in 1 .. n + 1}
  BY <1>3 DEF Written, ToSet
<1>6. 1 .. n + 1 = (1 .. n) \cup {n + 1}
  BY <1>2
<1> QED BY <1>3, <1>4, <1>5, <1>6

LEMMA ContentsGrow ==
  ASSUME Inv, SimpegWrite_putseq_encode_bitmap
  PROVE  Contents' = Contents \cup {Head(todo)}
<1>1. NextPicture.content = Head(todo)
  BY DEF NextPicture
<1> QED BY <1>1, WrittenGrows DEF Contents

LEMMA BeforeGrows ==
  ASSUME NEW c \in Frames
  PROVE  Before(c + 1) = Before(c) \cup {c}
BY BoundsAssumption DEF Before, Frames

LEMMA ContentsInit == Init => ContentsOK
<1> SUFFICES ASSUME Init PROVE ContentsOK
  OBVIOUS
<1>1. Written = {}
  BY DEF Init, Written, ToSet
<1> QED BY <1>1 DEF Init, ContentsOK, Contents

LEMMA EncodeKeepsContents ==
  ASSUME Inv, ContentsOK, SimpegWrite_putseq_encode_bitmap
  PROVE  ContentsOK'
<1> SUFFICES ASSUME failures = 0
    PROVE  /\ call = "put" =>
              Contents' = IF Len(todo') = Full THEN Before(input + 1 - Full)
                          ELSE Before(input - Len(todo')) \cup {input}
           /\ call = "end" => Contents' = Before(input - Len(todo'))
  <2>1. status' = "open" /\ call' = call /\ call \in {"put", "end"} /\ failures' = failures
        /\ input' = input
    BY HeadIs DEF SimpegWrite_putseq_encode_bitmap
  <2>2. Full' = Full
    BY DEF SimpegWrite_putseq_encode_bitmap, Full, shape
  <2>3. \A n : Before(n)' = Before(n)
    BY DEF Before, Frames
  <2> QED BY <2>1, <2>2, <2>3 DEF ContentsOK, Before, Frames
<1>1. /\ Len(todo) \in Nat \ {0} /\ Head(todo) \in Frames /\ status = "open"
      /\ call = "put" => /\ Len(todo) <= Full
                         /\ Head(todo) = IF Len(todo) = Full THEN input ELSE input - Len(todo)
      /\ call = "end" => Head(todo) = input - Len(todo)
      /\ Len(todo') = Len(todo) - 1
  BY HeadIs DEF SimpegWrite_putseq_encode_bitmap
<1>2. input \in Nat /\ (call = "put" => Full \in Nat)
  BY Numbers
<1>3. PICK l \in Nat, n \in Nat : Len(todo) = l + 1 /\ Len(todo') = l /\ n = input
  <2>1. Len(todo) - 1 \in Nat /\ (Len(todo) - 1) + 1 = Len(todo)
    BY <1>1
  <2> QED BY <1>1, <1>2, <2>1
<1>4. Contents' = Contents \cup {Head(todo)}
  BY ContentsGrow
<1>5. ASSUME call = "put", Len(todo) = Full
      PROVE  Len(todo') # Full /\ Contents' = Before(input - Len(todo')) \cup {input}
  <2>1. Contents = Before(input + 1 - Full)
    BY <1>1, <1>5 DEF ContentsOK
  <2>2. input + 1 - Full = input - Len(todo') /\ Len(todo') # Full
    BY <1>3, <1>5
  <2> QED BY <1>1, <1>4, <1>5, <2>1, <2>2
<1>6. ASSUME call = "put", Len(todo) # Full
      PROVE  Len(todo') # Full /\ Contents' = Before(input - Len(todo')) \cup {input}
  <2>1. Contents = Before(input - Len(todo)) \cup {input}
    BY <1>1, <1>6 DEF ContentsOK
  <2>2. Len(todo') # Full
    BY <1>1, <1>2, <1>3, <1>6
  <2>3. PICK c \in Frames : c = input - Len(todo) /\ c + 1 = input - Len(todo')
    <3>1. Head(todo) = n - (l + 1) /\ Head(todo) + 1 = n - l
      BY <1>1, <1>3, <1>6
    <3> QED BY <1>1, <1>3, <3>1
  <2>4. Head(todo) = c
    BY <1>1, <1>6, <2>3
  <2> QED BY <1>4, <2>1, <2>2, <2>3, <2>4, BeforeGrows
<1>7. ASSUME call = "end"
      PROVE  Contents' = Before(input - Len(todo'))
  <2>1. Contents = Before(input - Len(todo))
    BY <1>1, <1>7 DEF ContentsOK
  <2>2. PICK c \in Frames : c = input - Len(todo) /\ c + 1 = input - Len(todo')
    <3>1. Head(todo) = n - (l + 1) /\ Head(todo) + 1 = n - l
      BY <1>1, <1>3, <1>7
    <3> QED BY <1>1, <1>3, <3>1
  <2>3. Head(todo) = c
    BY <1>1, <1>7, <2>2
  <2> QED BY <1>4, <2>1, <2>2, <2>3, BeforeGrows
<1> QED BY <1>5, <1>6, <1>7

LEMMA ContentsStep == Inv /\ ContentsOK /\ [Next]_vars => ContentsOK'
<1> SUFFICES ASSUME Inv, ContentsOK, [Next]_vars, ~SimpegWrite_putseq_encode_bitmap
             PROVE  ContentsOK'
  BY EncodeKeepsContents
<1>1. stream' = stream
  BY DEF Next, vars, SimpegWrite_begin_encode, SimpegWrite_encode_bitmap, PutReturns,
     SimpegWrite_error, SimpegWrite_end_encode, EndReturns
<1>2. Contents' = Contents /\ \A n : Before(n)' = Before(n)
  BY <1>1 DEF Contents, Written, ToSet, Before, Frames
<1>3. input \in Nat /\ Held \in Nat
  BY Numbers
<1>4. CASE UNCHANGED vars
  BY <1>2, <1>4 DEF vars, shape, ContentsOK, Full, Held, Before, Frames
<1>5. ASSUME NEW s \in Shapes, NEW announced \in Announced, NEW fields \in BOOLEAN,
             SimpegWrite_begin_encode(s, announced, fields)
      PROVE  ContentsOK'
  <2>1. status = "none" /\ input' = 0 /\ status' \in {"open", "refused"} /\ call' = "none"
        /\ failures' = failures
    BY <1>5 DEF Inv, CallsOK, SimpegWrite_begin_encode
  <2>2. Held' = 0 /\ Before(0) = {}
    BY <2>1 DEF Held, Before, Frames
  <2> QED BY <1>2, <2>1, <2>2 DEF ContentsOK, Before, Frames
<1>6. CASE SimpegWrite_encode_bitmap /\ ReferenceFrame
  <2>1. Full = Held + 1 /\ Len(todo') = Held + 1
    BY <1>6, ReferenceTodo
  <2>2. input + 1 - Full = input - Held
    BY <1>3, <2>1
  <2>3. Full' = Full /\ input' = input /\ failures' = failures /\ status' = "open" /\ status = "open"
        /\ call' = "put" /\ call = "none"
    BY <1>6 DEF SimpegWrite_encode_bitmap, ReferenceFrame, Idle, Full, shape
  <2> QED BY <1>2, <2>1, <2>2, <2>3 DEF ContentsOK, Before, Frames
<1>7. CASE SimpegWrite_encode_bitmap /\ HeldFrame
  <2>1. Held' = Held + 1
    BY <1>7, HeldGrows
  <2>2. input' = input + 1 /\ failures' = failures /\ status' = "open" /\ status = "open"
        /\ call' = "none" /\ call = "none"
    BY <1>7 DEF SimpegWrite_encode_bitmap, HeldFrame, Idle
  <2>3. input' - Held' = input - Held
    BY <1>3, <2>1, <2>2
  <2> QED BY <1>2, <2>2, <2>3 DEF ContentsOK, Before, Frames
<1>8. CASE PutReturns
  <2>1. status = "open" /\ input % M = 0 /\ Len(todo) = 0 /\ Full # 0 /\ input \in Frames
    BY <1>8, Numbers DEF Inv, CallsOK, FieldsOK, PutReturns
  <2>2. input' = input + 1 /\ failures' = failures /\ status' = "open" /\ call' = "none"
        /\ call = "put" /\ M' = M
    BY <1>8, <2>1 DEF PutReturns, shape
  <2>3. input' # 0 /\ input' - 1 = input
    BY <1>3, <2>2
  <2>4. Held' = 0
    BY <2>1, <2>2, <2>3 DEF Held
  <2>5. input - Len(todo) = input /\ input' - Held' = input + 1
    BY <1>3, <2>1, <2>2, <2>4
  <2>6. failures = 0 => Contents = Before(input) \cup {input}
    BY <2>1, <2>2, <2>5 DEF ContentsOK
  <2> QED BY <1>2, <2>1, <2>2, <2>5, <2>6, BeforeGrows DEF ContentsOK, Before, Frames
<1>9. CASE SimpegWrite_end_encode
  <2>1. Len(todo') = Held
    BY <1>9, EndTodo
  <2>2. input' = input /\ failures' = failures /\ status' = "open" /\ status = "open"
        /\ call' = "end" /\ call = "none"
    BY <1>9 DEF SimpegWrite_end_encode, Idle
  <2> QED BY <1>2, <2>1, <2>2 DEF ContentsOK, Before, Frames
<1>10. CASE EndReturns
  <2>1. status = "open" /\ input - Len(todo) = input
    BY <1>3, <1>10 DEF Inv, CallsOK, EndReturns
  <2> QED BY <1>2, <1>10, <2>1 DEF ContentsOK, EndReturns, Before, Frames
<1>11. CASE SimpegWrite_error
  BY <1>11, Numbers DEF ContentsOK, SimpegWrite_error
<1> QED BY <1>4, <1>5, <1>6, <1>7, <1>8, <1>9, <1>10, <1>11 DEF Next, SimpegWrite_encode_bitmap

(* A movie closed without an error has every frame whose put returned 1,   *)
(* once, for every shape of the groups and any number of frames.           *)
THEOREM EveryFrameIsAlwaysOnce == Spec => []EveryFrameOnce
<1>1. Inv /\ ContentsOK => EveryFrameOnce
  <2> SUFFICES ASSUME Inv, ContentsOK, status = "closed", failures = 0
               PROVE  Len(stream) = input /\ {p.content : p \in Written} = 0 .. input - 1
    BY InvHeld DEF EveryFrameOnce
  <2>1. Len(stream) = input
    BY DEF Inv, FieldsOK, FrameOK
  <2>2. input \in Nat /\ MaxFrames \in Nat /\ input <= MaxFrames
    BY Numbers
  <2>3. Before(input) = 0 .. input - 1
    BY <2>2 DEF Before, Frames
  <2> QED BY <2>1, <2>3 DEF ContentsOK, Contents
<1> QED BY <1>1, Invariant, ContentsInit, ContentsStep, PTL DEF Spec

-----------------------------------------------------------------------------
(* What the pictures are predicted from.                                   *)

(* In a put the first picture, and no other, is a reference.               *)
LEMMA ReferenceIff ==
  ASSUME Inv, failures = 0, call = "put", todo # <<>>
  PROVE  /\ frame = input + 1 - Len(todo)
         /\ IsReference <=> Len(todo) = Full
         /\ input # 0 => Full = M /\ M <= input /\ (input - M) % M = 0
         /\ input = 0 => Full = 1
<1>1. /\ Len(todo) \in Nat \ {0} /\ status = "open" /\ Len(todo) <= Full
  BY HeadIs
<1>2. input \in Nat /\ M \in Nat \ {0} /\ input % M = 0 /\ frame \in Nat
  BY Numbers DEF Inv, CallsOK
<1>3. frame = input + 1 - Len(todo)
  <2>1. failures * M = 0
    BY <1>2
  <2>2. frame - Position \in 0 .. 0
    BY <1>1, <2>1 DEF Inv, FrameOK
  <2>3. Position = input + 1 - Len(todo)
    BY DEF Position
  <2> QED BY <1>1, <1>2, <2>2, <2>3
<1>4. ASSUME input = 0 PROVE Full = 1 /\ (IsReference <=> Len(todo) = Full)
  <2>0. Full = 1
    BY <1>4 DEF Full
  <2>1. Len(todo) = 1
    <3>1. PICK l \in Nat \ {0} : l = Len(todo)
      BY <1>1
    <3>2. l <= 1
      BY <1>1, <2>0, <3>1
    <3> QED BY <3>1, <3>2
  <2>2. frame = 0
    BY <1>2, <1>3, <1>4, <2>1
  <2> QED BY <2>0, <2>1, <2>2, <1>4 DEF IsReference
<1>5. ASSUME input # 0
      PROVE  Full = M /\ M <= input /\ (input - M) % M = 0 /\ (IsReference <=> Len(todo) = Full)
  <2>1. Full = M
    BY <1>5 DEF Full
  <2>2. M <= input
    BY <1>2, <1>5, MultipleAtLeast
  <2>3. (input - Len(todo)) % M = M - Len(todo) /\ (input - M) % M = M - M
    <3>1. Len(todo) \in 1 .. M /\ M \in 1 .. M
      BY <1>1, <1>2, <2>1
    <3>2. \A l \in 1 .. M : (input - l) % M = M - l
      <4>1. input \in Int /\ input % M = 0
        BY <1>2
      <4> QED BY <1>2, <4>1, BackFromMultiple
    <3> QED BY <3>1, <3>2
  <2>4. frame - 1 = input - Len(todo)
    BY <1>1, <1>2, <1>3
  <2>5. frame = 0 <=> Len(todo) = input + 1
    BY <1>1, <1>2, <1>3
  <2> QED BY <1>1, <1>2, <2>1, <2>2, <2>3, <2>4, <2>5 DEF IsReference
<1> QED BY <1>2, <1>3, <1>4, <1>5

LEMMA RefsInit == Init => RefsOK
BY DEF Init, RefsOK

LEMMA RefsStep == Inv /\ RefsOK /\ [Next]_vars => RefsOK'
<1> SUFFICES ASSUME Inv, RefsOK, [Next]_vars PROVE RefsOK'
  OBVIOUS
<1>1. input \in Nat /\ Held \in Nat /\ M \in Nat \ {0} /\ failures \in Nat
  BY Numbers
<1>2. CASE UNCHANGED vars
  BY <1>2 DEF vars, shape, RefsOK, Full, Held
<1>3. ASSUME NEW s \in Shapes, NEW announced \in Announced, NEW fields \in BOOLEAN,
             SimpegWrite_begin_encode(s, announced, fields)
      PROVE  RefsOK'
  BY <1>3 DEF Inv, CallsOK, SimpegWrite_begin_encode, RefsOK
<1>4. CASE SimpegWrite_encode_bitmap /\ ReferenceFrame
  <2>1. Full = Held + 1 /\ Len(todo') = Held + 1
    BY <1>4, ReferenceTodo
  <2>2. Full' = Full /\ Held' = Held /\ input' = input /\ failures' = failures /\ status = "open"
        /\ call = "none" /\ newref' = newref
    BY <1>4 DEF SimpegWrite_encode_bitmap, ReferenceFrame, Idle, Full, Held, shape
  <2>3. ~(Len(todo') < Full')
    BY <1>1, <2>1, <2>2
  <2> QED BY <2>2, <2>3 DEF RefsOK
<1>5. CASE SimpegWrite_encode_bitmap /\ HeldFrame
  <2>1. Held' = Held + 1
    BY <1>5, HeldGrows
  <2>2. input' = input + 1 /\ failures' = failures /\ status = "open" /\ input # 0
        /\ call' = "none" /\ call = "none" /\ newref' = newref
    BY <1>5, Numbers DEF SimpegWrite_encode_bitmap, HeldFrame, Idle
  <2>3. input' - 1 - Held' = input - 1 - Held /\ input' # 0
    BY <1>1, <2>1, <2>2
  <2> QED BY <2>2, <2>3 DEF RefsOK
<1>6. CASE PutReturns
  <2>1. status = "open" /\ input % M = 0 /\ Len(todo) = 0 /\ Len(todo) < Full
    <3>1. status = "open" /\ input % M = 0 /\ Len(todo) = 0 /\ call = "put"
      BY <1>6 DEF Inv, CallsOK, PutReturns
    <3>2. Full \in 1 .. M
      BY <3>1, FullIs DEF Inv
    <3> QED BY <1>1, <3>1, <3>2
  <2>2. input' = input + 1 /\ failures' = failures /\ call' = "none" /\ call = "put"
        /\ newref' = newref /\ M' = M
    BY <1>6 DEF PutReturns, shape
  <2>3. input' # 0 /\ input' - 1 = input
    BY <1>1, <2>2
  <2>4. Held' = 0
    BY <2>1, <2>2, <2>3 DEF Held
  <2>5. input' - 1 - Held' = input
    BY <1>1, <2>2, <2>4
  <2> QED BY <2>1, <2>2, <2>3, <2>5 DEF RefsOK
<1>7. CASE SimpegWrite_putseq_encode_bitmap
  <2> SUFFICES ASSUME failures = 0, call = "put"
      PROVE  Len(todo') < Full' /\ newref' = input'
             /\ oldref' = IF input' = 0 THEN None ELSE input' - M'
    BY <1>7, HeadIs DEF RefsOK, SimpegWrite_putseq_encode_bitmap
  <2>1. /\ Len(todo) \in Nat \ {0} /\ status = "open" /\ Len(todo) <= Full
        /\ Len(todo') = Len(todo) - 1
        /\ Head(todo) = IF Len(todo) = Full THEN input ELSE input - Len(todo)
    BY <1>7, HeadIs DEF SimpegWrite_putseq_encode_bitmap
  <2>2. Full' = Full /\ input' = input /\ M' = M /\ todo # <<>>
    BY <1>7 DEF SimpegWrite_putseq_encode_bitmap, Full, shape
  <2>3. /\ IsReference <=> Len(todo) = Full
        /\ input # 0 => Full = M
        /\ Full = Held + 1
    BY <2>2, ReferenceIff, Numbers
  <2>4. CASE Len(todo) = Full
    <3>1. newref = IF input = 0 THEN None ELSE input - M
      <4>1. newref = IF input = 0 THEN None ELSE input - 1 - Held
        BY <2>1, <2>4, <1>1, <2>3 DEF RefsOK
      <4> QED BY <1>1, <2>3, <4>1
    <3>2. oldref' = newref /\ newref' = input
      BY <1>7, <2>1, <2>3, <2>4 DEF SimpegWrite_putseq_encode_bitmap, Shuffle
    <3> QED BY <1>1, <2>1, <2>2, <2>3, <2>4, <3>1, <3>2
  <2>5. CASE Len(todo) # Full
    <3>1. Len(todo) < Full
      BY <1>1, <2>1, <2>3, <2>5
    <3>2. oldref' = oldref /\ newref' = newref
      BY <1>7, <2>3, <2>5 DEF SimpegWrite_putseq_encode_bitmap, Shuffle
    <3>3. newref = input /\ oldref = IF input = 0 THEN None ELSE input - M
      BY <2>1, <3>1 DEF RefsOK
    <3> QED BY <1>1, <2>1, <2>2, <2>3, <3>1, <3>2, <3>3
  <2> QED BY <2>4, <2>5
<1>8. CASE SimpegWrite_end_encode \/ EndReturns
  BY <1>8 DEF RefsOK, SimpegWrite_end_encode, EndReturns
<1>9. CASE SimpegWrite_error
  BY <1>1, <1>9 DEF RefsOK, SimpegWrite_error
<1> QED BY <1>2, <1>3, <1>4, <1>5, <1>6, <1>7, <1>8, <1>9 DEF Next, SimpegWrite_encode_bitmap

(* The pictures a step other than the coding of one leaves alone.          *)
LEMMA WrittenStays ==
  ASSUME Inv, [Next]_vars, ~SimpegWrite_putseq_encode_bitmap
  PROVE  Written' = Written /\ stream' = stream /\ frame' = frame
         /\ (failures' = 0 => failures = 0)
<1>1. stream' = stream /\ frame' = frame
  BY DEF Next, vars, SimpegWrite_begin_encode, SimpegWrite_encode_bitmap, PutReturns,
     SimpegWrite_error, SimpegWrite_end_encode, EndReturns
<1>2. failures' = failures \/ failures' = failures + 1
  BY DEF Next, vars, SimpegWrite_begin_encode, SimpegWrite_encode_bitmap, PutReturns,
     SimpegWrite_error, SimpegWrite_end_encode, EndReturns
<1> QED BY <1>1, <1>2, Numbers DEF Written

StraddlesRefs(p) ==
  p.by = "put" /\ p.type # "I" =>
      /\ p.old # None /\ p.new # None
      /\ p.old < p.content
      /\ p.type = "B" => p.content < p.new

LEMMA NextStraddles ==
  ASSUME Inv, RefsOK, SimpegWrite_putseq_encode_bitmap, failures = 0
  PROVE  StraddlesRefs(NextPicture)
<1> SUFFICES ASSUME call = "put", PictType # "I"
             PROVE  /\ oldref' # None /\ newref' # None /\ oldref' < Head(todo)
                    /\ PictType = "B" => Head(todo) < newref'
  BY DEF StraddlesRefs, NextPicture
<1>1. /\ Len(todo) \in Nat \ {0} /\ Len(todo) <= Full /\ todo # <<>> /\ status = "open"
      /\ Head(todo) = IF Len(todo) = Full THEN input ELSE input - Len(todo)
  BY HeadIs DEF SimpegWrite_putseq_encode_bitmap
<1>2. /\ frame = input + 1 - Len(todo)
      /\ IsReference <=> Len(todo) = Full
      /\ input # 0 => Full = M /\ M <= input
      /\ input = 0 => Full = 1
  BY <1>1, ReferenceIff
<1>3. input \in Nat /\ M \in Nat \ {0} /\ None \notin Nat /\ (frame = 0 => PictType = "I")
  BY Numbers, PlaceTyped DEF Inv
<1>4. input # 0
  BY <1>1, <1>2, <1>3
<1>5. oldref' = input - M /\ newref' = input
  <2>1. failures' = 0 /\ call' = "put" /\ input' = input /\ M' = M /\ status' = "open"
        /\ Len(todo') < Full'
    <3>1. Len(todo') = Len(todo) - 1
      BY HeadIs DEF SimpegWrite_putseq_encode_bitmap
    <3>2. Full' = Full /\ Full = M
      BY <1>2, <1>4 DEF SimpegWrite_putseq_encode_bitmap, Full, shape
    <3>3. Len(todo') < Full'
      BY <1>1, <1>3, <3>1, <3>2
    <3> QED BY <1>1, <3>3 DEF SimpegWrite_putseq_encode_bitmap, shape
  <2>2. RefsOK'
    BY RefsStep DEF Next
  <2> QED BY <1>4, <2>1, <2>2 DEF RefsOK
<1>6. input - M \in Nat /\ input - M < Head(todo) /\ (Len(todo) # Full => Head(todo) < input)
  BY <1>1, <1>2, <1>3, <1>4
<1>7. PictType = "B" => Len(todo) # Full
  BY <1>2 DEF PictType
<1> QED BY <1>3, <1>5, <1>6, <1>7

(* A B picture lies between its two reference frames and a P picture after *)
(* its one, for every shape of the groups, as long as nothing failed.      *)
THEOREM ReferencesAlwaysStraddle == Spec => []ReferencesStraddle
<1>1. Init => ReferencesStraddle
  BY DEF Init, ReferencesStraddle, Written, ToSet
<1>2. Inv /\ RefsOK /\ ReferencesStraddle /\ [Next]_vars => ReferencesStraddle'
  <2> SUFFICES ASSUME Inv, RefsOK, ReferencesStraddle, [Next]_vars, failures' = 0, NEW p \in Written'
               PROVE  StraddlesRefs(p)
    BY DEF ReferencesStraddle, StraddlesRefs
  <2>1. CASE SimpegWrite_putseq_encode_bitmap
    <3>1. failures = 0 /\ (p \in Written \/ p = NextPicture)
      BY <2>1, WrittenGrows DEF SimpegWrite_putseq_encode_bitmap
    <3> QED BY <2>1, <3>1, NextStraddles DEF ReferencesStraddle, StraddlesRefs
  <2>2. CASE ~SimpegWrite_putseq_encode_bitmap
    BY <2>2, WrittenStays DEF ReferencesStraddle, StraddlesRefs
  <2> QED BY <2>1, <2>2
<1> QED BY <1>1, <1>2, Invariant, RefsInit, RefsStep, PTL DEF Spec

-----------------------------------------------------------------------------
(* The place of frame f in the sequence, as putseq.c computes it for the   *)
(* current frame.                                                          *)

RefAt(f)    == f = 0 \/ (f - 1) % M = 0
StartAt(f)  == LET f0 == N * ((f + (M-1)) \div N) - (M-1) IN IF f0 < 0 THEN 0 ELSE f0
NextStart(f) == N * ((f + (M-1)) \div N) + N - (M-1)
NumberAt(f) == IF ~RefAt(f) THEN f - 1
               ELSE Lesser(IF f = 0 THEN 0 ELSE f + M - 1, nframes - 1)

LEMMA PlaceOfFrame ==
  /\ IsReference <=> RefAt(frame)
  /\ GroupStart = StartAt(frame)
  /\ DisplayNumber = NumberAt(frame)
BY DEF IsReference, GroupStart, DisplayNumber, RefAt, StartAt, NumberAt

LEMMA MultiplesApart ==
  ASSUME NEW m \in Nat \ {0}, NEW a \in Int, NEW b \in Int, a % m = 0, b % m = 0, a < b
  PROVE  a + m <= b
<1>1. PICK q \in Int : a = m * q
  BY Multiple
<1>2. PICK r \in Int : b = m * r
  BY Multiple
<1>3. PICK d \in Int : d = r - q /\ b - a = m * d
  BY <1>1, <1>2
<1>4. d >= 1
  BY <1>1, <1>2, <1>3
<1>5. m * d >= m
  BY <1>4
<1> QED BY <1>3, <1>5

LEMMA MultiplesAdd ==
  ASSUME NEW m \in Nat \ {0}, NEW a \in Int, a % m = 0
  PROVE  (a + m) % m = 0 /\ \A q \in Int : (a * q) % m = 0
<1>1. PICK r \in Int : a = m * r
  BY Multiple
<1>2. a + m = m * (r + 1) + 0 /\ r + 1 \in Int /\ 0 \in 0 .. m - 1
  BY <1>1
<1>3. (m * (r + 1) + 0) % m = 0
  BY <1>2, Remainder
<1>4. ASSUME NEW q \in Int PROVE (a * q) % m = 0
  <2>1. r * q \in Int /\ a * q = m * (r * q) + 0
    BY <1>1
  <2>2. (m * (r * q) + 0) % m = 0
    BY <1>2, <2>1, Remainder
  <2> QED BY <2>1, <2>2
<1> QED BY <1>2, <1>3, <1>4

(* A group starts M - 1 frames before a multiple of N.                     *)
LEMMA StartIs ==
  ASSUME FieldsOK, NEW f \in Nat
  PROVE  \E t \in Int : /\ t % M = 0 /\ (t + N) % M = 0 /\ t % N = 0
                        /\ t <= f + (M - 1) /\ f + (M - 1) < t + N
                        /\ StartAt(f) = IF t - (M - 1) < 0 THEN 0 ELSE t - (M - 1)
                        /\ NextStart(f) = t + N - (M - 1)
<1>1. N \in Nat \ {0} /\ M \in Nat \ {0} /\ N % M = 0
  BY DEF FieldsOK
<1>2. PICK a \in Int : a = f + (M - 1)
  BY <1>1
<1>3. a \div N \in Int /\ a % N \in 0 .. N - 1 /\ a = N * (a \div N) + (a % N)
  BY <1>1, <1>2, Division
<1>4. PICK q \in Int : q = a \div N
  BY <1>3
<1>5. PICK t \in Int : t = N * q
  BY <1>1
<1>6. t <= a /\ a < t + N
  BY <1>1, <1>3, <1>4, <1>5
<1>m. \A x \in Int : (N * x) % M = 0
  <2>1. N \in Int
    BY <1>1
  <2> QED BY <1>1, <2>1, MultiplesAdd
<1>7. t % M = 0
  BY <1>5, <1>m
<1>8. (t + N) % M = 0
  <2>1. q + 1 \in Int /\ t + N = N * (q + 1)
    BY <1>1, <1>5
  <2>2. (N * (q + 1)) % M = 0
    BY <2>1, <1>m
  <2> QED BY <2>1, <2>2
<1>9. t % N = 0
  <2>1. (N * q + 0) % N = 0
    BY <1>1, Remainder
  <2> QED BY <1>1, <1>5, <2>1
<1>10. StartAt(f) = IF t - (M - 1) < 0 THEN 0 ELSE t - (M - 1)
  BY <1>2, <1>4, <1>5 DEF StartAt
<1>11. NextStart(f) = t + N - (M - 1)
  BY <1>2, <1>4, <1>5 DEF NextStart
<1> QED BY <1>2, <1>6, <1>7, <1>8, <1>9, <1>10, <1>11

LEMMA NumberIs ==
  ASSUME FieldsOK, NEW f \in Nat, f < nframes
  PROVE  /\ f = 0 => NumberAt(f) = 0
         /\ f # 0 /\ RefAt(f) => /\ (f - 1) % M = 0 /\ (f + M - 1) % M = 0
                                 /\ NumberAt(f) = IF f + M - 1 < nframes - 1 THEN f + M - 1
                                                  ELSE nframes - 1
         /\ ~RefAt(f) => f # 0 /\ (f - 1) % M # 0 /\ NumberAt(f) = f - 1
<1>1. M \in Nat \ {0} /\ nframes \in Nat \ {0}
  BY DEF FieldsOK
<1>2. f = 0 => NumberAt(f) = 0
  BY <1>1 DEF NumberAt, RefAt, Lesser
<1>3. ASSUME f # 0, RefAt(f)
      PROVE  /\ (f - 1) % M = 0 /\ (f + M - 1) % M = 0
             /\ NumberAt(f) = IF f + M - 1 < nframes - 1 THEN f + M - 1 ELSE nframes - 1
  <2>1. (f - 1) % M = 0
    BY <1>3 DEF RefAt
  <2>2. PICK a \in Int : a = f - 1
    OBVIOUS
  <2>3. (a + M) % M = 0
    BY <1>1, <2>1, <2>2, MultiplesAdd
  <2>4. a + M = f + M - 1
    BY <1>1, <2>2
  <2> QED BY <1>3, <2>1, <2>3, <2>4 DEF NumberAt, Lesser
<1>4. ~RefAt(f) => f # 0 /\ (f - 1) % M # 0 /\ NumberAt(f) = f - 1
  BY DEF RefAt, NumberAt
<1> QED BY <1>2, <1>3, <1>4

LEMMA PlaceInGroup ==
  ASSUME FieldsOK, NEW f \in Nat, f < nframes
  PROVE  NumberAt(f) - StartAt(f) \in 0 .. N - 1
<1>1. N \in Nat \ {0} /\ M \in Nat \ {0} /\ nframes \in Nat \ {0}
  BY DEF FieldsOK
<1>2. PICK t \in Int : /\ t % M = 0 /\ (t + N) % M = 0
                       /\ t <= f + (M - 1) /\ f + (M - 1) < t + N
                       /\ StartAt(f) = IF t - (M - 1) < 0 THEN 0 ELSE t - (M - 1)
  BY StartIs
<1>3. CASE f = 0
  <2>1. NumberAt(f) = 0
    BY <1>3, NumberIs
  <2>2. StartAt(f) = 0
    BY <1>1, <1>2, <1>3
  <2> QED BY <1>1, <2>1, <2>2
<1>4. CASE f # 0 /\ RefAt(f)
  <2>1. (f + M - 1) % M = 0
        /\ NumberAt(f) = IF f + M - 1 < nframes - 1 THEN f + M - 1 ELSE nframes - 1
    BY <1>4, NumberIs
  <2>2. PICK a \in Int, e \in Int : a = f + M - 1 /\ e = t + N
    BY <1>1
  <2>3. a % M = 0 /\ e % M = 0 /\ a < e
    BY <1>1, <1>2, <2>1, <2>2
  <2>4. a + M <= e
    BY <1>1, <2>3, MultiplesApart
  <2>5. NumberAt(f) <= a /\ NumberAt(f) >= f /\ NumberAt(f) \in Int
    BY <1>1, <1>4, <2>1, <2>2
  <2>6. StartAt(f) >= t - (M - 1) /\ StartAt(f) <= f /\ StartAt(f) \in Int
    BY <1>1, <1>2
  <2> QED BY <1>1, <2>2, <2>4, <2>5, <2>6
<1>5. CASE ~RefAt(f)
  <2>1. f # 0 /\ (f - 1) % M # 0 /\ NumberAt(f) = f - 1
    BY <1>5, NumberIs
  <2>2. t # f + (M - 1)
    <3> SUFFICES ASSUME t = f + (M - 1) PROVE FALSE
      OBVIOUS
    <3>1. M \in 1 .. M /\ t - M = f - 1
      BY <1>1
    <3>2. (t - M) % M = M - M
      BY <1>1, <1>2, <3>1, BackFromMultiple
    <3> QED BY <1>1, <2>1, <3>1, <3>2
  <2> QED BY <1>1, <1>2, <2>1, <2>2
<1> QED BY <1>3, <1>4, <1>5

LEMMA DistinctNumbers ==
  ASSUME FieldsOK, NEW f \in Nat, NEW g \in Nat, f < g, g < nframes
  PROVE  NumberAt(f) # NumberAt(g)
<1>1. M \in Nat \ {0} /\ nframes \in Nat \ {0} /\ f < nframes /\ g # 0
  BY DEF FieldsOK
<1>z. 0 % M = 0
  <2>1. (M * 0 + 0) % M = 0
    BY <1>1, Remainder
  <2> QED BY <1>1, <2>1
<1>2. CASE ~RefAt(f) /\ ~RefAt(g)
  BY <1>2, <1>1, NumberIs
<1>3. CASE ~RefAt(f) /\ RefAt(g)
  <2>1. (f - 1) % M # 0 /\ NumberAt(f) = f - 1
    BY <1>1, <1>3, NumberIs
  <2>2. (g + M - 1) % M = 0
        /\ NumberAt(g) = IF g + M - 1 < nframes - 1 THEN g + M - 1 ELSE nframes - 1
    BY <1>1, <1>3, NumberIs
  <2> QED BY <1>1, <2>1, <2>2
<1>4. CASE f = 0 /\ ~RefAt(g)
  <2>1. (g - 1) % M # 0 /\ NumberAt(g) = g - 1 /\ NumberAt(f) = 0
    BY <1>1, <1>4, NumberIs
  <2> QED BY <2>1, <1>z
<1>5. CASE f = 0 /\ RefAt(g)
  <2>1. NumberAt(f) = 0
        /\ NumberAt(g) = IF g + M - 1 < nframes - 1 THEN g + M - 1 ELSE nframes - 1
    BY <1>1, <1>5, NumberIs
  <2> QED BY <1>1, <2>1
<1>6. CASE f # 0 /\ RefAt(f) /\ ~RefAt(g)
  <2>1. (g - 1) % M # 0 /\ NumberAt(g) = g - 1
    BY <1>1, <1>6, NumberIs
  <2>2. (f + M - 1) % M = 0
        /\ NumberAt(f) = IF f + M - 1 < nframes - 1 THEN f + M - 1 ELSE nframes - 1
    BY <1>1, <1>6, NumberIs
  <2> QED BY <1>1, <2>1, <2>2
<1>7. CASE f # 0 /\ RefAt(f) /\ RefAt(g)
  <2>1. (f - 1) % M = 0
        /\ NumberAt(f) = IF f + M - 1 < nframes - 1 THEN f + M - 1 ELSE nframes - 1
    BY <1>1, <1>7, NumberIs
  <2>2. (g - 1) % M = 0
        /\ NumberAt(g) = IF g + M - 1 < nframes - 1 THEN g + M - 1 ELSE nframes - 1
    BY <1>1, <1>7, NumberIs
  <2>3. PICK a \in Int, b \in Int : a = f - 1 /\ b = g - 1
    OBVIOUS
  <2>4. a % M = 0 /\ b % M = 0 /\ a < b
    BY <2>1, <2>2, <2>3
  <2>5. a + M <= b
    BY <1>1, <2>4, MultiplesApart
  <2> QED BY <1>1, <2>1, <2>2, <2>3, <2>5
<1> QED BY <1>2, <1>3, <1>4, <1>5, <1>6, <1>7

-----------------------------------------------------------------------------
(* The pictures of the stream are numbered by their places in it, and the  *)
(* frames held back at the end come after all others.                      *)

PicturesOK ==
  \A k \in 1 .. Len(stream) :
    /\ stream[k].number = NumberAt(k - 1)
    /\ stream[k].start = StartAt(k - 1)
    /\ stream[k].temp_ref = stream[k].number - stream[k].start

TailOK ==
  failures = 0 =>
    /\ \A k \in 1 .. Len(stream) : stream[k].by = "end" => stream[k].content = k - 1
    /\ status # "closed" /\ call # "end" => \A p \in Written : p.by = "put"
    /\ status = "closed" \/ call = "end" =>
         \A p \in Written : /\ p.content < input
                            /\ p.by = "end" <=> p.content >= input - Held

DisplayOK == failures = 0 => NumberedAsPut

LEMMA StreamGrows ==
  ASSUME Inv, SimpegWrite_putseq_encode_bitmap
  PROVE  /\ Len(stream) = frame /\ frame \in Nat /\ Len(stream') = frame + 1
         /\ \A k \in 1 .. frame : stream'[k] = stream[k]
         /\ stream'[frame + 1] = NextPicture
<1>1. stream \in Seq(Picture) /\ stream' = Append(stream, NextPicture) /\ Len(stream) = frame
  BY DEF Inv, FieldsOK, SimpegWrite_putseq_encode_bitmap, NextPicture
<1> QED BY <1>1

LEMMA PicturesInit == Init => PicturesOK /\ TailOK /\ DisplayOK
<1> SUFFICES ASSUME Init PROVE PicturesOK /\ TailOK /\ DisplayOK
  OBVIOUS
<1>1. Len(stream) = 0 /\ Written = {}
  BY DEF Init, Written, ToSet
<1> QED BY <1>1 DEF PicturesOK, TailOK, DisplayOK, NumberedAsPut, Init

LEMMA PicturesStep == Inv /\ PicturesOK /\ [Next]_vars => PicturesOK'
<1> SUFFICES ASSUME Inv, PicturesOK, [Next]_vars PROVE PicturesOK'
  OBVIOUS
<1>1. CASE SimpegWrite_putseq_encode_bitmap
  <2>1. N' = N /\ M' = M /\ nframes' = nframes
    BY <1>1 DEF SimpegWrite_putseq_encode_bitmap, shape
  <2>2. \A f \in Int : NumberAt(f)' = NumberAt(f) /\ StartAt(f)' = StartAt(f)
    BY <2>1 DEF NumberAt, StartAt, RefAt
  <2>3. /\ NextPicture.number = NumberAt(frame) /\ NextPicture.start = StartAt(frame)
        /\ NextPicture.temp_ref = NextPicture.number - NextPicture.start
    BY PlaceOfFrame DEF NextPicture
  <2> SUFFICES ASSUME NEW k \in 1 .. Len(stream')
               PROVE  /\ stream'[k].number = NumberAt(k - 1)
                      /\ stream'[k].start = StartAt(k - 1)
                      /\ stream'[k].temp_ref = stream'[k].number - stream'[k].start
    BY <2>2 DEF PicturesOK
  <2>4. CASE k = frame + 1
    BY <1>1, <2>3, <2>4, StreamGrows
  <2>5. CASE k # frame + 1
    <3>1. k \in 1 .. Len(stream) /\ stream'[k] = stream[k]
      BY <1>1, <2>5, StreamGrows
    <3> QED BY <3>1 DEF PicturesOK
  <2> QED BY <2>4, <2>5
<1>2. CASE ~SimpegWrite_putseq_encode_bitmap
  <2>1. stream' = stream
    BY <1>2, WrittenStays
  <2>2. CASE Len(stream) = 0
    BY <2>1, <2>2 DEF PicturesOK
  <2>3. CASE Len(stream) # 0
    <3>1. status # "none"
      BY <2>3 DEF Inv, CallsOK, FieldsOK
    <3>2. N' = N /\ M' = M /\ nframes' = nframes
      BY <1>2, <3>1 DEF Next, vars, shape, SimpegWrite_begin_encode, SimpegWrite_encode_bitmap,
         PutReturns, SimpegWrite_error, SimpegWrite_end_encode, EndReturns
    <3> QED BY <2>1, <3>2 DEF PicturesOK, NumberAt, StartAt, RefAt
  <2> QED BY <2>2, <2>3
<1> QED BY <1>1, <1>2

(* A frame coded at the end of the movie has its number as place.          *)
LEMMA EndPlace ==
  ASSUME Inv, failures = 0, call = "end", todo # <<>>
  PROVE  /\ Head(todo) = frame /\ frame < input /\ frame >= input - Held
         /\ status = "open"
<1>1. /\ Len(todo) \in Nat \ {0} /\ status = "open" /\ Len(todo) <= Held
      /\ Head(todo) = input - Len(todo)
  BY HeadIs
<1>2. input \in Nat /\ M \in Nat \ {0} /\ frame \in Nat /\ Held \in Nat
  BY Numbers
<1>3. frame = input - Len(todo)
  <2>1. failures * M = 0
    BY <1>2
  <2>2. frame - Position \in 0 .. 0
    BY <1>1, <2>1 DEF Inv, FrameOK
  <2>3. Position = input - Len(todo)
    BY DEF Position
  <2> QED BY <1>1, <1>2, <2>2, <2>3
<1> QED BY <1>1, <1>2, <1>3

LEMMA TailStep == Inv /\ ContentsOK /\ TailOK /\ [Next]_vars => TailOK'
<1> SUFFICES ASSUME Inv, ContentsOK, TailOK, [Next]_vars, failures' = 0 PROVE TailOK'
  BY DEF TailOK
<1>1. CASE SimpegWrite_putseq_encode_bitmap
  <2>1. failures = 0 /\ status = "open" /\ status' = status /\ call' = call /\ input' = input
        /\ Held' = Held /\ call \in {"put", "end"} /\ todo # <<>>
    BY <1>1, HeadIs DEF SimpegWrite_putseq_encode_bitmap, Held, shape
  <2>2. NextPicture.by = call /\ NextPicture.content = Head(todo)
    BY DEF NextPicture
  <2>3. \A k \in 1 .. Len(stream') : stream'[k].by = "end" => stream'[k].content = k - 1
    <3> SUFFICES ASSUME NEW k \in 1 .. Len(stream'), stream'[k].by = "end"
                 PROVE  stream'[k].content = k - 1
      OBVIOUS
    <3>1. CASE k = frame + 1
      <4>1. stream'[k] = NextPicture /\ frame \in Nat
        BY <1>1, <3>1, StreamGrows
      <4>2. Head(todo) = frame
        BY <2>1, <2>2, <4>1, EndPlace
      <4> QED BY <2>2, <3>1, <4>1, <4>2
    <3>2. CASE k # frame + 1
      <4>1. k \in 1 .. Len(stream) /\ stream'[k] = stream[k]
        BY <1>1, <3>2, StreamGrows
      <4> QED BY <2>1, <4>1 DEF TailOK
    <3> QED BY <3>1, <3>2
  <2>4. Written' = Written \cup {NextPicture}
    BY <1>1, WrittenGrows
  <2>5. CASE call = "put"
    BY <2>1, <2>2, <2>3, <2>4, <2>5 DEF TailOK
  <2>6. CASE call = "end"
    <3>1. Head(todo) < input /\ Head(todo) >= input - Held
      BY <2>1, <2>6, EndPlace
    <3>2. \A p \in Written' : p.content < input /\ (p.by = "end" <=> p.content >= input - Held)
      BY <2>1, <2>2, <2>4, <2>6, <3>1 DEF TailOK
    <3> QED BY <2>1, <2>3, <2>6, <3>2 DEF TailOK
  <2> QED BY <2>1, <2>5, <2>6
<1>2. CASE ~SimpegWrite_putseq_encode_bitmap
  <2>1. Written' = Written /\ stream' = stream /\ failures = 0
    BY <1>2, WrittenStays
  <2>2. CASE UNCHANGED vars
    BY <2>1, <2>2 DEF vars, shape, TailOK, Held
  <2>3. CASE status = "none"
    <3>1. Len(stream) = 0 /\ Written = {}
      <4>1. Len(stream) = 0 /\ stream \in Seq(Picture)
        BY <2>3 DEF Inv, CallsOK, FieldsOK
      <4> QED BY <4>1 DEF Written, ToSet
    <3> QED BY <2>1, <3>1 DEF TailOK
  <2>4. CASE SimpegWrite_encode_bitmap \/ PutReturns
    <3>1. status = "open" /\ status' = "open" /\ call # "end" /\ call' # "end"
      BY <2>4 DEF Inv, CallsOK, SimpegWrite_encode_bitmap, Idle, ReferenceFrame, HeldFrame, PutReturns
    <3> QED BY <2>1, <3>1 DEF TailOK
  <2>5. CASE SimpegWrite_end_encode
    <3>1. status = "open" /\ call = "none" /\ input' = input /\ Held' = Held /\ call' = "end"
      BY <2>5 DEF SimpegWrite_end_encode, Idle, Held, shape
    <3>2. Contents = Before(input - Held)
      BY <2>1, <3>1 DEF ContentsOK
    <3>3. \A p \in Written : p.content \in Frames /\ p.content < input - Held /\ p.by = "put"
      BY <2>1, <3>1, <3>2 DEF Contents, Before, TailOK
    <3>4. \A p \in Written : p.content < input /\ ~(p.content >= input - Held)
      <4> SUFFICES ASSUME NEW p \in Written
                   PROVE  p.content < input /\ ~(p.content >= input - Held)
        OBVIOUS
      <4>1. PICK c \in Nat : c = p.content
        BY <3>3, BoundsAssumption DEF Frames
      <4>2. PICK n \in Nat, h \in Nat : n = input /\ h = Held
        BY Numbers
      <4> QED BY <3>3, <4>1, <4>2
    <3> QED BY <2>1, <3>1, <3>3, <3>4 DEF TailOK
  <2>6. CASE EndReturns
    <3>1. call = "end" /\ input' = input /\ Held' = Held /\ status' = "closed"
      BY <2>6 DEF EndReturns, Held, shape
    <3> QED BY <2>1, <3>1 DEF TailOK
  <2>7. CASE SimpegWrite_error
    BY <2>1, <2>7 DEF SimpegWrite_error
  <2> QED BY <1>2, <2>2, <2>3, <2>4, <2>5, <2>6, <2>7 DEF Next, SimpegWrite_begin_encode
<1> QED BY <1>1, <1>2

LEMMA DisplayStep == Inv /\ DisplayOK /\ [Next]_vars => DisplayOK'
<1> SUFFICES ASSUME Inv, DisplayOK, [Next]_vars, failures' = 0 PROVE NumberedAsPut'
  BY DEF DisplayOK
<1>1. CASE SimpegWrite_putseq_encode_bitmap
  <2>1. failures = 0 /\ nframes' = nframes /\ todo # <<>> /\ NumberedAsPut
    BY <1>1 DEF SimpegWrite_putseq_encode_bitmap, shape, DisplayOK
  <2>2. NextPicture.by = call /\ NextPicture.content = Head(todo)
        /\ NextPicture.type = PictType /\ NextPicture.number = DisplayNumber
    BY DEF NextPicture
  <2>3. ASSUME call = "put"
        PROVE  DisplayNumber = IF PictType = "B" THEN Head(todo) ELSE Lesser(Head(todo), nframes - 1)
    <3>1. /\ Len(todo) \in Nat \ {0} /\ Len(todo) <= Full
          /\ Head(todo) = IF Len(todo) = Full THEN input ELSE input - Len(todo)
      BY <2>1, <2>3, HeadIs
    <3>2. /\ frame = input + 1 - Len(todo)
          /\ IsReference <=> Len(todo) = Full
          /\ input # 0 => Full = M /\ M <= input
          /\ input = 0 => Full = 1
      BY <2>1, <2>3, ReferenceIff
    <3>3. input \in Nat /\ M \in Nat \ {0} /\ nframes \in Nat
      BY Numbers DEF Inv, FieldsOK
    <3>4. PictType = "B" <=> ~IsReference
      BY DEF PictType
    <3>5. CASE ~IsReference
      BY <3>1, <3>2, <3>3, <3>4, <3>5 DEF DisplayNumber
    <3>6. CASE IsReference
      <4>1. (IF frame = 0 THEN 0 ELSE frame + M - 1) = input
        BY <3>1, <3>2, <3>3, <3>6
      <4> QED BY <3>1, <3>2, <3>4, <3>6, <4>1 DEF DisplayNumber
    <3> QED BY <3>5, <3>6
  <2> QED BY <1>1, <2>1, <2>2, <2>3, WrittenGrows DEF NumberedAsPut, Lesser
<1>2. CASE ~SimpegWrite_putseq_encode_bitmap
  <2>1. Written' = Written /\ failures = 0
    BY <1>2, WrittenStays
  <2>2. CASE status = "none"
    <3>1. Written = {}
      <4>1. Len(stream) = 0 /\ stream \in Seq(Picture)
        BY <2>2 DEF Inv, CallsOK, FieldsOK
      <4> QED BY <4>1 DEF Written, ToSet
    <3> QED BY <2>1, <3>1 DEF NumberedAsPut
  <2>3. CASE status # "none"
    <3>1. nframes' = nframes
      BY <1>2, <2>3 DEF Next, vars, shape, SimpegWrite_begin_encode, SimpegWrite_encode_bitmap,
         PutReturns, SimpegWrite_error, SimpegWrite_end_encode, EndReturns
    <3> QED BY <2>1, <3>1 DEF DisplayOK, NumberedAsPut, Lesser
  <2> QED BY <2>2, <2>3
<1> QED BY <1>1, <1>2

(* Among the frames held back only the first is where a reference would be.*)
LEMMA TailPlace ==
  ASSUME Inv, NEW c \in Nat, c < input, c >= input - Held
  PROVE  /\ input - Held >= 1
         /\ RefAt(c) <=> c = input - Held
         /\ c % M = 1 <=> c = input - Held
         /\ c - (input - Held) < M - 1
<1>1. input \in Nat /\ Held \in Nat /\ M \in Nat \ {0} /\ Held <= M - 1 /\ input # 0
  BY Numbers
<1>2. PICK p \in Nat : p = input - 1
  BY <1>1
<1>3. PICK r \in Nat : r = Held /\ r = p % M
  BY <1>1, <1>2 DEF Held
<1>4. PICK q \in Int : p = M * q + r
  <2>1. p \div M \in Int /\ p = M * (p \div M) + (p % M)
    BY <1>1, Division
  <2> QED BY <1>3, <2>1
<1>5. r <= p
  BY <1>1, <1>3, RemainderAtMost
<1>6. PICK e \in Int : e = c - (input - Held)
  BY <1>1
<1>0. PICK n \in Nat, m \in Nat : n = input /\ m = M /\ r <= m - 1 /\ p = n - 1 /\ e = c - (n - r)
  BY <1>1, <1>2, <1>3, <1>6
<1>7. e \in 0 .. r - 1 /\ r <= M - 1 /\ e \in 0 .. M - 1 /\ e + 1 \in 0 .. M - 1
  <2>1. c < n /\ c >= n - r
    BY <1>0, <1>3
  <2>2. e \in 0 .. r - 1 /\ r <= m - 1 /\ e \in 0 .. m - 1 /\ e + 1 \in 0 .. m - 1
    BY <1>0, <2>1
  <2> QED BY <1>0, <2>2
<1>8. c - 1 = M * q + e /\ c = M * q + (e + 1)
  <2>1. input - Held = p + 1 - r /\ c = e + (p + 1 - r)
    BY <1>0, <1>3
  <2>2. PICK t \in Int : t = M * q /\ p = t + r
    BY <1>1, <1>4
  <2>3. c = t + (e + 1)
    BY <1>7, <2>1, <2>2
  <2>4. c - 1 = t + e
    BY <1>7, <2>2, <2>3
  <2> QED BY <2>2, <2>3, <2>4
<1>9. (M * q + e) % M = e /\ (M * q + (e + 1)) % M = e + 1
  BY <1>1, <1>7, Remainder
<1>10. (c - 1) % M = e /\ c % M = e + 1
  BY <1>8, <1>9
<1>11. e = 0 <=> c = input - Held
  BY <1>1, <1>6
<1>12. input - Held >= 1 /\ c # 0
  BY <1>1, <1>2, <1>3, <1>5
<1> QED BY <1>1, <1>6, <1>7, <1>10, <1>11, <1>12 DEF RefAt

LEMMA TailInOrder ==
  ASSUME Inv, PicturesOK, TailOK, NumberedAsPut, failures = 0, frame <= nframes
  PROVE  FirstOfTheTailIsLast
<1> SUFFICES ASSUME NEW p \in Written, NEW q \in Written, p.by = "end", q.content < p.content
             PROVE  IF q.by = "end" /\ q.content % M = 1 THEN q.number > p.number
                    ELSE q.number < p.number
  BY DEF FirstOfTheTailIsLast
<1>1. input \in Nat /\ Held \in Nat /\ M \in Nat \ {0} /\ frame \in Nat /\ nframes \in Nat \ {0}
      /\ FieldsOK /\ Len(stream) = frame
  BY Numbers DEF Inv, FieldsOK
<1>2. PICK b \in Int : b = input - Held
  BY <1>1
<1>3. status = "closed" \/ call = "end"
  BY DEF TailOK
<1>4. \A w \in Written : w.content \in Nat /\ w.content < input /\ (w.by = "end" <=> w.content >= b)
      /\ w.by \in {"put", "end"}
  <2> SUFFICES ASSUME NEW w \in Written
               PROVE  w.content \in Nat /\ w.by \in {"put", "end"}
    BY <1>2, <1>3 DEF TailOK
  <2>1. PICK k \in DOMAIN stream : w = stream[k]
    BY DEF Written, ToSet
  <2>2. w \in Picture
    BY <2>1 DEF Inv, FieldsOK
  <2> QED BY <2>2, BoundsAssumption DEF Picture, Frames
<1>5. \A w \in Written : w.by = "end" =>
        /\ w.content < frame /\ w.number = NumberAt(w.content) /\ b >= 1
        /\ RefAt(w.content) <=> w.content = b
        /\ w.content % M = 1 <=> w.content = b
        /\ w.content < b + M - 1
  <2> SUFFICES ASSUME NEW w \in Written, w.by = "end"
      PROVE  /\ w.content < frame /\ w.number = NumberAt(w.content) /\ b >= 1
             /\ RefAt(w.content) <=> w.content = b
             /\ w.content % M = 1 <=> w.content = b
             /\ w.content < b + M - 1
    OBVIOUS
  <2>1. PICK k \in 1 .. frame : w = stream[k]
    BY <1>1 DEF Written, ToSet, FieldsOK
  <2>2. w.content = k - 1 /\ w.number = NumberAt(k - 1)
    BY <1>1, <2>1 DEF TailOK, PicturesOK
  <2>3. PICK c \in Nat : c = w.content /\ c < input /\ c >= input - Held
    BY <1>2, <1>4
  <2>4. /\ input - Held >= 1
        /\ RefAt(c) <=> c = input - Held
        /\ c % M = 1 <=> c = input - Held
        /\ c - (input - Held) < M - 1
    BY <2>3, TailPlace
  <2>5. c < b + M - 1
    BY <1>1, <1>2, <2>3, <2>4
  <2>6. c < frame
    BY <1>1, <2>1, <2>2, <2>3
  <2> QED BY <1>2, <2>2, <2>3, <2>4, <2>5, <2>6
<1>6. PICK c \in Nat, d \in Nat : c = p.content /\ d = q.content /\ d < c
  BY <1>4
<1>7. c < frame /\ c >= b /\ b >= 1 /\ c < b + M - 1 /\ c < nframes
      /\ (RefAt(c) <=> c = b) /\ p.number = NumberAt(c)
  BY <1>1, <1>4, <1>5, <1>6
<1>8. /\ RefAt(c) /\ c # 0 => NumberAt(c) = IF c + M - 1 < nframes - 1 THEN c + M - 1 ELSE nframes - 1
      /\ ~RefAt(c) => NumberAt(c) = c - 1
  BY <1>1, <1>7, NumberIs
<1>9. CASE q.by = "end"
  <2>1. d < nframes /\ d >= b /\ q.number = NumberAt(d) /\ (RefAt(d) <=> d = b)
        /\ (d % M = 1 <=> d = b)
    BY <1>1, <1>4, <1>5, <1>6, <1>9
  <2>2. /\ RefAt(d) /\ d # 0 => NumberAt(d) = IF d + M - 1 < nframes - 1 THEN d + M - 1 ELSE nframes - 1
        /\ ~RefAt(d) => NumberAt(d) = d - 1
    BY <1>1, <2>1, NumberIs
  <2>3. c # b /\ p.number = c - 1
    BY <1>6, <1>7, <1>8, <2>1
  <2>4. CASE d = b
    <3>1. q.number = IF b + M - 1 < nframes - 1 THEN b + M - 1 ELSE nframes - 1
      BY <1>7, <2>1, <2>2, <2>4
    <3>2. q.number > p.number
      BY <1>1, <1>7, <2>3, <3>1
    <3> QED BY <1>6, <1>9, <2>1, <2>4, <3>2
  <2>5. CASE d # b
    <3>1. q.number = d - 1
      BY <2>1, <2>2, <2>5
    <3>2. q.number < p.number
      BY <1>6, <2>3, <3>1
    <3> QED BY <1>6, <2>1, <2>5, <3>2
  <2> QED BY <2>4, <2>5
<1>10. CASE q.by = "put"
  <2>1. d < b
    BY <1>2, <1>4, <1>6, <1>10
  <2>2. q.number = IF q.type = "B" THEN d ELSE IF d < nframes - 1 THEN d ELSE nframes - 1
    BY <1>6, <1>10 DEF NumberedAsPut, Lesser
  <2>4. q.number < p.number
    <3>1. CASE c = b
      BY <1>1, <1>7, <1>8, <2>1, <2>2, <3>1
    <3>2. CASE c # b
      BY <1>1, <1>7, <1>8, <2>1, <2>2, <3>2
    <3> QED BY <3>1, <3>2
  <2> QED BY <1>10, <2>4
<1> QED BY <1>4, <1>9, <1>10

(* While nothing fails and no more frames are put than announced, the      *)
(* numbers of the pictures are the order the frames were put in, their     *)
(* temporal references are theirs alone in their group, and the frames     *)
(* held back at the end come last, for every shape of the groups.          *)
THEOREM GroupsAreAlwaysInDisplayOrder == Spec => []GroupsInDisplayOrder
<1>1. Inv /\ PicturesOK /\ TailOK /\ DisplayOK => GroupsInDisplayOrder
  <2> SUFFICES ASSUME Inv, PicturesOK, TailOK, DisplayOK, failures = 0
               PROVE  NumberedAsPut /\ TemporalReferences /\ FirstOfTheTailIsLast
    BY DEF GroupsInDisplayOrder
  <2>1. NumberedAsPut
    BY DEF DisplayOK
  <2>2. TemporalReferences
    <3> SUFFICES ASSUME frame <= nframes, NEW p \in Written
        PROVE  /\ p.temp_ref \in 0 .. N - 1
               /\ \A q \in Written : p # q /\ p.start = q.start => p.temp_ref # q.temp_ref
      BY DEF TemporalReferences
    <3>1. FieldsOK /\ frame \in Nat /\ nframes \in Nat
          /\ Written = {stream[k] : k \in 1 .. frame}
      BY DEF Inv, FieldsOK, Written, ToSet
    <3>2. \A k \in 1 .. frame : /\ stream[k].number = NumberAt(k - 1)
                                /\ stream[k].start = StartAt(k - 1)
                                /\ stream[k].temp_ref = NumberAt(k - 1) - StartAt(k - 1)
      BY <3>1 DEF PicturesOK, Inv, FieldsOK
    <3>3. PICK k \in 1 .. frame : p = stream[k]
      BY <3>1
    <3>4. \A f \in Nat : f < nframes => NumberAt(f) \in Int /\ StartAt(f) \in Int
      <4> SUFFICES ASSUME NEW f \in Nat, f < nframes PROVE NumberAt(f) \in Int /\ StartAt(f) \in Int
        OBVIOUS
      <4>1. StartAt(f) \in Int
        <5>1. M \in Nat \ {0}
          BY <3>1 DEF FieldsOK
        <5> QED BY <3>1, <5>1, StartIs
      <4>2. NumberAt(f) \in Int
        BY <3>1, Numbers DEF NumberAt, Lesser
      <4> QED BY <4>1, <4>2
    <3>5. p.temp_ref \in 0 .. N - 1
      <4>1. k - 1 \in Nat /\ k - 1 < nframes
        BY <3>1
      <4> QED BY <3>1, <3>2, <3>3, <4>1, PlaceInGroup
    <3>6. ASSUME NEW q \in Written, p # q, p.start = q.start PROVE p.temp_ref # q.temp_ref
      <4>1. PICK l \in 1 .. frame : q = stream[l] /\ l # k
        BY <3>1, <3>3, <3>6
      <4>2. PICK f \in Nat, g \in Nat : f = k - 1 /\ g = l - 1 /\ f < nframes /\ g < nframes /\ f # g
        BY <3>1, <4>1
      <4>3. NumberAt(f) # NumberAt(g)
        BY <3>1, <4>2, DistinctNumbers
      <4>4. NumberAt(f) \in Int /\ NumberAt(g) \in Int /\ StartAt(f) \in Int /\ StartAt(g) = StartAt(f)
        BY <3>2, <3>3, <3>4, <3>6, <4>1, <4>2
      <4>5. p.temp_ref = NumberAt(f) - StartAt(f) /\ q.temp_ref = NumberAt(g) - StartAt(g)
        BY <3>2, <3>3, <4>1, <4>2
      <4> QED BY <4>3, <4>4, <4>5
    <3> QED BY <3>5, <3>6
  <2>3. FirstOfTheTailIsLast
    <3>1. CASE frame <= nframes
      BY <2>1, <3>1, TailInOrder
    <3>2. CASE ~(frame <= nframes)
      BY <3>2 DEF FirstOfTheTailIsLast
    <3> QED BY <3>1, <3>2
  <2> QED BY <2>1, <2>2, <2>3
<1> QED BY <1>1, Invariant, ContentsInit, ContentsStep, PicturesInit, PicturesStep, TailStep,
     DisplayStep, PTL DEF Spec

-----------------------------------------------------------------------------
(* The budget of a group: what rate control still counts on are the        *)
(* pictures from the current frame to the last of its group that comes.    *)

(* The reference frames before frame x, and the references and other frames*)
(* of its group that come after frame f.                                   *)
RefsBelow(x) == IF x = 0 THEN 0 ELSE 1 + ((x - 1 + (M - 1)) \div M)
EndAt(f)     == Lesser(NextStart(f), nframes)
Times(n)     == IF fieldpic THEN 2 * n ELSE n

RefsAfter(f)   == RefsBelow(EndAt(f)) - RefsBelow(f + 1)
OthersAfter(f) == EndAt(f) - (f + 1) - RefsAfter(f)

BudgetOK ==
  failures = 0 /\ frame # 0 /\ frame <= nframes =>
    left = [np |-> Times(RefsAfter(frame - 1)), nb |-> Times(OthersAfter(frame - 1))]

PlansOK ==
  failures = 0 /\ frame <= nframes =>
    \A p \in Written :
      /\ p.type = "P" => p.planned.np >= Pictures
      /\ p.type = "B" => p.planned.nb >= Pictures
      /\ p.type = "I" => p.planned.np >= Pictures - 1 /\ p.planned.nb >= 0

LEMMA Quotient ==
  ASSUME NEW m \in Nat \ {0}, NEW q \in Int, NEW r \in 0 .. m - 1
  PROVE  (m * q + r) \div m = q
BY SMTT(30)

LEMMA QuotientsApart ==
  ASSUME NEW m \in Nat \ {0}, NEW a \in Int, NEW b \in Int, a <= b
  PROVE  /\ a \div m \in Int /\ b \div m \in Int
         /\ a \div m <= b \div m /\ (b \div m) - (a \div m) <= b - a
<1>1. PICK q \in Int, s \in 0 .. m - 1 : q = a \div m /\ a = m * q + s
  <2>1. a \div m \in Int /\ a % m \in 0 .. m - 1 /\ a = m * (a \div m) + (a % m)
    BY Division
  <2> QED BY <2>1
<1>2. PICK r \in Int, u \in 0 .. m - 1 : r = b \div m /\ b = m * r + u
  <2>1. b \div m \in Int /\ b % m \in 0 .. m - 1 /\ b = m * (b \div m) + (b % m)
    BY Division
  <2> QED BY <2>1
<1>3. PICK d \in Int : d = r - q /\ m * d = (b - u) - (a - s)
  <2>1. m * (r - q) = m * r - m * q
    BY <1>1, <1>2
  <2>2. m * r = b - u /\ m * q = a - s
    BY <1>1, <1>2
  <2> QED BY <2>1, <2>2
<1>4. d >= 0
  <2> SUFFICES ASSUME d <= -1 PROVE FALSE
    OBVIOUS
  <2>1. m * d <= -m
    OBVIOUS
  <2> QED BY <1>3, <2>1
<1>5. d <= b - a
  <2> SUFFICES ASSUME d >= (b - a) + 1 PROVE FALSE
    OBVIOUS
  <2>1. m * (d - 1) >= d - 1
    BY <1>4
  <2>2. m * d = m * (d - 1) + m
    OBVIOUS
  <2> QED BY <1>3, <2>1, <2>2
<1> QED BY <1>1, <1>2, <1>3, <1>4, <1>5

LEMMA QuotientNext ==
  ASSUME NEW m \in Nat \ {0}, NEW a \in Int
  PROVE  (a + m) \div m = (a \div m) + 1
<1>1. PICK q \in Int, s \in 0 .. m - 1 : q = a \div m /\ a = m * q + s
  <2>1. a \div m \in Int /\ a % m \in 0 .. m - 1 /\ a = m * (a \div m) + (a % m)
    BY Division
  <2> QED BY <2>1
<1>2. a + m = m * (q + 1) + s /\ q + 1 \in Int
  BY <1>1
<1>3. (m * (q + 1) + s) \div m = q + 1
  BY <1>2, Quotient
<1> QED BY <1>1, <1>2, <1>3

(* Between frames x and y there are no fewer than no references and no     *)
(* more than the frames.                                                   *)
LEMMA RefsBetween ==
  ASSUME FieldsOK, NEW x \in Nat \ {0}, NEW y \in Nat, x <= y
  PROVE  /\ RefsBelow(x) \in Int /\ RefsBelow(y) \in Int
         /\ RefsBelow(x) <= RefsBelow(y) /\ RefsBelow(y) - RefsBelow(x) <= y - x
<1>1. M \in Nat \ {0}
  BY DEF FieldsOK
<1>2. PICK a \in Int, b \in Int : a = x - 1 + (M - 1) /\ b = y - 1 + (M - 1) /\ a <= b /\ b - a = y - x
  BY <1>1
<1>3. /\ a \div M \in Int /\ b \div M \in Int
      /\ a \div M <= b \div M /\ (b \div M) - (a \div M) <= b - a
  BY <1>1, <1>2, QuotientsApart
<1>4. RefsBelow(x) = 1 + (a \div M) /\ RefsBelow(y) = 1 + (b \div M)
  BY <1>2 DEF RefsBelow
<1> QED BY <1>2, <1>3, <1>4

LEMMA RefsNext ==
  ASSUME FieldsOK, NEW x \in Nat
  PROVE  /\ RefsBelow(x) \in Int
         /\ RefsBelow(x + 1) = RefsBelow(x) + (IF RefAt(x) THEN 1 ELSE 0)
<1>1. M \in Nat \ {0}
  BY DEF FieldsOK
<1>2. CASE x = 0
  <2>1. (M * 0 + (M - 1)) \div M = 0
    <3>1. M - 1 \in 0 .. M - 1 /\ 0 \in Int
      BY <1>1
    <3> QED BY <1>1, <3>1, Quotient
  <2>2. (x + 1) - 1 + (M - 1) = M * 0 + (M - 1) /\ x + 1 # 0
    BY <1>1, <1>2
  <2> QED BY <1>2, <2>1, <2>2 DEF RefsBelow, RefAt
<1>3. CASE x # 0
  <2>1. PICK p \in Nat : p = x - 1
    BY <1>3
  <2>2. PICK q \in Int, s \in 0 .. M - 1 : q = p \div M /\ s = p % M /\ p = M * q + s
    <3>1. p \div M \in Int /\ p % M \in 0 .. M - 1 /\ p = M * (p \div M) + (p % M)
      BY <1>1, Division
    <3> QED BY <3>1
  <2>3. RefAt(x) <=> s = 0
    BY <1>3, <2>1, <2>2 DEF RefAt
  <2>4. RefsBelow(x) = 1 + ((p + (M - 1)) \div M) /\ RefsBelow(x + 1) = 1 + ((p + M) \div M)
    <3>1. (x + 1) - 1 + (M - 1) = p + M /\ x + 1 # 0
      BY <1>1, <2>1
    <3> QED BY <1>3, <2>1, <3>1 DEF RefsBelow
  <2>5. (p + M) \div M = q + 1
    <3>1. \A i \in Int : (i + M) \div M = (i \div M) + 1
      BY <1>1, QuotientNext
    <3>2. p \in Int
      OBVIOUS
    <3> QED BY <2>2, <3>1, <3>2
  <2>6. CASE s = 0
    <3>1. p + (M - 1) = M * q + (M - 1) /\ M - 1 \in 0 .. M - 1
      BY <1>1, <2>2, <2>6
    <3>2. (M * q + (M - 1)) \div M = q
      BY <1>1, <2>2, <3>1, Quotient
    <3> QED BY <2>2, <2>3, <2>4, <2>5, <2>6, <3>1, <3>2
  <2>7. CASE s # 0
    <3>1. p + (M - 1) = M * (q + 1) + (s - 1) /\ s - 1 \in 0 .. M - 1 /\ q + 1 \in Int
      BY <1>1, <2>2, <2>7
    <3>2. (M * (q + 1) + (s - 1)) \div M = q + 1
      BY <1>1, <3>1, Quotient
    <3> QED BY <2>2, <2>3, <2>4, <2>5, <2>7, <3>1, <3>2
  <2> QED BY <2>6, <2>7
<1> QED BY <1>2, <1>3

LEMMA AfterTyped ==
  ASSUME FieldsOK, NEW f \in Nat, f < nframes
  PROVE  /\ EndAt(f) \in Nat /\ f + 1 <= EndAt(f)
         /\ RefsAfter(f) \in Nat /\ OthersAfter(f) \in Nat
<1>1. N \in Nat \ {0} /\ M \in Nat \ {0} /\ nframes \in Nat
  BY DEF FieldsOK
<1>2. PICK t \in Int : f + (M - 1) < t + N /\ NextStart(f) = t + N - (M - 1)
  BY StartIs
<1>3. EndAt(f) = IF t + N - (M - 1) < nframes THEN t + N - (M - 1) ELSE nframes
  BY <1>2 DEF EndAt, Lesser
<1>4. PICK e \in Nat : e = EndAt(f) /\ f + 1 <= e
  BY <1>1, <1>2, <1>3
<1>5. PICK x \in Nat \ {0} : x = f + 1
  OBVIOUS
<1>6. /\ RefsBelow(x) \in Int /\ RefsBelow(e) \in Int
      /\ RefsBelow(x) <= RefsBelow(e) /\ RefsBelow(e) - RefsBelow(x) <= e - x
  BY <1>4, <1>5, RefsBetween
<1>7. RefsAfter(f) = RefsBelow(e) - RefsBelow(x) /\ OthersAfter(f) = e - x - RefsAfter(f)
  BY <1>4, <1>5 DEF RefsAfter, OthersAfter
<1> HIDE DEF EndAt, RefsAfter, OthersAfter
<1> QED BY <1>4, <1>5, <1>6, <1>7

(* Only an I picture opens a group.                                        *)
LEMMA SameGroup ==
  ASSUME FieldsOK, NEW f \in Nat \ {0}, ~(RefAt(f) /\ f = StartAt(f))
  PROVE  NextStart(f - 1) = NextStart(f)
<1>1. N \in Nat \ {0} /\ M \in Nat \ {0}
  BY DEF FieldsOK
<1>2. PICK t \in Int : /\ t % M = 0 /\ t % N = 0
                       /\ t <= f + (M - 1) /\ f + (M - 1) < t + N
                       /\ StartAt(f) = IF t - (M - 1) < 0 THEN 0 ELSE t - (M - 1)
                       /\ NextStart(f) = t + N - (M - 1)
  BY StartIs
<1>3. t # f + (M - 1)
  <2> SUFFICES ASSUME t = f + (M - 1) PROVE FALSE
    OBVIOUS
  <2>1. StartAt(f) = f
    BY <1>1, <1>2
  <2>2. M \in 1 .. M /\ t - M = f - 1
    BY <1>1
  <2>3. (t - M) % M = M - M
    BY <1>1, <1>2, <2>2, BackFromMultiple
  <2> QED BY <1>1, <2>1, <2>2, <2>3 DEF RefAt
<1>4. PICK q \in Int : t = N * q
  BY <1>1, <1>2, Multiple
<1>5. PICK r \in 0 .. N - 1 : r = (f - 1) + (M - 1) - t
  BY <1>1, <1>2, <1>3
<1>6. (f - 1) + (M - 1) = N * q + r
  BY <1>1, <1>4, <1>5
<1>7. ((f - 1) + (M - 1)) \div N = q
  BY <1>1, <1>6, Quotient
<1> QED BY <1>2, <1>4, <1>7 DEF NextStart

(* A group ends where the next one starts.                                 *)
LEMMA GroupAfterGroup ==
  ASSUME FieldsOK, NEW f \in Nat \ {0}, f = StartAt(f)
  PROVE  NextStart(f - 1) = f
<1>1. N \in Nat \ {0} /\ M \in Nat \ {0}
  BY DEF FieldsOK
<1>2. PICK t \in Int : /\ t % N = 0
                       /\ StartAt(f) = IF t - (M - 1) < 0 THEN 0 ELSE t - (M - 1)
  BY StartIs
<1>3. t = f + (M - 1)
  BY <1>1, <1>2
<1>4. PICK q \in Int : t = N * q
  BY <1>1, <1>2, Multiple
<1>5. (f - 1) + (M - 1) = N * (q - 1) + (N - 1) /\ q - 1 \in Int /\ N - 1 \in 0 .. N - 1
  BY <1>1, <1>3, <1>4
<1>6. (N * (q - 1) + (N - 1)) \div N = q - 1
  BY <1>1, <1>5, Quotient
<1>7. NextStart(f - 1) = N * (q - 1) + N - (M - 1)
  BY <1>5, <1>6 DEF NextStart
<1>8. N * (q - 1) + N = N * q
  BY <1>1
<1> QED BY <1>1, <1>3, <1>4, <1>7, <1>8

LEMMA AfterNext ==
  ASSUME FieldsOK, NEW f \in Nat \ {0}, f < nframes, ~(RefAt(f) /\ f = StartAt(f))
  PROVE  /\ RefsAfter(f - 1) = RefsAfter(f) + (IF RefAt(f) THEN 1 ELSE 0)
         /\ OthersAfter(f - 1) = OthersAfter(f) + (IF RefAt(f) THEN 0 ELSE 1)
<1>1. EndAt(f - 1) = EndAt(f)
  BY SameGroup DEF EndAt
<1>2. EndAt(f) \in Nat /\ RefsAfter(f) \in Nat
  BY AfterTyped
<1>3. RefsBelow(f) \in Int /\ RefsBelow(f + 1) = RefsBelow(f) + (IF RefAt(f) THEN 1 ELSE 0)
  BY RefsNext
<1>4. PICK e \in Nat : e = EndAt(f)
  BY <1>2
<1>5. RefsBelow(e) \in Int
  BY <1>4, RefsNext
<1>6. RefsAfter(f) = RefsBelow(e) - RefsBelow(f + 1) /\ RefsAfter(f - 1) = RefsBelow(e) - RefsBelow(f)
      /\ OthersAfter(f) = e - (f + 1) - RefsAfter(f) /\ OthersAfter(f - 1) = e - f - RefsAfter(f - 1)
  <2>1. (f - 1) + 1 = f
    OBVIOUS
  <2> QED BY <1>1, <1>4, <2>1 DEF RefsAfter, OthersAfter
<1> QED BY <1>2, <1>3, <1>4, <1>5, <1>6

LEMMA NoneAfterTheLast ==
  ASSUME FieldsOK, NEW f \in Nat \ {0}, f <= nframes, f = StartAt(f) \/ f = nframes
  PROVE  RefsAfter(f - 1) = 0 /\ OthersAfter(f - 1) = 0
<1>1. nframes \in Nat
  BY DEF FieldsOK
<1>2. EndAt(f - 1) = f
  <2>1. CASE f = StartAt(f)
    BY <1>1, <2>1, GroupAfterGroup DEF EndAt, Lesser
  <2>2. CASE f = nframes
    <3>1. PICK g \in Nat : g = f - 1 /\ g < nframes
      BY <2>2
    <3>2. g + 1 <= EndAt(g) /\ EndAt(g) \in Nat
      BY <3>1, AfterTyped
    <3>3. EndAt(g) = nframes \/ EndAt(g) < nframes
      BY DEF EndAt, Lesser
    <3> QED BY <1>1, <2>2, <3>1, <3>2, <3>3
  <2> QED BY <2>1, <2>2
<1>3. RefsBelow(f) \in Int /\ (f - 1) + 1 = f
  BY RefsNext
<1>4. RefsAfter(f - 1) = RefsBelow(f) - RefsBelow(f)
  BY <1>2, <1>3 DEF RefsAfter
<1>5. OthersAfter(f - 1) = f - f - RefsAfter(f - 1)
  BY <1>2, <1>3 DEF OthersAfter
<1> QED BY <1>3, <1>4, <1>5
(* The budget an I picture starts its group with are the pictures that     *)
(* come after it.                                                          *)
LEMMA BudgetOfFirst ==
  ASSUME FieldsOK, frame = 0
  PROVE  GroupBudget = [np |-> RefsAfter(0), nb |-> OthersAfter(0)]
<1>1. N \in Nat \ {0} /\ M \in Nat \ {0} /\ N % M = 0 /\ nframes \in Nat \ {0}
  BY DEF FieldsOK
<1>2. M <= N
  BY <1>1, MultipleAtLeast
<1>3. NextStart(0) = N - (M - 1)
  <2>1. M - 1 \in 0 .. N - 1 /\ 0 + (M - 1) = N * 0 + (M - 1) /\ 0 \in Int
    BY <1>1, <1>2
  <2>2. (0 + (M - 1)) \div N = 0
    BY <1>1, <2>1, Quotient
  <2> QED BY <1>1, <2>2 DEF NextStart
<1>4. GroupStart = 0
  <2>1. StartAt(0) = 0
    <3>1. PICK t \in Int : /\ t <= 0 + (M - 1)
                           /\ StartAt(0) = IF t - (M - 1) < 0 THEN 0 ELSE t - (M - 1)
      BY StartIs
    <3> QED BY <1>1, <3>1
  <2> QED BY <2>1, PlaceOfFrame
<1>5. PICK n \in Nat \ {0} : n = EndAt(0)
  BY <1>1, AfterTyped
<1>6. Lesser(IF frame = 0 THEN N - (M-1) ELSE N, nframes - GroupStart) = n
  BY <1>1, <1>3, <1>4, <1>5 DEF EndAt, Lesser
<1>7. PICK a \in Nat : a = n - 1 + (M - 1)
  BY <1>1
<1>8. (a + M) \div M = (a \div M) + 1 /\ a \div M \in Int
  <2>1. a \in Int
    OBVIOUS
  <2> QED BY <1>1, <2>1, QuotientNext, Division
<1>9. CDiv(n + 2*(M-1), M) = (a \div M) + 1
  <2>1. n + 2*(M-1) = a + M /\ n + 2*(M-1) >= 0
    BY <1>1, <1>7
  <2> QED BY <1>8, <2>1 DEF CDiv
<1>10. RefsAfter(0) = a \div M
  <2>1. RefsBelow(n) = 1 + (a \div M) /\ 0 + 1 = 1 /\ 0 \in Nat
    BY <1>7 DEF RefsBelow
  <2>2. RefsBelow(0 + 1) = RefsBelow(0) + (IF RefAt(0) THEN 1 ELSE 0)
    BY <2>1, RefsNext
  <2>3. RefsBelow(1) = 1
    BY <2>1, <2>2 DEF RefsBelow, RefAt
  <2> QED BY <1>5, <1>8, <2>1, <2>3 DEF RefsAfter
<1>11. OthersAfter(0) = n - (a \div M) - 1
  BY <1>5, <1>8, <1>10 DEF OthersAfter
<1>12. GroupBudget = [np |-> CDiv(n + 2*(M-1), M) - 1, nb |-> n - (CDiv(n + 2*(M-1), M) - 1) - 1]
  BY <1>6 DEF GroupBudget
<1> QED BY <1>8, <1>9, <1>10, <1>11, <1>12

LEMMA BudgetOfLater ==
  ASSUME FieldsOK, frame # 0, frame < nframes, RefAt(frame), frame = StartAt(frame)
  PROVE  GroupBudget = [np |-> RefsAfter(frame), nb |-> OthersAfter(frame)]
<1>1. N \in Nat \ {0} /\ M \in Nat \ {0} /\ nframes \in Nat \ {0}
  BY DEF FieldsOK
<1>2. PICK f \in Nat \ {0} : f = frame /\ f < nframes
  BY DEF FieldsOK
<1>3. NextStart(f) = f + N
  <2>1. PICK t \in Int : /\ StartAt(f) = IF t - (M - 1) < 0 THEN 0 ELSE t - (M - 1)
                         /\ NextStart(f) = t + N - (M - 1)
    BY StartIs
  <2>2. t = f + (M - 1)
    BY <1>1, <1>2, <2>1
  <2> QED BY <1>1, <2>1, <2>2
<1>4. GroupStart = f
  BY <1>2, PlaceOfFrame
<1>5. PICK e \in Nat, n \in Nat \ {0} : e = EndAt(f) /\ n = e - f
  <2>1. EndAt(f) \in Nat /\ f + 1 <= EndAt(f)
    BY <1>2, AfterTyped
  <2> QED BY <2>1
<1>6. Lesser(IF frame = 0 THEN N - (M-1) ELSE N, nframes - GroupStart) = n
  BY <1>1, <1>2, <1>3, <1>4, <1>5 DEF EndAt, Lesser
<1>7. PICK a \in Int : f - 1 = M * a
  <2>1. (f - 1) % M = 0 /\ f - 1 \in Int
    BY <1>2 DEF RefAt
  <2> QED BY <1>1, <2>1, Multiple
<1>8. PICK b \in Nat, q \in Int, s \in 0 .. M - 1 : b = n + (M - 1) /\ q = b \div M /\ b = M * q + s
  <2>1. PICK b \in Nat : b = n + (M - 1)
    BY <1>1
  <2>2. b \div M \in Int /\ b % M \in 0 .. M - 1 /\ b = M * (b \div M) + (b % M)
    BY <1>1, Division
  <2> QED BY <2>1, <2>2
<1>9. CDiv(n + (M-1), M) = q
  BY <1>8 DEF CDiv
<1>10. RefsBelow(e) = 1 + a + q
  <2>1. M * (a + q) = M * a + M * q /\ a + q \in Int
    BY <1>1
  <2>2. e - 1 + (M - 1) = M * (a + q) + s
    <3>1. PICK x \in Int, y \in Int : x = M * a /\ y = M * q /\ f - 1 = x /\ b = y + s
      BY <1>1, <1>7, <1>8
    <3>2. M * (a + q) = x + y
      BY <2>1, <3>1
    <3>3. e = f + n /\ b = n + (M - 1)
      BY <1>5, <1>8
    <3>4. e - 1 + (M - 1) = (x + y) + s
      BY <1>1, <3>1, <3>3
    <3> QED BY <3>2, <3>4
  <2>3. (M * (a + q) + s) \div M = a + q
    BY <1>1, <2>1, Quotient
  <2>4. e # 0
    BY <1>5
  <2> QED BY <2>1, <2>2, <2>3, <2>4 DEF RefsBelow
<1>11. RefsBelow(f) = 1 + a
  <2>1. f - 1 + (M - 1) = M * a + (M - 1) /\ M - 1 \in 0 .. M - 1
    BY <1>1, <1>7
  <2>2. (M * a + (M - 1)) \div M = a
    BY <1>1, <2>1, Quotient
  <2> QED BY <2>1, <2>2 DEF RefsBelow
<1>12. RefsBelow(f + 1) = 2 + a
  <2>1. RefsBelow(f + 1) = RefsBelow(f) + (IF RefAt(f) THEN 1 ELSE 0)
    BY RefsNext
  <2> QED BY <1>2, <1>11, <2>1
<1>13. RefsAfter(f) = q - 1
  BY <1>5, <1>10, <1>12 DEF RefsAfter
<1>14. OthersAfter(f) = n - (q - 1) - 1
  BY <1>5, <1>13 DEF OthersAfter
<1>15. GroupBudget = [np |-> CDiv(n + (M-1), M) - 1, nb |-> n - (CDiv(n + (M-1), M) - 1) - 1]
  BY <1>6 DEF GroupBudget
<1> QED BY <1>2, <1>9, <1>13, <1>14, <1>15

LEMMA FirstOpensAGroup ==
  ASSUME FieldsOK
  PROVE  RefAt(0) /\ StartAt(0) = 0
<1>1. M \in Nat \ {0}
  BY DEF FieldsOK
<1>2. PICK t \in Int : /\ t <= 0 + (M - 1)
                       /\ StartAt(0) = IF t - (M - 1) < 0 THEN 0 ELSE t - (M - 1)
  BY StartIs
<1> QED BY <1>1, <1>2 DEF RefAt

(* What rate control counts on before and after the picture of the frame.  *)
LEMMA BudgetOfPicture ==
  ASSUME FieldsOK, BudgetOK, failures = 0, frame < nframes
  PROVE  /\ rc_update_pict(Pictures) = [np |-> Times(RefsAfter(frame)), nb |-> Times(OthersAfter(frame))]
         /\ PictType = "P" => Planned.np >= Pictures
         /\ PictType = "B" => Planned.nb >= Pictures
         /\ PictType = "I" => Planned.np >= Pictures - 1 /\ Planned.nb >= 0
<1>1. /\ IsReference <=> RefAt(frame)
      /\ GroupStart = StartAt(frame)
  BY PlaceOfFrame
<1>2. frame \in Nat /\ nframes \in Nat /\ fieldpic \in BOOLEAN
  BY DEF FieldsOK
<1>3. PICK r \in Nat, o \in Nat : r = RefsAfter(frame) /\ o = OthersAfter(frame)
  BY <1>2, AfterTyped
<1>4. CASE PictType = "I"
  <2>1. RefAt(frame) /\ frame = StartAt(frame)
    BY <1>1, <1>4 DEF PictType
  <2>2. GroupBudget = [np |-> r, nb |-> o]
    BY <1>3, <2>1, BudgetOfFirst, BudgetOfLater
  <2>3. Planned = [np |-> IF fieldpic THEN 2 * r + 1 ELSE r, nb |-> IF fieldpic THEN 2 * o ELSE o]
    BY <1>4, <2>2 DEF Planned, rc_init_GOP
  <2>4. rc_update_pict(Pictures) =
          [np |-> Planned.np - (IF fieldpic THEN 1 ELSE 0), nb |-> Planned.nb - 0]
    BY <1>2, <1>4 DEF rc_update_pict, Pictures
  <2>5. rc_update_pict(Pictures) = [np |-> IF fieldpic THEN 2 * r ELSE r, nb |-> IF fieldpic THEN 2 * o ELSE o]
    BY <1>2, <2>3, <2>4
  <2> QED BY <1>2, <1>3, <1>4, <2>3, <2>5 DEF Times, Pictures
<1>5. CASE PictType # "I"
  <2>1. ~(RefAt(frame) /\ frame = StartAt(frame)) /\ frame # 0
        /\ PictType = IF RefAt(frame) THEN "P" ELSE "B"
    BY <1>1, <1>5, FirstOpensAGroup DEF PictType
  <2>2. RefsAfter(frame - 1) = r + (IF RefAt(frame) THEN 1 ELSE 0)
        /\ OthersAfter(frame - 1) = o + (IF RefAt(frame) THEN 0 ELSE 1)
    BY <1>2, <1>3, <2>1, AfterNext
  <2>3. Planned = [np |-> Times(RefsAfter(frame - 1)), nb |-> Times(OthersAfter(frame - 1))]
    BY <1>2, <1>5, <2>1 DEF Planned, BudgetOK
  <2>4. CASE RefAt(frame)
    <3>1. PictType = "P" /\ Planned = [np |-> Times(r + 1), nb |-> Times(o)]
      BY <1>3, <2>1, <2>2, <2>3, <2>4
    <3>2. rc_update_pict(Pictures) = [np |-> Times(r + 1) - Pictures, nb |-> Times(o) - 0]
      BY <3>1 DEF rc_update_pict
    <3>3. Times(r + 1) - Pictures = Times(r) /\ Times(o) - 0 = Times(o) /\ Times(r + 1) >= Pictures
      BY <1>2 DEF Times, Pictures
    <3> QED BY <1>3, <3>1, <3>2, <3>3
  <2>5. CASE ~RefAt(frame)
    <3>1. PictType = "B" /\ Planned = [np |-> Times(r), nb |-> Times(o + 1)]
      BY <1>3, <2>1, <2>2, <2>3, <2>5
    <3>2. rc_update_pict(Pictures) = [np |-> Times(r) - 0, nb |-> Times(o + 1) - Pictures]
      BY <3>1 DEF rc_update_pict
    <3>3. Times(o + 1) - Pictures = Times(o) /\ Times(r) - 0 = Times(r) /\ Times(o + 1) >= Pictures
      BY <1>2 DEF Times, Pictures
    <3> QED BY <1>3, <3>1, <3>2, <3>3
  <2> QED BY <2>4, <2>5
<1> QED BY <1>4, <1>5
LEMMA BudgetInit == Init => BudgetOK /\ PlansOK
<1> SUFFICES ASSUME Init PROVE BudgetOK /\ PlansOK
  OBVIOUS
<1>1. frame = 0 /\ Written = {}
  BY DEF Init, Written, ToSet
<1> QED BY <1>1 DEF BudgetOK, PlansOK

LEMMA BudgetStep == Inv /\ BudgetOK /\ PlansOK /\ [Next]_vars => BudgetOK' /\ PlansOK'
<1> SUFFICES ASSUME Inv, BudgetOK, PlansOK, [Next]_vars PROVE BudgetOK' /\ PlansOK'
  OBVIOUS
<1>1. FieldsOK /\ frame \in Nat /\ nframes \in Nat
  BY DEF Inv, FieldsOK
<1>2. CASE SimpegWrite_putseq_encode_bitmap
  <2>1. /\ N' = N /\ M' = M /\ nframes' = nframes /\ fieldpic' = fieldpic
        /\ frame' = frame + 1 /\ failures' = failures /\ left' = rc_update_pict(Pictures)
    BY <1>2 DEF SimpegWrite_putseq_encode_bitmap, shape
  <2>2. Pictures' = Pictures /\ \A n \in Int : Times(n)' = Times(n)
    BY <2>1 DEF Pictures, Times
  <2>3. \A f \in Int : RefsAfter(f)' = RefsAfter(f) /\ OthersAfter(f)' = OthersAfter(f)
    BY <2>1 DEF RefsAfter, OthersAfter, RefsBelow, EndAt, NextStart
  <2> SUFFICES ASSUME failures' = 0, frame' <= nframes'
      PROVE  /\ frame' # 0 => left' = [np |-> Times(RefsAfter(frame - 1))', nb |-> Times(OthersAfter(frame - 1))']
             /\ \A p \in Written' :
                  /\ p.type = "P" => p.planned.np >= Pictures'
                  /\ p.type = "B" => p.planned.nb >= Pictures'
                  /\ p.type = "I" => p.planned.np >= Pictures' - 1 /\ p.planned.nb >= 0
    BY DEF BudgetOK, PlansOK
  <2>4. frame < nframes /\ frame <= nframes /\ failures = 0 /\ frame' - 1 = frame
    BY <1>1, <2>1
  <2>5. /\ rc_update_pict(Pictures) = [np |-> Times(RefsAfter(frame)), nb |-> Times(OthersAfter(frame))]
        /\ PictType = "P" => Planned.np >= Pictures
        /\ PictType = "B" => Planned.nb >= Pictures
        /\ PictType = "I" => Planned.np >= Pictures - 1 /\ Planned.nb >= 0
    BY <1>1, <2>4, BudgetOfPicture
  <2>6. RefsAfter(frame) \in Int /\ OthersAfter(frame) \in Int
    BY <1>1, <2>4, AfterTyped
  <2>7. left' = [np |-> Times(RefsAfter(frame - 1))', nb |-> Times(OthersAfter(frame - 1))']
    <3>1. Times(RefsAfter(frame - 1))' = Times(RefsAfter(frame))
      BY <1>1, <2>1, <2>3, <2>4 DEF Times
    <3>2. Times(OthersAfter(frame - 1))' = Times(OthersAfter(frame))
      BY <1>1, <2>1, <2>3, <2>4 DEF Times
    <3> QED BY <2>1, <2>5, <3>1, <3>2
  <2>8. NextPicture.type = PictType /\ NextPicture.planned = Planned
    BY DEF NextPicture
  <2> QED BY <1>2, <2>2, <2>4, <2>5, <2>7, <2>8, WrittenGrows DEF PlansOK
<1>3. CASE ~SimpegWrite_putseq_encode_bitmap
  <2>1. Written' = Written /\ frame' = frame /\ (failures' = 0 => failures = 0)
    BY <1>3, WrittenStays
  <2>2. CASE status = "none"
    <3>1. frame = 0 /\ Written = {}
      <4>1. frame = 0 /\ Len(stream) = 0 /\ stream \in Seq(Picture)
        BY <2>2 DEF Inv, CallsOK, FieldsOK
      <4> QED BY <4>1 DEF Written, ToSet
    <3> QED BY <2>1, <3>1 DEF BudgetOK, PlansOK
  <2>3. CASE status # "none"
    <3>1. N' = N /\ M' = M /\ nframes' = nframes /\ fieldpic' = fieldpic
      BY <1>3, <2>3 DEF Next, vars, shape, SimpegWrite_begin_encode, SimpegWrite_encode_bitmap,
         PutReturns, SimpegWrite_error, SimpegWrite_end_encode, EndReturns
    <3>2. failures' = 0 => left' = left
      <4>1. CASE SimpegWrite_error
        BY <4>1, Numbers DEF SimpegWrite_error
      <4>2. CASE ~SimpegWrite_error
        BY <1>3, <2>3, <4>2 DEF Next, vars, SimpegWrite_begin_encode, SimpegWrite_encode_bitmap,
           PutReturns, SimpegWrite_end_encode, EndReturns
      <4> QED BY <4>1, <4>2
    <3>3. Pictures' = Pictures
      BY <3>1 DEF Pictures
    <3>4. PlansOK'
      BY <2>1, <3>1, <3>3 DEF PlansOK
    <3>5. BudgetOK'
      BY <2>1, <3>1, <3>2 DEF BudgetOK, Times, RefsAfter, OthersAfter, RefsBelow, EndAt, NextStart
    <3> QED BY <3>4, <3>5
  <2> QED BY <2>2, <2>3
<1> QED BY <1>2, <1>3

(* While nothing fails and no more frames are put than announced, rate     *)
(* control counts on one more picture at every picture it plans, and on    *)
(* none once a group is complete, for every shape of the groups and also   *)
(* for a last group the end of the movie cuts short.                       *)
THEOREM GroupsAlwaysKeepBudget == Spec => []GroupsKeepBudget
<1>1. Inv /\ BudgetOK /\ PlansOK => GroupsKeepBudget
  <2> SUFFICES ASSUME Inv, BudgetOK, PlansOK, failures = 0, frame <= nframes, frame > 0,
                      PictType = "I" \/ frame = nframes
               PROVE  left.np = 0 /\ left.nb = 0
    BY DEF PlansOK, GroupsKeepBudget
  <2>1. FieldsOK /\ frame \in Nat \ {0}
    BY DEF Inv, FieldsOK
  <2>2. frame = StartAt(frame) \/ frame = nframes
    BY PlaceOfFrame DEF PictType
  <2>3. RefsAfter(frame - 1) = 0 /\ OthersAfter(frame - 1) = 0
    BY <2>1, <2>2, NoneAfterTheLast
  <2>4. left = [np |-> Times(0), nb |-> Times(0)]
    BY <2>1, <2>3 DEF BudgetOK
  <2>5. Times(0) = 0
    BY DEF Times
  <2> QED BY <2>4, <2>5
<1> QED BY <1>1, Invariant, BudgetInit, BudgetStep, PTL DEF Spec

=============================================================================
