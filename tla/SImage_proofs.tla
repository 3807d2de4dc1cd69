---------------------------- MODULE SImage_proofs ----------------------------
(***************************************************************************)
(* Proofs about the image objects (SImage): whatever sequence of calls is  *)
(* made on any number of images, every buffer, handle and name has one     *)
(* owner and every buffer holds its image's picture.  Inv adds to the      *)
(* checked invariants what the fallback of s_image_read_line() relies on:  *)
(* an image with no buffer still shows the file it was opened from.        *)
(***************************************************************************)
EXTENDS SImage, TLAPS

FromItsFile ==
  \A i \in live : data[i] = Null =>
    /\ ~didalloc[i] /\ i \notin spoilt
    /\ name[i] \in Files /\ shows[i] = name[i]

Inv ==
  /\ TypeOK
  /\ DataOwned /\ HandleOwned /\ NameOwned /\ NothingShared
  /\ FromItsFile
  /\ PixelsAreTheImage

LEMMA InvInit == Init => Inv
<1>1. AnySize \in Sizes
  BY SizesAssumption DEF AnySize
<1> SUFFICES ASSUME Init PROVE Inv
  OBVIOUS
<1>2. TypeOK
  <2>1. data \in [Images -> Blocks \cup {Null}] /\ opendata \in [Images -> Blocks \cup {Null}]
        /\ openfilename \in [Images -> Blocks \cup {Null}]
        /\ name \in [Images -> Files \cup {Null}]
    BY DEF Init
  <2>2. size \in [Images -> Sizes] /\ shows \in [Images -> Pictures]
        /\ pixels \in [Blocks -> Pictures]
    BY <1>1 DEF Init, Pictures
  <2>3. heap \in [Blocks -> {"free", "client", "pixels", "name", "handle"}]
    BY DEF Init
  <2>4. didalloc \in [Images -> BOOLEAN] /\ oktoreadall \in [Images -> BOOLEAN]
    BY DEF Init
  <2> QED BY <2>1, <2>2, <2>3, <2>4 DEF Init, TypeOK, Nothing, Outputs
<1> QED BY <1>2 DEF Init, Inv, DataOwned, HandleOwned, NameOwned, NothingShared, FromItsFile,
     PixelsAreTheImage

(* The client allocates a buffer. *)
LEMMA ClientAllocatesKeepsInv ==
  ASSUME Inv, NEW b \in Blocks, ClientAllocates(b)
  PROVE  Inv'
<1> USE NullAssumption, SizesAssumption, FilesAssumption DEF Inv, fields, history, ClientAllocates
<1>1. TypeOK'
  BY DEF TypeOK, Pictures, Nothing, Outputs, AnySize, DataOwned
<1>2. DataOwned'
  BY DEF DataOwned, HandleOwned, NameOwned, NothingShared, TypeOK
<1>3. HandleOwned'
  BY DEF DataOwned, HandleOwned, NameOwned, NothingShared, TypeOK
<1>4. NameOwned'
  BY DEF DataOwned, HandleOwned, NameOwned, NothingShared, TypeOK
<1>5. NothingShared'
  BY DEF DataOwned, HandleOwned, NameOwned, NothingShared, TypeOK
<1>6. FromItsFile'
  BY DEF FromItsFile, TypeOK
<1>7. PixelsAreTheImage'
  BY DEF PixelsAreTheImage, FromItsFile, DataOwned, HandleOwned, NameOwned, NothingShared, TypeOK, Pictures
<1> QED BY <1>1, <1>2, <1>3, <1>4, <1>5, <1>6, <1>7

(* The client frees a buffer no image uses. *)
LEMMA ClientFreesKeepsInv ==
  ASSUME Inv, NEW b \in Blocks, ClientFrees(b)
  PROVE  Inv'
<1> USE NullAssumption, SizesAssumption, FilesAssumption DEF Inv, fields, history, ClientFrees, UsedBy, Holding
<1>1. TypeOK'
  BY DEF TypeOK, Pictures, Nothing, Outputs, AnySize, DataOwned
<1>2. DataOwned'
  BY DEF DataOwned, HandleOwned, NameOwned, NothingShared, TypeOK
<1>3. HandleOwned'
  BY DEF DataOwned, HandleOwned, NameOwned, NothingShared, TypeOK
<1>4. NameOwned'
  BY DEF DataOwned, HandleOwned, NameOwned, NothingShared, TypeOK
<1>5. NothingShared'
  BY DEF DataOwned, HandleOwned, NameOwned, NothingShared, TypeOK
<1>6. FromItsFile'
  BY DEF FromItsFile, TypeOK
<1>7. PixelsAreTheImage'
  BY DEF PixelsAreTheImage, FromItsFile, DataOwned, HandleOwned, NameOwned, NothingShared, TypeOK, Pictures
<1> QED BY <1>1, <1>2, <1>3, <1>4, <1>5, <1>6, <1>7

(* s_image_create *)
LEMMA CreateKeepsInv ==
  ASSUME Inv, NEW i \in Images, NEW s \in Sizes, s_image_create(i, s)
  PROVE  Inv'
<1> USE NullAssumption, SizesAssumption, FilesAssumption DEF Inv, fields, history, s_image_create, NewImage, WithoutFile, FreeBlocks, UsedBy
<1>1. TypeOK'
  <2>1. heap' \in [Blocks -> {"free", "client", "pixels", "name", "handle"}]
    BY DEF TypeOK
  <2>2. pixels' \in [Blocks -> Pictures]
    BY DEF TypeOK, Pictures
  <2>3. data' \in [Images -> Blocks \cup {Null}]
    BY DEF TypeOK
  <2>6. didalloc' \in [Images -> BOOLEAN]
    BY DEF TypeOK
  <2>4. shows' \in [Images -> Pictures]
    BY DEF TypeOK, Pictures
  <2>5. out' \in Outputs
    BY DEF Outputs, Nothing
  <2> QED BY <2>1, <2>2, <2>3, <2>4, <2>5, <2>6 DEF TypeOK
<1>2. DataOwned'
  BY DEF DataOwned, HandleOwned, NameOwned, NothingShared, TypeOK
<1>3. HandleOwned'
  BY DEF DataOwned, HandleOwned, NameOwned, NothingShared, TypeOK
<1>4. NameOwned'
  BY DEF DataOwned, HandleOwned, NameOwned, NothingShared, TypeOK
<1>5. NothingShared'
  BY DEF DataOwned, HandleOwned, NameOwned, NothingShared, TypeOK
<1>6. FromItsFile'
  BY DEF FromItsFile, TypeOK
<1>7. PixelsAreTheImage'
  BY DEF PixelsAreTheImage, FromItsFile, DataOwned, HandleOwned, NameOwned, NothingShared, TypeOK, Pictures
<1> QED BY <1>1, <1>2, <1>3, <1>4, <1>5, <1>6, <1>7

(* s_image_destroy *)
LEMMA DestroyKeepsInv ==
  ASSUME Inv, NEW i \in Images, s_image_destroy(i)
  PROVE  Inv'
<1> USE NullAssumption, SizesAssumption, FilesAssumption DEF Inv, fields, history, s_image_destroy, Owned, Release, Holding
<1>1. TypeOK'
  BY DEF TypeOK, Pictures, Nothing, Outputs, AnySize, DataOwned
<1>2. DataOwned'
  BY DEF DataOwned, HandleOwned, NameOwned, NothingShared, TypeOK
<1>3. HandleOwned'
  BY DEF DataOwned, HandleOwned, NameOwned, NothingShared, TypeOK
<1>4. NameOwned'
  BY DEF DataOwned, HandleOwned, NameOwned, NothingShared, TypeOK
<1>5. NothingShared'
  BY DEF DataOwned, HandleOwned, NameOwned, NothingShared, TypeOK
<1>6. FromItsFile'
  BY DEF FromItsFile, TypeOK
<1>7. PixelsAreTheImage'
  BY DEF PixelsAreTheImage, FromItsFile, DataOwned, HandleOwned, NameOwned, NothingShared, TypeOK, Pictures
<1> QED BY <1>1, <1>2, <1>3, <1>4, <1>5, <1>6, <1>7

(* s_image_set with copydata *)
LEMMA SetCopyKeepsInv ==
  ASSUME Inv, NEW i \in Images, NEW s \in Sizes, NEW src \in Blocks, s_image_set(i, s, src, TRUE)
  PROVE  Inv'
<1> USE NullAssumption, SizesAssumption, FilesAssumption DEF Inv, fields, history, s_image_set, SetByCopy, KeepsBuffer, OwnedData, Release, Holding
<1>a. i \in Images /\ i \in live /\ src \in Blocks /\ heap[src] = "client" /\ src # data[i]
      /\ (didalloc[i] => data[i] \in Blocks /\ heap[data[i]] = "pixels")
  BY DEF TypeOK, DataOwned, FromItsFile
<1>b. /\ \A c \in Blocks : heap[c] # "free" /\ ~(c = data[i] /\ didalloc[i]) => heap'[c] = heap[c]
      /\ data' \in [Images -> Blocks \cup {Null}] /\ didalloc' \in [Images -> BOOLEAN]
      /\ data'[i] \in Blocks /\ heap'[data'[i]] = "pixels"
      /\ \A j \in Images : j # i => data'[j] = data[j] /\ didalloc'[j] = didalloc[j]
  <2>1. CASE KeepsBuffer(i, s) /\ UNCHANGED <<data, didalloc, heap>>
    BY <1>a, <2>1 DEF TypeOK
  <2>2. CASE ~KeepsBuffer(i, s)
    <3>1. PICK b \in Blocks :
            /\ Release(OwnedData(i))[b] = "free"
            /\ heap' = [Release(OwnedData(i)) EXCEPT ![b] = "pixels"]
            /\ data' = [data EXCEPT ![i] = b]
            /\ didalloc' = [didalloc EXCEPT ![i] = TRUE]
      BY <2>2
    <3>0. \A c \in Blocks :
            Release(OwnedData(i))[c] = IF c = data[i] /\ didalloc[i] THEN "free" ELSE heap[c]
      OBVIOUS
    <3>2. heap[b] = "free" \/ (b = data[i] /\ didalloc[i])
      BY <3>0, <3>1
    <3>3. didalloc' \in [Images -> BOOLEAN]
      BY <3>1, <1>a DEF TypeOK
    <3>4. data' \in [Images -> Blocks \cup {Null}]
      BY <3>1, <1>a DEF TypeOK
    <3>5. \A c \in Blocks : heap[c] # "free" /\ ~(c = data[i] /\ didalloc[i]) => heap'[c] = heap[c]
      BY <3>0, <3>1, <3>2
    <3> QED BY <1>a, <3>1, <3>3, <3>4, <3>5 DEF TypeOK
  <2> QED BY <2>1, <2>2
<1>c. /\ pixels'[data'[i]] = pixels[src]
      /\ \A c \in Blocks : c # data'[i] /\ heap'[c] # "free" => pixels'[c] = pixels[c]
  BY <1>a DEF TypeOK
<1>1. TypeOK'
  <2>1. heap' \in [Blocks -> {"free", "client", "pixels", "name", "handle"}]
    BY DEF TypeOK
  <2>2. pixels' \in [Blocks -> Pictures]
    BY DEF TypeOK, Pictures
  <2>3. data' \in [Images -> Blocks \cup {Null}]
    BY DEF TypeOK
  <2>6. didalloc' \in [Images -> BOOLEAN]
    BY DEF TypeOK
  <2>4. shows' \in [Images -> Pictures]
    BY DEF TypeOK, Pictures
  <2>5. out' \in Outputs
    BY DEF Outputs, Nothing
  <2> QED BY <2>1, <2>2, <2>3, <2>4, <2>5, <2>6 DEF TypeOK
<1>2. DataOwned'
  BY <1>a, <1>b DEF DataOwned, NothingShared, TypeOK
<1>3. HandleOwned'
  BY <1>a, <1>b DEF HandleOwned, TypeOK
<1>4. NameOwned'
  BY <1>a, <1>b DEF NameOwned, TypeOK
<1>5. NothingShared'
  BY DEF DataOwned, HandleOwned, NameOwned, NothingShared, TypeOK
<1>6. FromItsFile'
  BY DEF FromItsFile, TypeOK
<1>7. PixelsAreTheImage'
  <2> SUFFICES ASSUME NEW j \in live, j \notin spoilt', data'[j] # Null
               PROVE  pixels'[data'[j]] = shows'[j]
    BY DEF PixelsAreTheImage
  <2>1. CASE j = i
    BY <2>1, <1>a, <1>c DEF TypeOK
  <2>2. CASE j # i
    <3>1. data'[j] = data[j] /\ data[j] \in Blocks /\ data'[j] # data'[i]
      BY <2>2, <1>b, <1>5 DEF NothingShared, TypeOK
    <3>2. heap'[data[j]] # "free"
      BY <1>2, <3>1 DEF DataOwned
    <3> QED BY <2>2, <3>1, <3>2, <1>c DEF PixelsAreTheImage, TypeOK
  <2> QED BY <2>1, <2>2
<1> QED BY <1>1, <1>2, <1>3, <1>4, <1>5, <1>6, <1>7

(* s_image_set without copydata *)
LEMMA SetAdoptKeepsInv ==
  ASSUME Inv, NEW i \in Images, NEW s \in Sizes, NEW src \in Blocks, s_image_set(i, s, src, FALSE)
  PROVE  Inv'
<1> USE NullAssumption, SizesAssumption, FilesAssumption DEF Inv, fields, history, s_image_set, SetByAdoption, OwnedData, Release, Holding, UsedBy
<1>1. TypeOK'
  <2>1. heap' \in [Blocks -> {"free", "client", "pixels", "name", "handle"}]
    BY DEF TypeOK
  <2>2. pixels' \in [Blocks -> Pictures]
    BY DEF TypeOK, Pictures
  <2>3. data' \in [Images -> Blocks \cup {Null}]
    BY DEF TypeOK
  <2>6. didalloc' \in [Images -> BOOLEAN]
    BY DEF TypeOK
  <2>4. shows' \in [Images -> Pictures]
    BY DEF TypeOK, Pictures
  <2>5. out' \in Outputs
    BY DEF Outputs, Nothing
  <2> QED BY <2>1, <2>2, <2>3, <2>4, <2>5, <2>6 DEF TypeOK
<1>2. DataOwned'
  BY DEF DataOwned, HandleOwned, NameOwned, NothingShared, TypeOK
<1>3. HandleOwned'
  BY DEF DataOwned, HandleOwned, NameOwned, NothingShared, TypeOK
<1>4. NameOwned'
  BY DEF DataOwned, HandleOwned, NameOwned, NothingShared, TypeOK
<1>5. NothingShared'
  BY DEF DataOwned, HandleOwned, NameOwned, NothingShared, TypeOK
<1>6. FromItsFile'
  BY DEF FromItsFile, TypeOK
<1>7. PixelsAreTheImage'
  BY DEF PixelsAreTheImage, FromItsFile, DataOwned, HandleOwned, NameOwned, NothingShared, TypeOK, Pictures
<1> QED BY <1>1, <1>2, <1>3, <1>4, <1>5, <1>6, <1>7

(* s_image_load into a new image *)
LEMMA LoadNewKeepsInv ==
  ASSUME Inv, NEW i \in Images, NEW f \in Files, LoadNew(i, f)
  PROVE  Inv'
<1> USE NullAssumption, SizesAssumption, FilesAssumption DEF Inv, fields, history, LoadNew, NewImage, FreeBlocks
<1>1. TypeOK'
  BY DEF TypeOK, Pictures, Nothing, Outputs, AnySize, DataOwned
<1>2. DataOwned'
  BY DEF DataOwned, HandleOwned, NameOwned, NothingShared, TypeOK
<1>3. HandleOwned'
  BY DEF DataOwned, HandleOwned, NameOwned, NothingShared, TypeOK
<1>4. NameOwned'
  BY DEF DataOwned, HandleOwned, NameOwned, NothingShared, TypeOK
<1>5. NothingShared'
  BY DEF DataOwned, HandleOwned, NameOwned, NothingShared, TypeOK
<1>6. FromItsFile'
  BY DEF FromItsFile, TypeOK
<1>7. PixelsAreTheImage'
  BY DEF PixelsAreTheImage, FromItsFile, DataOwned, HandleOwned, NameOwned, NothingShared, TypeOK, Pictures
<1> QED BY <1>1, <1>2, <1>3, <1>4, <1>5, <1>6, <1>7

(* s_image_load into an image of that size *)
LEMMA CopyIntoKeepsInv ==
  ASSUME Inv, NEW i \in Images, NEW f \in Files, CopyInto(i, f)
  PROVE  Inv'
<1> USE NullAssumption, SizesAssumption, FilesAssumption DEF Inv, fields, history, CopyInto, FreeBlocks
<1>1. TypeOK'
  BY DEF TypeOK, Pictures, Nothing, Outputs, AnySize, DataOwned
<1>2. DataOwned'
  BY DEF DataOwned, HandleOwned, NameOwned, NothingShared, TypeOK
<1>3. HandleOwned'
  BY DEF DataOwned, HandleOwned, NameOwned, NothingShared, TypeOK
<1>4. NameOwned'
  BY DEF DataOwned, HandleOwned, NameOwned, NothingShared, TypeOK
<1>5. NothingShared'
  BY DEF DataOwned, HandleOwned, NameOwned, NothingShared, TypeOK
<1>6. FromItsFile'
  BY DEF FromItsFile, TypeOK
<1>7. PixelsAreTheImage'
  BY DEF PixelsAreTheImage, FromItsFile, DataOwned, HandleOwned, NameOwned, NothingShared, TypeOK, Pictures
<1> QED BY <1>1, <1>2, <1>3, <1>4, <1>5, <1>6, <1>7

(* s_image_open, with an open_func *)
LEMMA OpenLinesKeepsInv ==
  ASSUME Inv, NEW i \in Images, NEW f \in Files, NEW readall \in BOOLEAN, OpenLines(i, f, readall)
  PROVE  Inv'
<1> USE NullAssumption, SizesAssumption, FilesAssumption DEF Inv, fields, history, OpenLines, NewImage, FreeBlocks
<1>1. TypeOK'
  BY DEF TypeOK, Pictures, Nothing, Outputs, AnySize, DataOwned
<1>2. DataOwned'
  BY DEF DataOwned, HandleOwned, NameOwned, NothingShared, TypeOK
<1>3. HandleOwned'
  BY DEF DataOwned, HandleOwned, NameOwned, NothingShared, TypeOK
<1>4. NameOwned'
  BY DEF DataOwned, HandleOwned, NameOwned, NothingShared, TypeOK
<1>5. NothingShared'
  BY DEF DataOwned, HandleOwned, NameOwned, NothingShared, TypeOK
<1>6. FromItsFile'
  BY DEF FromItsFile, TypeOK
<1>7. PixelsAreTheImage'
  BY DEF PixelsAreTheImage, FromItsFile, DataOwned, HandleOwned, NameOwned, NothingShared, TypeOK, Pictures
<1> QED BY <1>1, <1>2, <1>3, <1>4, <1>5, <1>6, <1>7

(* The fallback of s_image_read_line *)
LEMMA FallsBackKeepsInv ==
  ASSUME Inv, NEW i \in live, FallsBack(i)
  PROVE  Inv'
<1> USE NullAssumption, SizesAssumption, FilesAssumption DEF Inv, fields, history, FallsBack, Release, Delivers
<1>a. i \in Images /\ data[i] = Null /\ opendata[i] \in Blocks /\ heap[opendata[i]] = "handle"
      /\ name[i] \in Files /\ ~didalloc[i]
  BY DEF TypeOK, HandleOwned, FromItsFile
<1>b. /\ \A c \in Blocks : heap[c] # "free" /\ c # opendata[i] => heap'[c] = heap[c]
      /\ data' \in [Images -> Blocks \cup {Null}]
      /\ data'[i] # Null => data'[i] \in Blocks /\ heap'[data'[i]] = "pixels"
      /\ \A j \in Images : j # i => data'[j] = data[j]
      /\ pixels' \in [Blocks -> Pictures] /\ size' \in [Images -> Sizes]
      /\ refilled' \subseteq Blocks
      /\ out' \in Outputs
  <2>1. CASE heap' = Release({opendata[i]}) /\ out' = Nothing /\ UNCHANGED <<pixels, data, size, refilled>>
    BY <1>a, <2>1 DEF TypeOK, Nothing, Outputs
  <2>2. CASE ~(heap' = Release({opendata[i]}) /\ out' = Nothing
               /\ UNCHANGED <<pixels, data, size, refilled>>)
    <3>0. PICK b \in Blocks :
            /\ Release({opendata[i]})[b] = "free"
            /\ heap' = [Release({opendata[i]}) EXCEPT ![b] = "pixels"]
            /\ pixels' = [pixels EXCEPT ![b] = name[i]]
            /\ data' = [data EXCEPT ![i] = b]
            /\ size' = [size EXCEPT ![i] = SizeOf[name[i]]]
            /\ refilled' = refilled \cup {b}
            /\ Delivers(i, name[i])
      BY <2>2
    <3>1. heap[b] = "free" \/ b = opendata[i]
      BY <3>0
    <3>2. \A c \in Blocks : heap[c] # "free" /\ c # opendata[i] => heap'[c] = heap[c]
      BY <3>0, <3>1
    <3>3. name[i] \in Pictures /\ shows[i] \in Pictures
      BY <1>a DEF Pictures, TypeOK
    <3>4. pixels' \in [Blocks -> Pictures]
      BY <3>0, <3>3 DEF TypeOK
    <3>5. size' \in [Images -> Sizes]
      BY <3>0, <1>a DEF TypeOK
    <3>6. out' \in Outputs
      BY <1>a, <3>0, <3>3 DEF Outputs
    <3>7. data' \in [Images -> Blocks \cup {Null}] /\ data'[i] = b
      BY <3>0, <1>a DEF TypeOK
    <3>8. heap'[b] = "pixels"
      BY <3>0
    <3>9. (\A j \in Images : j # i => data'[j] = data[j]) /\ refilled' \subseteq Blocks
      BY <3>0, <1>a DEF TypeOK
    <3> HIDE DEF FallsBack, Release, Delivers, Inv
    <3> QED BY ONLY <3>2, <3>4, <3>5, <3>6, <3>7, <3>8, <3>9
  <2> QED BY <2>1, <2>2
<1>1. TypeOK'
  <2>1. heap' \in [Blocks -> {"free", "client", "pixels", "name", "handle"}]
    BY DEF TypeOK
  <2>2. pixels' \in [Blocks -> Pictures]
    BY <1>b
  <2>3. data' \in [Images -> Blocks \cup {Null}]
    BY DEF TypeOK
  <2>6. didalloc' \in [Images -> BOOLEAN]
    BY DEF TypeOK
  <2>4. shows' \in [Images -> Pictures]
    BY DEF TypeOK, Pictures
  <2>5. out' \in Outputs
    BY <1>b
  <2> QED BY <1>b, <2>1, <2>2, <2>3, <2>4, <2>5, <2>6 DEF TypeOK
<1>2. DataOwned'
  BY <1>a, <1>b DEF DataOwned, HandleOwned, TypeOK
<1>3. HandleOwned'
  BY <1>a, <1>b DEF HandleOwned, NothingShared, TypeOK
<1>4. NameOwned'
  BY <1>a, <1>b DEF NameOwned, HandleOwned, TypeOK
<1>5. NothingShared'
  BY DEF DataOwned, HandleOwned, NameOwned, NothingShared, TypeOK
<1>6. FromItsFile'
  BY DEF FromItsFile, TypeOK
<1>7. PixelsAreTheImage'
  BY DEF PixelsAreTheImage, FromItsFile, DataOwned, HandleOwned, NameOwned, NothingShared, TypeOK, Pictures
<1> QED BY <1>1, <1>2, <1>3, <1>4, <1>5, <1>6, <1>7

(* s_image_data of an image opened line by line *)
LEMMA AllocatesKeepsInv ==
  ASSUME Inv, NEW i \in live, AllocatesBuffer(i), out' = Nothing \/ Delivers(i, Garbage)
  PROVE  Inv'
<1> USE NullAssumption, SizesAssumption, FilesAssumption DEF Inv, fields, history, AllocatesBuffer, FreeBlocks, Delivers
<1>1. TypeOK'
  BY DEF TypeOK, Pictures, Nothing, Outputs, AnySize, DataOwned
<1>2. DataOwned'
  BY DEF DataOwned, HandleOwned, NameOwned, NothingShared, TypeOK
<1>3. HandleOwned'
  BY DEF DataOwned, HandleOwned, NameOwned, NothingShared, TypeOK
<1>4. NameOwned'
  BY DEF DataOwned, HandleOwned, NameOwned, NothingShared, TypeOK
<1>5. NothingShared'
  BY DEF DataOwned, HandleOwned, NameOwned, NothingShared, TypeOK
<1>6. FromItsFile'
  BY DEF FromItsFile, TypeOK
<1>7. PixelsAreTheImage'
  BY DEF PixelsAreTheImage, FromItsFile, DataOwned, HandleOwned, NameOwned, NothingShared, TypeOK, Pictures
<1> QED BY <1>1, <1>2, <1>3, <1>4, <1>5, <1>6, <1>7

(* The client draws into a buffer. *)
LEMMA DrawsKeepsInv ==
  ASSUME Inv, NEW i \in Images, ClientDraws(i)
  PROVE  Inv'
<1> USE NullAssumption, SizesAssumption, FilesAssumption DEF Inv, fields, history, ClientDraws
<1>1. TypeOK'
  BY DEF TypeOK, Pictures, Nothing, Outputs, AnySize, DataOwned
<1>2. DataOwned'
  BY DEF DataOwned, HandleOwned, NameOwned, NothingShared, TypeOK
<1>3. HandleOwned'
  BY DEF DataOwned, HandleOwned, NameOwned, NothingShared, TypeOK
<1>4. NameOwned'
  BY DEF DataOwned, HandleOwned, NameOwned, NothingShared, TypeOK
<1>5. NothingShared'
  BY DEF DataOwned, HandleOwned, NameOwned, NothingShared, TypeOK
<1>6. FromItsFile'
  BY DEF FromItsFile, TypeOK
<1>7. PixelsAreTheImage'
  BY DEF PixelsAreTheImage, FromItsFile, DataOwned, HandleOwned, NameOwned, NothingShared, TypeOK, Pictures
<1> QED BY <1>1, <1>2, <1>3, <1>4, <1>5, <1>6, <1>7

(* The steps that only report something. *)
LEMMA DeliveredKeepsInv ==
  ASSUME Inv, NEW i \in live, FromBuffer(i) \/ FromCodec(i) \/ LineFails(i) \/ Crash
  PROVE  Inv'
<1> USE NullAssumption, SizesAssumption, FilesAssumption DEF Inv, fields, history, FromBuffer, FromCodec, LineFails, Crash, Delivers
<1>1. TypeOK'
  <2>1. shows[i] \in Pictures /\ name[i] \in Pictures \cup {Null}
    BY DEF TypeOK, Pictures
  <2>2. data[i] # Null => pixels[data[i]] \in Pictures
    BY DEF TypeOK
  <2>3. out' \in Outputs
    BY <2>1, <2>2 DEF Nothing, Outputs, TypeOK
  <2>4. live' = live /\ heap' = heap /\ pixels' = pixels /\ spoilt' = spoilt
        /\ shows' = shows /\ refilled' = refilled /\ renamed' = renamed
    OBVIOUS
  <2>5. size' = size /\ data' = data /\ didalloc' = didalloc /\ opendata' = opendata
        /\ oktoreadall' = oktoreadall /\ openfilename' = openfilename /\ name' = name
    OBVIOUS
  <2>6. crashed' \in BOOLEAN
    BY DEF TypeOK
  <2> QED BY <2>3, <2>4, <2>5, <2>6 DEF TypeOK
<1>2. DataOwned'
  BY DEF DataOwned, HandleOwned, NameOwned, NothingShared, TypeOK
<1>3. HandleOwned'
  BY DEF DataOwned, HandleOwned, NameOwned, NothingShared, TypeOK
<1>4. NameOwned'
  BY DEF DataOwned, HandleOwned, NameOwned, NothingShared, TypeOK
<1>5. NothingShared'
  BY DEF DataOwned, HandleOwned, NameOwned, NothingShared, TypeOK
<1>6. FromItsFile'
  BY DEF FromItsFile, TypeOK
<1>7. PixelsAreTheImage'
  BY DEF PixelsAreTheImage, FromItsFile, DataOwned, HandleOwned, NameOwned, NothingShared, TypeOK, Pictures
<1> QED BY <1>1, <1>2, <1>3, <1>4, <1>5, <1>6, <1>7

LEMMA InvStep == Inv /\ [Next]_vars => Inv'
<1> SUFFICES ASSUME Inv, [Next]_vars PROVE Inv'
  OBVIOUS
<1>1. CASE UNCHANGED vars
  BY <1>1 DEF vars, fields, history, Inv, TypeOK, DataOwned, HandleOwned, NameOwned,
     NothingShared, FromItsFile, PixelsAreTheImage
<1>2. CASE Next
  <2>1. ASSUME NEW b \in Blocks, ClientAllocates(b) \/ ClientFrees(b) PROVE Inv'
    BY <2>1, ClientAllocatesKeepsInv, ClientFreesKeepsInv
  <2>2. ASSUME NEW i \in Images, NEW s \in Sizes, s_image_create(i, s) PROVE Inv'
    BY <2>2, CreateKeepsInv
  <2>3. ASSUME NEW i \in Images, NEW s \in Sizes, NEW b \in Blocks,
               NEW copydata \in BOOLEAN, s_image_set(i, s, b, copydata)
        PROVE  Inv'
    BY <2>3, SetCopyKeepsInv, SetAdoptKeepsInv
  <2>4. ASSUME NEW i \in Images, NEW f \in Files, s_image_load(i, f) PROVE Inv'
    BY <2>4, LoadNewKeepsInv, CopyIntoKeepsInv, DeliveredKeepsInv DEF s_image_load, CopyIntoNull
  <2>5. ASSUME NEW i \in Images, NEW f \in Files, NEW readall \in BOOLEAN,
               s_image_open(i, f, readall)
        PROVE  Inv'
    BY <2>5, OpenLinesKeepsInv, LoadNewKeepsInv DEF s_image_open
  <2>6. ASSUME NEW i \in Images, s_image_destroy(i) \/ ClientDraws(i) PROVE Inv'
    BY <2>6, DestroyKeepsInv, DrawsKeepsInv
  <2>7. ASSUME NEW i \in Images, s_image_read_line(i) PROVE Inv'
    BY <2>7, DeliveredKeepsInv, FallsBackKeepsInv DEF s_image_read_line
  <2>8. ASSUME NEW i \in Images, s_image_data(i) \/ s_image_save(i) PROVE Inv'
    BY <2>8, DeliveredKeepsInv, AllocatesKeepsInv DEF s_image_data, s_image_save
  <2> QED BY <1>2, <2>1, <2>2, <2>3, <2>4, <2>5, <2>6, <2>7, <2>8 DEF Next
<1> QED BY <1>1, <1>2

THEOREM Invariant == Spec => []Inv
<1> QED BY InvInit, InvStep, PTL DEF Spec

(* Type correctness of the image objects.                                  *)
THEOREM TypeCorrect == Spec => []TypeOK
<1>1. Inv => TypeOK
  BY DEF Inv
<1> QED BY <1>1, Invariant, PTL

(* One owner for every buffer, handle and name, for any number of images:  *)
(* s_image_destroy() never frees twice nor what is not the library's.      *)
THEOREM AlwaysOwned == Spec => []Ownership
<1>1. Inv => Ownership
  BY DEF Inv, Ownership
<1> QED BY <1>1, Invariant, PTL

(* Every buffer holds the picture its image was last given.                *)
THEOREM AlwaysTheImage == Spec => []PixelsAreTheImage
<1>1. Inv => PixelsAreTheImage
  BY DEF Inv
<1> QED BY <1>1, Invariant, PTL

-----------------------------------------------------------------------------
(* What the library loses.  A block it allocated is always an image's, and *)
(* otherwise it is known to be lost; for the steps that drop a buffer      *)
(* without freeing it, every library buffer an image does not own is one   *)
(* s_image_read_line() refilled it with.                                   *)

PixelsKnown ==
  \A b \in Blocks : heap[b] = "pixels" => b \in refilled \/ \E i \in live : data[i] = b
HandlesKnown ==
  \A b \in Blocks : heap[b] = "handle" => \E i \in live : opendata[i] = b
NamesKnown ==
  \A b \in Blocks : heap[b] = "name" => b \in renamed \/ \E i \in live : openfilename[i] = b
BorrowedKnown ==
  \A i \in live : (data[i] # Null /\ ~didalloc[i] /\ heap[data[i]] = "pixels")
                    => data[i] \in refilled

Losses == PixelsKnown /\ HandlesKnown /\ NamesKnown /\ BorrowedKnown

LEMMA LossesInit == Init => Losses
BY DEF Init, Losses, PixelsKnown, HandlesKnown, NamesKnown, BorrowedKnown

(* The client allocates or frees a buffer. *)
LEMMA ClientsLossesKnown ==
  ASSUME Inv, Losses, NEW b \in Blocks, ClientAllocates(b) \/ ClientFrees(b)
  PROVE  Losses'
<1> USE NullAssumption DEF Inv, Losses, TypeOK, DataOwned, HandleOwned, NameOwned, fields, history, ClientAllocates, ClientFrees, UsedBy
<1>1. PixelsKnown'
  BY DEF PixelsKnown, NothingShared, FromItsFile, BorrowedKnown
<1>2. HandlesKnown'
  BY DEF HandlesKnown, NothingShared
<1>3. NamesKnown'
  BY DEF NamesKnown, NothingShared
<1>4. BorrowedKnown'
  BY DEF BorrowedKnown, NothingShared, FromItsFile
<1> QED BY <1>1, <1>2, <1>3, <1>4

(* s_image_create *)
LEMMA CreateLossesKnown ==
  ASSUME Inv, Losses, NEW i \in Images, NEW s \in Sizes, s_image_create(i, s)
  PROVE  Losses'
<1> USE NullAssumption DEF Inv, Losses, TypeOK, DataOwned, HandleOwned, NameOwned, fields, history, s_image_create, NewImage, WithoutFile, FreeBlocks, UsedBy
<1>1. PixelsKnown'
  BY DEF PixelsKnown, NothingShared, FromItsFile, BorrowedKnown
<1>2. HandlesKnown'
  BY DEF HandlesKnown, NothingShared
<1>3. NamesKnown'
  BY DEF NamesKnown, NothingShared
<1>4. BorrowedKnown'
  BY DEF BorrowedKnown, NothingShared, FromItsFile
<1> QED BY <1>1, <1>2, <1>3, <1>4

(* s_image_destroy *)
LEMMA DestroyLossesKnown ==
  ASSUME Inv, Losses, NEW i \in Images, s_image_destroy(i)
  PROVE  Losses'
<1> USE NullAssumption DEF Inv, Losses, TypeOK, DataOwned, HandleOwned, NameOwned, fields, history, s_image_destroy, Owned, Release
<1>1. PixelsKnown'
  BY DEF PixelsKnown, NothingShared, FromItsFile, BorrowedKnown
<1>2. HandlesKnown'
  BY DEF HandlesKnown, NothingShared
<1>3. NamesKnown'
  BY DEF NamesKnown, NothingShared
<1>4. BorrowedKnown'
  BY DEF BorrowedKnown, NothingShared, FromItsFile
<1> QED BY <1>1, <1>2, <1>3, <1>4

(* s_image_set with copydata *)
LEMMA SetCopyLossesKnown ==
  ASSUME Inv, Losses,
         NEW i \in Images, NEW s \in Sizes, NEW src \in Blocks, s_image_set(i, s, src, TRUE)
  PROVE  Losses'
<1> USE DEF Inv, Losses, TypeOK
<1>0. i \in live /\ live' = live /\ opendata' = opendata /\ openfilename' = openfilename
      /\ refilled' = refilled /\ renamed' = renamed /\ SetByCopy(i, s, src)
  BY DEF s_image_set
<1>1. CASE KeepsBuffer(i, s)
  BY <1>0, <1>1 DEF SetByCopy, PixelsKnown, HandlesKnown, NamesKnown, BorrowedKnown
<1>2. CASE ~KeepsBuffer(i, s)
  <2>1. PICK b \in Blocks :
          /\ Release(OwnedData(i))[b] = "free"
          /\ heap' = [Release(OwnedData(i)) EXCEPT ![b] = "pixels"]
          /\ data' = [data EXCEPT ![i] = b]
          /\ didalloc' = [didalloc EXCEPT ![i] = TRUE]
    BY <1>0, <1>2 DEF SetByCopy
  <2>2. \A c \in Blocks :
          Release(OwnedData(i))[c] = IF c = data[i] /\ didalloc[i] THEN "free" ELSE heap[c]
    BY DEF Release, OwnedData
  <2>3. heap'[b] = "pixels" /\ data'[i] = b /\ didalloc'[i] = TRUE
    BY <2>1 DEF Release
  <2>4. \A c \in Blocks : c # b /\ heap'[c] # "free" =>
          heap'[c] = heap[c] /\ ~(c = data[i] /\ didalloc[i])
    BY <2>1, <2>2 DEF Release
  <2>5. \A k \in Images : k # i => data'[k] = data[k] /\ didalloc'[k] = didalloc[k]
    BY <2>1
  <2>6. \A k \in live : k # i /\ data[k] # Null => data[k] # b
    <3>1. heap[b] = "free" \/ (b = data[i] /\ didalloc[i])
      BY <2>1, <2>2
    <3>2. \A k \in live : data[k] # Null => heap[data[k]] # "free"
      BY DEF DataOwned
    <3> QED BY <1>0, <3>1, <3>2, NullAssumption DEF NothingShared
  <2>7. PixelsKnown'
    <3> SUFFICES ASSUME NEW c \in Blocks, heap'[c] = "pixels", c # b, c \notin refilled
                 PROVE  \E k \in live : data'[k] = c
      BY <1>0, <2>3 DEF PixelsKnown
    <3>1. heap[c] = "pixels" /\ ~(c = data[i] /\ didalloc[i])
      BY <2>4
    <3>2. PICK k \in live : data[k] = c
      BY <3>1 DEF PixelsKnown
    <3>3. k # i
      BY <3>1, <3>2, NullAssumption DEF BorrowedKnown
    <3> QED BY <3>2, <3>3, <2>5
  <2>8. HandlesKnown' /\ NamesKnown'
    BY <1>0, <2>3, <2>4 DEF HandlesKnown, NamesKnown
  <2>9. BorrowedKnown'
    <3> SUFFICES ASSUME NEW k \in live, data'[k] # Null, ~didalloc'[k], heap'[data'[k]] = "pixels"
                 PROVE  data'[k] \in refilled
      BY <1>0 DEF BorrowedKnown
    <3>1. k # i
      BY <2>3
    <3>2. data'[k] = data[k] /\ data[k] \in Blocks /\ ~didalloc[k]
      BY <3>1, <2>5
    <3>3. heap[data[k]] = "pixels"
      BY <3>1, <3>2, <2>4, <2>6
    <3> QED BY <3>2, <3>3 DEF BorrowedKnown
  <2> QED BY <2>7, <2>8, <2>9
<1> QED BY <1>1, <1>2

(* s_image_set without copydata *)
LEMMA SetAdoptLossesKnown ==
  ASSUME Inv, Losses, NEW i \in Images, NEW s \in Sizes, NEW src \in Blocks, s_image_set(i, s, src, FALSE)
  PROVE  Losses'
<1> USE NullAssumption DEF Inv, Losses, TypeOK, DataOwned, HandleOwned, NameOwned, fields, history, s_image_set, SetByAdoption, OwnedData, Release, UsedBy
<1>1. PixelsKnown'
  BY DEF PixelsKnown, NothingShared, FromItsFile, BorrowedKnown
<1>2. HandlesKnown'
  BY DEF HandlesKnown, NothingShared
<1>3. NamesKnown'
  BY DEF NamesKnown, NothingShared
<1>4. BorrowedKnown'
  BY DEF BorrowedKnown, NothingShared, FromItsFile
<1> QED BY <1>1, <1>2, <1>3, <1>4

(* s_image_load into a new image *)
LEMMA LoadNewLossesKnown ==
  ASSUME Inv, Losses, NEW i \in Images, NEW f \in Files, LoadNew(i, f)
  PROVE  Losses'
<1> USE NullAssumption DEF Inv, Losses, TypeOK, DataOwned, HandleOwned, NameOwned, fields, history, LoadNew, NewImage, FreeBlocks
<1>1. PixelsKnown'
  BY DEF PixelsKnown, NothingShared, FromItsFile, BorrowedKnown
<1>2. HandlesKnown'
  BY DEF HandlesKnown, NothingShared
<1>3. NamesKnown'
  BY DEF NamesKnown, NothingShared
<1>4. BorrowedKnown'
  BY DEF BorrowedKnown, NothingShared, FromItsFile
<1> QED BY <1>1, <1>2, <1>3, <1>4

(* s_image_load into an image of that size *)
LEMMA CopyIntoLossesKnown ==
  ASSUME Inv, Losses, NEW i \in Images, NEW f \in Files, CopyInto(i, f)
  PROVE  Losses'
<1> USE NullAssumption DEF Inv, Losses, TypeOK, DataOwned, HandleOwned, NameOwned, fields, history, CopyInto, FreeBlocks
<1>1. PixelsKnown'
  BY DEF PixelsKnown, NothingShared, FromItsFile, BorrowedKnown
<1>2. HandlesKnown'
  BY DEF HandlesKnown, NothingShared
<1>3. NamesKnown'
  BY DEF NamesKnown, NothingShared
<1>4. BorrowedKnown'
  BY DEF BorrowedKnown, NothingShared, FromItsFile
<1> QED BY <1>1, <1>2, <1>3, <1>4

(* s_image_open, with an open_func *)
LEMMA OpenLinesLossesKnown ==
  ASSUME Inv, Losses, NEW i \in Images, NEW f \in Files, NEW readall \in BOOLEAN, OpenLines(i, f, readall)
  PROVE  Losses'
<1> USE NullAssumption DEF Inv, Losses, TypeOK, DataOwned, HandleOwned, NameOwned, fields, history, OpenLines, NewImage, FreeBlocks
<1>1. PixelsKnown'
  BY DEF PixelsKnown, NothingShared, FromItsFile, BorrowedKnown
<1>2. HandlesKnown'
  BY DEF HandlesKnown, NothingShared
<1>3. NamesKnown'
  BY DEF NamesKnown, NothingShared
<1>4. BorrowedKnown'
  BY DEF BorrowedKnown, NothingShared, FromItsFile
<1> QED BY <1>1, <1>2, <1>3, <1>4

(* The fallback of s_image_read_line *)
LEMMA FallsBackLossesKnown ==
  ASSUME Inv, Losses, NEW i \in live, FallsBack(i)
  PROVE  Losses'
<1> USE DEF Inv, Losses, TypeOK
<1>0. /\ i \in Images /\ data[i] = Null /\ opendata[i] \in Blocks
      /\ live' = live /\ openfilename' = openfilename /\ renamed' = renamed
      /\ didalloc' = didalloc
      /\ opendata' = [opendata EXCEPT ![i] = Null]
  BY DEF FallsBack
<1>a. \A c \in Blocks :
        Release({opendata[i]})[c] = IF c = opendata[i] THEN "free" ELSE heap[c]
  BY DEF Release
<1>b. \A k \in live : data[k] # Null => heap[data[k]] \in {"client", "pixels"}
  BY DEF DataOwned
<1>c. heap[opendata[i]] = "handle"
  BY <1>0, NullAssumption DEF HandleOwned
<1>d. \A k \in live : k # i => opendata'[k] = opendata[k]
  BY <1>0
<1>1. CASE heap' = Release({opendata[i]}) /\ UNCHANGED <<data, refilled>>
  <2>1. \A c \in Blocks : heap'[c] # "free" => heap'[c] = heap[c] /\ c # opendata[i]
    BY <1>1, <1>a
  <2>2. PixelsKnown' /\ NamesKnown'
    BY <1>0, <1>1, <2>1 DEF PixelsKnown, NamesKnown
  <2>4. BorrowedKnown'
    <3> SUFFICES ASSUME NEW k \in live, data[k] # Null, ~didalloc[k], heap'[data[k]] = "pixels"
                 PROVE  data[k] \in refilled
      BY <1>0, <1>1 DEF BorrowedKnown
    <3>1. data[k] \in Blocks
      OBVIOUS
    <3> QED BY <3>1, <2>1 DEF BorrowedKnown
  <2>3. HandlesKnown'
    BY <1>0, <1>d, <2>1 DEF HandlesKnown
  <2> QED BY <2>2, <2>3, <2>4
<1>2. CASE ~(heap' = Release({opendata[i]}) /\ UNCHANGED <<data, refilled>>)
  <2>1. PICK b \in Blocks :
          /\ Release({opendata[i]})[b] = "free"
          /\ heap' = [Release({opendata[i]}) EXCEPT ![b] = "pixels"]
          /\ data' = [data EXCEPT ![i] = b]
          /\ refilled' = refilled \cup {b}
    BY <1>2 DEF FallsBack
  <2>2. \A c \in Blocks : c # b /\ heap'[c] # "free" => heap'[c] = heap[c] /\ c # opendata[i]
    BY <2>1, <1>a DEF Release
  <2>3. heap'[b] = "pixels" /\ data'[i] = b
    BY <2>1, <1>0 DEF Release
  <2>4. \A k \in live : k # i => data'[k] = data[k]
    BY <2>1
  <2>5. PixelsKnown'
    <3> SUFFICES ASSUME NEW c \in Blocks, heap'[c] = "pixels", c # b, c \notin refilled
                 PROVE  \E k \in live : data'[k] = c
      BY <1>0, <2>1 DEF PixelsKnown
    <3>1. heap[c] = "pixels"
      BY <2>2
    <3>2. PICK k \in live : data[k] = c
      BY <3>1 DEF PixelsKnown
    <3>3. k # i
      BY <1>0, <3>2, NullAssumption
    <3> QED BY <3>2, <3>3, <2>4
  <2>6. HandlesKnown' /\ NamesKnown'
    BY <1>0, <1>d, <2>2, <2>3 DEF HandlesKnown, NamesKnown
  <2>7. BorrowedKnown'
    <3> SUFFICES ASSUME NEW k \in live, data'[k] # Null, ~didalloc[k], heap'[data'[k]] = "pixels",
                        k # i, data'[k] # b
                 PROVE  data'[k] \in refilled
      BY <1>0, <2>1, <2>3 DEF BorrowedKnown
    <3>1. data'[k] = data[k] /\ data[k] \in Blocks
      BY <2>4
    <3>2. heap[data[k]] = "pixels"
      BY <3>1, <2>2
    <3> QED BY <3>1, <3>2 DEF BorrowedKnown
  <2> QED BY <2>5, <2>6, <2>7
<1> QED BY <1>1, <1>2

(* s_image_data of an image opened line by line *)
LEMMA AllocatesLossesKnown ==
  ASSUME Inv, Losses, NEW i \in live, AllocatesBuffer(i)
  PROVE  Losses'
<1> USE NullAssumption DEF Inv, Losses, TypeOK, DataOwned, HandleOwned, NameOwned, fields, history, AllocatesBuffer, FreeBlocks
<1>1. PixelsKnown'
  BY DEF PixelsKnown, NothingShared, FromItsFile, BorrowedKnown
<1>2. HandlesKnown'
  BY DEF HandlesKnown, NothingShared
<1>3. NamesKnown'
  BY DEF NamesKnown, NothingShared
<1>4. BorrowedKnown'
  BY DEF BorrowedKnown, NothingShared, FromItsFile
<1> QED BY <1>1, <1>2, <1>3, <1>4

(* The steps that leave every block where it is. *)
LEMMA OthersLossesKnown ==
  ASSUME Inv, Losses, NEW i \in Images, FromBuffer(i) \/ FromCodec(i) \/ LineFails(i) \/ Crash \/ ClientDraws(i)
  PROVE  Losses'
<1> USE NullAssumption DEF Inv, Losses, TypeOK, DataOwned, HandleOwned, NameOwned, fields, history, FromBuffer, FromCodec, LineFails, Crash, ClientDraws
<1>1. PixelsKnown'
  BY DEF PixelsKnown, NothingShared, FromItsFile, BorrowedKnown
<1>2. HandlesKnown'
  BY DEF HandlesKnown, NothingShared
<1>3. NamesKnown'
  BY DEF NamesKnown, NothingShared
<1>4. BorrowedKnown'
  BY DEF BorrowedKnown, NothingShared, FromItsFile
<1> QED BY <1>1, <1>2, <1>3, <1>4

LEMMA LossesStep == Inv /\ Losses /\ [Next]_vars => Losses'
<1> SUFFICES ASSUME Inv, Losses, [Next]_vars PROVE Losses'
  OBVIOUS
<1>1. CASE UNCHANGED vars
  BY <1>1 DEF vars, fields, history, Losses, PixelsKnown, HandlesKnown, NamesKnown, BorrowedKnown
<1>2. CASE Next
  <2>1. ASSUME NEW b \in Blocks, ClientAllocates(b) \/ ClientFrees(b) PROVE Losses'
    BY <2>1, ClientsLossesKnown
  <2>2. ASSUME NEW i \in Images, NEW s \in Sizes, s_image_create(i, s) PROVE Losses'
    BY <2>2, CreateLossesKnown
  <2>3. ASSUME NEW i \in Images, NEW s \in Sizes, NEW b \in Blocks,
               NEW copydata \in BOOLEAN, s_image_set(i, s, b, copydata)
        PROVE  Losses'
    BY <2>3, SetCopyLossesKnown, SetAdoptLossesKnown
  <2>4. ASSUME NEW i \in Images, NEW f \in Files, s_image_load(i, f) PROVE Losses'
    BY <2>4, LoadNewLossesKnown, CopyIntoLossesKnown, OthersLossesKnown
       DEF s_image_load, CopyIntoNull
  <2>5. ASSUME NEW i \in Images, NEW f \in Files, NEW readall \in BOOLEAN,
               s_image_open(i, f, readall)
        PROVE  Losses'
    BY <2>5, OpenLinesLossesKnown, LoadNewLossesKnown DEF s_image_open
  <2>6. ASSUME NEW i \in Images, s_image_destroy(i) \/ ClientDraws(i) PROVE Losses'
    BY <2>6, DestroyLossesKnown, OthersLossesKnown
  <2>7. ASSUME NEW i \in Images, s_image_read_line(i) PROVE Losses'
    BY <2>7, OthersLossesKnown, FallsBackLossesKnown DEF s_image_read_line
  <2>8. ASSUME NEW i \in Images, s_image_data(i) \/ s_image_save(i) PROVE Losses'
    BY <2>8, OthersLossesKnown, AllocatesLossesKnown DEF s_image_data, s_image_save
  <2> QED BY <1>2, <2>1, <2>2, <2>3, <2>4, <2>5, <2>6, <2>7, <2>8 DEF Next
<1> QED BY <1>1, <1>2

(* For any number of images and blocks and any sequence of calls, no block *)
(* is lost but the buffer s_image_read_line() refilled an image with and   *)
(* the names s_image_load() overwrote.                                     *)
THEOREM LossesAreAlwaysKnown == Spec => []LossesAreKnown
<1>1. Inv /\ Losses => LossesAreKnown
  <2> SUFFICES ASSUME Inv, Losses, NEW b \in Lost
               PROVE  \/ heap[b] = "pixels" /\ b \in refilled
                      \/ heap[b] = "name" /\ b \in renamed
    BY DEF LossesAreKnown
  <2>1. b \in Blocks /\ heap[b] \notin {"free", "client"}
    BY DEF Lost
  <2>2. \A i \in live : b # data[i] /\ b # opendata[i] /\ b # openfilename[i]
    BY DEF Lost, Referenced
  <2>3. heap[b] \in {"pixels", "name", "handle"}
    BY <2>1 DEF Inv, TypeOK
  <2> QED BY <2>1, <2>2, <2>3 DEF Losses, PixelsKnown, HandlesKnown, NamesKnown
<1> QED BY <1>1, Invariant, LossesInit, LossesStep, PTL DEF Spec

-----------------------------------------------------------------------------
(* Lines.  Every step but those below delivers nothing.                    *)

LEMMA LinesStep == Inv /\ LinesAreTheImage /\ [Next]_vars => LinesAreTheImage'
<1> SUFFICES ASSUME Inv, LinesAreTheImage, [Next]_vars, out'.of \notin spoilt'
             PROVE  (out.want = out.got)'
  BY DEF LinesAreTheImage
<1>0. Nothing.want = Nothing.got
  BY DEF Nothing
<1>1. CASE UNCHANGED vars
  BY <1>1 DEF vars, fields, history, LinesAreTheImage
<1>2. ASSUME NEW i \in live, FromBuffer(i) PROVE (out.want = out.got)'
  <2>1. i \notin spoilt /\ data[i] # Null
    BY <1>2 DEF FromBuffer, history, Delivers
  <2>2. pixels[data[i]] = shows[i]
    BY <2>1 DEF Inv, PixelsAreTheImage
  <2> QED BY <2>2, <1>2 DEF FromBuffer, Delivers
<1>3. ASSUME NEW i \in live, FromCodec(i) PROVE (out.want = out.got)'
  BY <1>3 DEF FromCodec, Delivers, Inv, FromItsFile
<1>4. ASSUME NEW i \in live, FallsBack(i) PROVE (out.want = out.got)'
  BY <1>4, <1>0 DEF FallsBack, Delivers, Inv, FromItsFile
<1>5. ASSUME NEW i \in live, AllocatesBuffer(i), Delivers(i, Garbage) PROVE FALSE
  BY <1>5 DEF AllocatesBuffer, Delivers
<1>6. CASE out' = Nothing
  BY <1>6, <1>0
<1>7. CASE Next
  BY <1>2, <1>3, <1>4, <1>5, <1>6, <1>7, ZenonT(30)
     DEF Next, ClientAllocates, ClientFrees, s_image_create, s_image_destroy, s_image_set,
         s_image_load, LoadNew, CopyInto, CopyIntoNull, Crash, s_image_open, OpenLines,
         s_image_read_line, LineFails, s_image_data, s_image_save, ClientDraws
<1> QED BY <1>1, <1>7

(* In any sequence of calls on any images, a line s_image_read_line()      *)
(* delivers, and a buffer a saver is given, is its image's, whether it     *)
(* comes from the buffer, from the codec or from the whole file read after *)
(* the codec failed, unless s_image_data() has spoilt that image.          *)
THEOREM LinesAreAlwaysTheImage == Spec => []LinesAreTheImage
<1>1. Init => LinesAreTheImage
  BY DEF Init, Nothing, LinesAreTheImage
<1> QED BY <1>1, LinesStep, Invariant, PTL DEF Spec
=============================================================================
