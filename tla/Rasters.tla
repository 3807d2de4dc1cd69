------------------------------ MODULE Rasters ------------------------------
(***************************************************************************)
(* What the loops over pixels in src/simage_*.c do, on small pictures: how *)
(* packed data, passes, planes and bits of a file become the rows of an    *)
(* image, the lowest first.  A pixel is a number that tells where in the   *)
(* file it comes from.  For each codec with such loops, a set of inputs,   *)
(* what the code makes of one, and what the format says it is.             *)
(***************************************************************************)
EXTENDS Integers, SequencesExt

CONSTANTS
  MaxWidth, MaxHeight,    \* of a picture
  MaxPackets, MaxRun,     \* packets of a packed row and their length
  MaxBytes, RowLen        \* bytes of a written picture, letters of a line

ASSUME RastersAssumption ==
  /\ {MaxWidth, MaxHeight, MaxPackets, MaxRun, RowLen} \subseteq Nat \ {0}
  /\ MaxBytes \in Nat

UpsideDown(rows) == Reverse(rows)

(***************************************************************************)
(* simage_tga.c, type 10: packets go on from one row into the next.  A     *)
(* file is a sequence of codes and pixels; 128 in a code says that one     *)
(* pixel is repeated.  The header says whether its first row is the top    *)
(* one and its first pixel the rightmost, which the code does not ask.     *)
(***************************************************************************)
Packet == [run : BOOLEAN, count : 1..MaxRun]

PacketPixels(packets, i) ==
  [k \in 1..packets[i].count |-> 10 * i + (IF packets[i].run THEN 1 ELSE k)]

TgaFile(packets) ==
  FlattenSeq([i \in DOMAIN packets |->
    IF packets[i].run
      THEN <<packets[i].count - 1 + 128, 10 * i + 1>>
      ELSE <<packets[i].count - 1>> \o PacketPixels(packets, i)])

Unpacked(packets) == FlattenSeq([i \in DOMAIN packets |-> PacketPixels(packets, i)])

PacketSeqs == UNION {[1..n -> Packet] : n \in 1..MaxPackets}

TgaInputs ==
  {[packets |-> p, width |-> w, height |-> h, top |-> t, right |-> r] :
     p \in PacketSeqs, w \in 1..MaxWidth, h \in 1..MaxHeight,
     t \in BOOLEAN, r \in BOOLEAN}

rle_new_packet(s) ==
  LET code == s.src[1] IN
  IF code >= 128
    THEN [s EXCEPT !.remain = (code % 128) + 1, !.compress = TRUE,
                   !.current = s.src[2], !.src = SubSeq(@, 3, Len(@))]
    ELSE [s EXCEPT !.remain = (code % 128) + 1, !.compress = FALSE, !.src = Tail(@)]

\* What is left of a packet stays for the row.
StartRow(s) == [s EXCEPT !.line = <<>>]

\* A row of n pixels.
rle_decode(s, n) ==
  LET decoded[k \in 0..n] ==
        IF k = 0 THEN StartRow(s)
        ELSE LET t == IF decoded[k - 1].remain = 0
                        THEN rle_new_packet(decoded[k - 1]) ELSE decoded[k - 1]
             IN IF t.compress
                  THEN [t EXCEPT !.line = Append(@, t.current), !.remain = @ - 1]
                  ELSE [t EXCEPT !.line = Append(@, Head(t.src)),
                                 !.src = Tail(@), !.remain = @ - 1]
  IN decoded[n]

TgaRows(in) ==
  LET Start == [src |-> TgaFile(in.packets), remain |-> 0, compress |-> FALSE,
                current |-> 0, line |-> <<>>]
      after[y \in 0..in.height] ==
        IF y = 0 THEN Start ELSE rle_decode(after[y - 1], in.width)
  IN [y \in 1..in.height |-> after[y].line]

TgaPicture(in) ==
  LET Turned(flag, seq) == IF flag THEN Reverse(seq) ELSE seq
      Row(y) == SubSeq(Unpacked(in.packets), (y - 1) * in.width + 1, y * in.width)
  IN Turned(in.top, [y \in 1..in.height |-> Turned(in.right, Row(y))])

(***************************************************************************)
(* simage_rgb.c: each row of each component is packed by itself, found     *)
(* through a table, and ends with a zero; here 128 says it is not a run.   *)
(***************************************************************************)
RgbRow(packets, c) ==
  FlattenSeq([i \in DOMAIN packets |->
    IF packets[i].run
      THEN <<packets[i].count, 100 * c + 10 * i + 1>>
      ELSE <<packets[i].count + 128>>
           \o [k \in 1..packets[i].count |-> 100 * c + 10 * i + k]]) \o <<0>>

RgbInputs ==
  {[rows |-> r, height |-> h, components |-> c, width |-> w] :
     r \in PacketSeqs, h \in 1..MaxHeight, c \in {1, 3}, w \in 1..MaxWidth}

\* The packed rows of a file: row y of component c is entry y + c * height.
RgbFile(in) ==
  [e \in 0..(in.height * in.components - 1) |->
     RgbRow(in.rows, 10 * (e % in.height) + e \div in.height)]

\* At most one packet per step; nothing more after the zero.
read_rgb_row_component(file, in, y, c) ==
  LET src == file[y + c * in.height]
      row[k \in 0..Len(src)] ==
        IF k = 0 THEN [at |-> 1, dst |-> <<>>]
        ELSE LET s == row[k - 1]
                 count == src[s.at] % 128
             IN IF count = 0 THEN s
                ELSE IF src[s.at] >= 128
                  THEN [at |-> s.at + 1 + count,
                        dst |-> s.dst \o SubSeq(src, s.at + 1, s.at + count)]
                  ELSE [at |-> s.at + 2,
                        dst |-> s.dst \o [i \in 1..count |-> src[s.at + 1]]]
  IN row[Len(src)].dst

RgbRows(in) ==
  LET file == RgbFile(in) IN
  [y \in 1..in.height |->
    LET tmpbuf == [c \in 0..(in.components - 1) |->
                     read_rgb_row_component(file, in, y - 1, c)]
    IN FlattenSeq([i \in 1..in.width |->
         [c \in 1..in.components |-> tmpbuf[c - 1][i]]])]

RgbPicture(in) ==
  [y \in 1..in.height |->
    FlattenSeq([i \in 1..in.width |->
      [c \in 1..in.components |->
         1000 * (y - 1) + 100 * (c - 1) + Unpacked(in.rows)[i]]])]

(***************************************************************************)
(* simage_gif.c: a picture within the screen, line after line or in four   *)
(* passes.  Rows of the screen that it does not cover are zero.            *)
(***************************************************************************)
interlacedoffset == <<0, 4, 2, 1>>
\* A faulty variant: the last pass jumps as the one before it.
JumpsTooFar == <<8, 8, 4, 4>>

interlacedjumps == <<8, 8, 4, 2>>

GifHeights == 1 .. 2 * MaxHeight + 6

GifInputs ==
  {[screen |-> s, top |-> t, height |-> h, interlaced |-> i] :
     s \in GifHeights, t \in 0..2, h \in GifHeights, i \in BOOLEAN}

\* The rows of the screen in the order their lines are read.
GifOrder(in) ==
  LET From(j, jump) == SelectSeq([k \in 1..in.height |-> in.top + k - 1],
                                 LAMBDA r : r >= in.top + j /\ (r - in.top - j) % jump = 0)
  IN IF in.interlaced
       THEN FlattenSeq([i \in 1..4 |-> From(interlacedoffset[i], interlacedjumps[i])])
       ELSE From(0, 1)

\* decode_row() turns the screen upside down.
GifRows(in) ==
  LET order == GifOrder(in) IN
  [y \in 1..in.screen |->
     LET row == in.screen - y IN
     IF \E k \in DOMAIN order : order[k] = row
       THEN CHOOSE k \in DOMAIN order : order[k] = row ELSE 0]

\* Passes are the multiples of eight, then of four, of two, and the rest.
GifPass(r) == CASE r % 8 = 0 -> 1 [] r % 8 = 4 -> 2 [] r % 4 = 2 -> 3 [] OTHER -> 4

GifLine(in, r) ==
  IF ~in.interlaced THEN r + 1
  ELSE 1 + Cardinality({q \in 0..(in.height - 1) :
             \/ GifPass(q) < GifPass(r)
             \/ GifPass(q) = GifPass(r) /\ q < r})

GifPicture(in) ==
  UpsideDown([y \in 1..in.screen |->
    IF y - 1 - in.top \in 0..(in.height - 1) THEN GifLine(in, y - 1 - in.top) ELSE 0])

(***************************************************************************)
(* simage_tiff.c: the samples of a pixel come together or in planes one    *)
(* after the other, and greys and indices may have more beside them, such  *)
(* as alpha.  interleave_row() calls its third argument blue and its       *)
(* fourth green, and simage_tiff_load() passes green and blue.  A colour   *)
(* map has 16 bits, or 8 in old files.                                     *)
(***************************************************************************)
TiffInputs ==
  [photometric : {"black", "white", "palette"}, components : 1..2, separate : BOOLEAN,
   old : BOOLEAN, width : 1..MaxWidth, height : 1..MaxHeight]
  \cup [photometric : {"rgb"}, components : 3..4, separate : BOOLEAN,
        old : {FALSE}, width : 1..MaxWidth, height : 1..MaxHeight]

TiffSample(row, x, s) == 40 * row + 10 * x + s

\* TIFFReadScanline(): of one plane, or of all samples.
TiffScanline(in, row, s) ==
  IF in.separate THEN [x \in 1..in.width |-> TiffSample(row, x, s)]
  ELSE FlattenSeq([x \in 1..in.width |-> [c \in 1..in.components |-> TiffSample(row, x, c)]])

\* The colour of an index, in bytes and as the file has it.
TiffColour(ix) == [c \in 1..3 |-> (ix + c) % 256]
TiffColormap(in) ==
  [ix \in 0..255 |-> [c \in 1..3 |-> IF in.old THEN TiffColour(ix)[c] ELSE 257 * TiffColour(ix)[c]]]

CVT(colour) == [c \in 1..3 |-> (colour[c] * 255) \div 65535]

checkcmap(map) == IF \E ix \in 0..255, c \in 1..3 : map[ix][c] >= 256 THEN 16 ELSE 8

invert_row(data, n, invert) == [x \in 1..n |-> IF invert THEN 255 - data[x] ELSE data[x]]

remap_row(data, n, map) == FlattenSeq([x \in 1..n |-> map[data[x]]])

copy_row(data, n, components) == SubSeq(data, 1, n * components)

interleave_row(red, blue, green, alpha, n) ==
  FlattenSeq([x \in 1..n |-> <<red[x], green[x], blue[x]>>
                             \o (IF alpha = <<>> THEN <<>> ELSE <<alpha[x]>>)])

TiffRows(in) ==
  LET map == TiffColormap(in)
      bytes == IF checkcmap(map) = 16 THEN [ix \in 0..255 |-> CVT(map[ix])] ELSE map
      Line(row) ==
        LET inbuf == [s \in 1..4 |-> IF s <= in.components THEN TiffScanline(in, row, s)
                                     ELSE <<>>]
        IN CASE in.photometric \in {"black", "white"} ->
                  invert_row(inbuf[1], in.width, in.photometric = "white")
             [] in.photometric = "palette" -> remap_row(inbuf[1], in.width, bytes)
             [] in.photometric = "rgb" /\ ~in.separate ->
                  copy_row(inbuf[1], in.width, in.components)
             [] in.photometric = "rgb" /\ in.separate ->
                  interleave_row(inbuf[1], inbuf[2], inbuf[3], inbuf[4], in.width)
  IN [y \in 1..in.height |-> Line(in.height - y)]

\* Greys without what is beside them, the colours of indices, or all samples.
TiffPicture(in) ==
  LET Sample(row, x) == TiffSample(row, x, 1)
      Pixel(row, x) ==
        CASE in.photometric = "black" -> <<Sample(row, x)>>
          [] in.photometric = "white" -> <<255 - Sample(row, x)>>
          [] in.photometric = "palette" -> TiffColour(Sample(row, x))
          [] in.photometric = "rgb" -> [s \in 1..in.components |-> TiffSample(row, x, s)]
  IN UpsideDown([y \in 1..in.height |->
       FlattenSeq([x \in 1..in.width |-> Pixel(y - 1, x)])])

(***************************************************************************)
(* simage_xwd.c: the pixels of a line are taken from a buffer of bits that *)
(* is filled byte by byte.                                                 *)
(***************************************************************************)
XwdInputs ==
  {[width |-> w, height |-> h, bits |-> b] :
     w \in 1..MaxWidth + 1, h \in 1..MaxHeight, b \in {1, 2, 4, 8, 12, 16, 24}}

BytesPerLine(in) == (in.width * in.bits + 7) \div 8
XwdByte(row, k) == (151 * row + 83 * k + 53) % 256

XwdRow(in, row) ==
  LET Fill(s) ==
        LET need == IF s.got >= in.bits THEN 0 ELSE (in.bits - s.got + 7) \div 8
            filled[n \in 0..need] ==
              IF n = 0 THEN s
              ELSE [filled[n - 1] EXCEPT !.bits = @ * 256 + XwdByte(row, filled[n - 1].at),
                                         !.at = @ + 1, !.got = @ + 8]
        IN filled[need]
      read[x \in 0..in.width] ==
        IF x = 0 THEN [at |-> 0, bits |-> 0, got |-> 0, pixels |-> <<>>]
        ELSE LET s == Fill(read[x - 1])
                 rest == 2 ^ (s.got - in.bits)
             IN [s EXCEPT !.got = @ - in.bits, !.bits = @ % rest,
                          !.pixels = Append(@, s.bits \div rest)]
  IN read[in.width].pixels

XwdRows(in) == [y \in 1..in.height |-> XwdRow(in, in.height - y)]

XwdPicture(in) ==
  LET Bit(row, i) == (XwdByte(row, i \div 8) \div 2 ^ (7 - (i % 8))) % 2
      Value(row, x) ==
        FoldLeft(LAMBDA v, i : 2 * v + Bit(row, x * in.bits + i - 1), 0,
                 [i \in 1..in.bits |-> i])
  IN UpsideDown([y \in 1..in.height |-> [x \in 1..in.width |-> Value(y - 1, x - 1)]])

(***************************************************************************)
(* simage_eps.c: output_ascii85() on each byte and once to flush.  Four    *)
(* bytes are five letters, or one when all are zero.  A byte is 0 or 1     *)
(* here and a letter a binary digit, where the code has 256 and 85.        *)
(***************************************************************************)
EpsInputs == UNION {[1..n -> {0, 1}] : n \in 0..MaxBytes}

\* A letter that is no digit, for four zeros.
Zeros == 2

encode_ascii85(tuple) ==
  LET data == tuple[1] * 8 + tuple[2] * 4 + tuple[3] * 2 + tuple[4] IN
  IF data = 0 THEN <<Zeros>> ELSE [i \in 1..5 |-> (data \div 2 ^ (5 - i)) % 2]

\* A line that is full is written and the letters behind it moved to the front.
WritesLine(s) ==
  IF Len(s.linebuf) >= RowLen
    THEN [s EXCEPT !.lines = Append(@, SubSeq(s.linebuf, 1, RowLen)),
                   !.linebuf = SubSeq(@, RowLen + 1, Len(@))]
    ELSE s

output_ascii85(s, val) ==
  LET tuple == Append(s.tuple, val) IN
  IF Len(tuple) < 4 THEN [s EXCEPT !.tuple = tuple]
  ELSE LET linebuf == s.linebuf \o encode_ascii85(tuple)
           used == IF Len(linebuf) > s.used THEN Len(linebuf) ELSE s.used
       IN WritesLine([s EXCEPT !.tuple = <<>>, !.linebuf = linebuf, !.used = used])

flush_ascii85(s) ==
  LET n == Len(s.tuple)
      letters == encode_ascii85(s.tuple \o [i \in 1..(4 - n) |-> 0])
      full == IF letters = <<Zeros>> THEN [i \in 1..5 |-> 0] ELSE letters
      last == WritesLine(IF n = 0 THEN s
                         ELSE [s EXCEPT !.tuple = <<>>, !.linebuf = @ \o SubSeq(full, 1, n + 1)])
  IN IF last.linebuf = <<>> THEN last
     ELSE [last EXCEPT !.lines = Append(@, last.linebuf), !.linebuf = <<>>]

EpsText(bytes) ==
  flush_ascii85(FoldLeft(output_ascii85,
    [tuple |-> <<>>, linebuf |-> <<>>, lines |-> <<>>, used |-> 0], bytes))

\* ASCII85Decode of the letters: a short last group is filled up with the
\* highest letter and one byte less than its letters is kept.
EpsBytes(letters) ==
  LET Bytes(five) ==
        LET data == five[1] * 16 + five[2] * 8 + five[3] * 4 + five[4] * 2 + five[5]
        IN [i \in 1..4 |-> (data \div 2 ^ (4 - i)) % 2]
      Take(n) == [i \in 1..5 |-> IF i <= n THEN 0 ELSE 1]
      decoded[k \in 0..Len(letters)] ==
        IF k = 0 THEN [at |-> 1, bytes |-> <<>>]
        ELSE LET s == decoded[k - 1]
                 left == Len(letters) - s.at + 1
                 n == IF left < 5 THEN left ELSE 5
                 five == [i \in 1..5 |-> IF i <= n THEN letters[s.at + i - 1] ELSE Take(n)[i]]
             IN IF left <= 0 THEN s
                ELSE IF letters[s.at] = Zeros
                  THEN [at |-> s.at + 1, bytes |-> s.bytes \o <<0, 0, 0, 0>>]
                  ELSE [at |-> s.at + n, bytes |-> s.bytes \o SubSeq(Bytes(five), 1, n - 1)]
  IN decoded[Len(letters)].bytes

(***************************************************************************)
(* simage_gdiplus.cpp: the copies go through the source by its stride.     *)
(* That of 16 bit greys adds the bytes of a row to a pointer to two bytes. *)
(* Rows are named by their distance from the first, in strides.            *)
(***************************************************************************)
GdiplusInputs == {[height |-> h, grey |-> g] : h \in 1..MaxHeight, g \in BOOLEAN}

copyImageBuffer(h) == [y \in 1..h |-> h - y]
copy16bppGrayScaleBuffer(h) == [y \in 1..h |-> 2 * (h - y)]

GdiplusRows(in) ==
  IF in.grey THEN copy16bppGrayScaleBuffer(in.height) ELSE copyImageBuffer(in.height)
GdiplusPicture(in) == UpsideDown([y \in 1..in.height |-> y - 1])

(***************************************************************************)
(* The codecs with such loops.  A file whose rows are short is not one.    *)
(***************************************************************************)
RasterCodecs == {"tga", "rgb", "gif", "tiff", "xwd", "gdiplus"}

RasterInputs(codec) ==
  CASE codec = "tga" -> {i \in TgaInputs : Len(Unpacked(i.packets)) >= i.width * i.height}
    [] codec = "rgb" -> {i \in RgbInputs : Len(Unpacked(i.rows)) = i.width}
    [] codec = "gif" -> {i \in GifInputs : i.top + i.height <= i.screen}
    [] codec = "tiff" -> TiffInputs
    [] codec = "xwd" -> XwdInputs
    [] codec = "gdiplus" -> GdiplusInputs

RasterRows(codec, i) ==
  CASE codec = "tga" -> TgaRows(i) [] codec = "rgb" -> RgbRows(i)
    [] codec = "gif" -> GifRows(i) [] codec = "tiff" -> TiffRows(i)
    [] codec = "xwd" -> XwdRows(i) [] codec = "gdiplus" -> GdiplusRows(i)

RasterPicture(codec, i) ==
  CASE codec = "tga" -> TgaPicture(i) [] codec = "rgb" -> RgbPicture(i)
    [] codec = "gif" -> GifPicture(i) [] codec = "tiff" -> TiffPicture(i)
    [] codec = "xwd" -> XwdPicture(i) [] codec = "gdiplus" -> GdiplusPicture(i)
=============================================================================
