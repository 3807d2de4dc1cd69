------------------------------- MODULE Codecs -------------------------------
(***************************************************************************)
(* The image codecs of src/simage_*.c as their callers see them: what a    *)
(* call takes (files, structures of the format's library, memory), what it *)
(* gives back on each of its ways out, the error code it leaves in the     *)
(* codec's static variable for the error function to tell, and, where a    *)
(* codec unpacks its pixels itself, the rows it returns.                   *)
(*                                                                         *)
(* CodecSteps has the words, Rasters the loops over pixels, PlatformCodecs *)
(* the codecs of one system.  A function has several ways where it         *)
(* branches before it may fail.  Left out is memory running out where the  *)
(* code does not check for it.                                             *)
(*                                                                         *)
(* Codecs share nothing, so one is chosen and called for ever.             *)
(***************************************************************************)
EXTENDS PlatformCodecs, Rasters

CONSTANTS
  Codecs,       \* the codecs called
  Handles       \* the most images a client has open line by line, as a set

All == {"rgb", "tga", "gif", "pic", "tiff", "xwd", "png", "jpeg", "jasper", "eps",
        "qimage", "cgimage", "quicktime", "gdiplus"}

ASSUME CodecsAssumption == Codecs \subseteq All

VARIABLES
  codec,        \* the codec called
  error,        \* its static error code
  call,         \* the call in progress, or Idle
  handles,      \* handles[h]: what an open image holds; {} when it is closed
  lost,         \* what calls returned without giving back
  misused,      \* what was given back a second time, or used when not held
  failure,      \* the code the last failed call set, "same" if it set none,
                \* "unread" or "unwritten" if nobody saw the failure
  raster        \* what the last call made of the pixels of a file

vars == <<codec, error, call, handles, lost, misused, failure, raster>>

Idle == [op |-> "none"]
NoRaster == [input |-> <<>>, rows |-> <<>>]

(***************************************************************************)
(* simage_rgb.c                                                            *)
(***************************************************************************)
RgbOpenHeld == {"file", "opendata", "rlebuf", "tmpbuf", "rowseek", "rowlen"}

\* A faulty variant: the file stays open when the size cannot be read.
RgbForgetsFile ==
  { Tries({"file"}, {Exit("open", {})}) \o Checks({Exit("read", {})})
    \o Takes({"opendata", "rlebuf", "tmpbuf"}) }

simage_rgb_open ==
  LET Header == Tries({"file"}, {Exit("open", {})})
                \o Checks({Exit("read", {"file"})})        \* type
                \o Checks({Exit("read", {"file"})})        \* size
                \o Takes({"opendata", "rlebuf", "tmpbuf"})
      Rows == Takes({"rowseek", "rowlen"}) \o Checks({Exit("read", RgbOpenHeld)})
  IN { Header, Header \o Rows }

\* A row that does not fit the buffer replaces it.
simage_rgb_read_line ==
  { Checks({Exit("read", {})}),
    Checks({Exit("read", {})}) \o Gives({"rlebuf"}) \o Takes({"rlebuf"})
      \o Checks({Exit("read", {})}) }

simage_rgb_close == { Gives(RgbOpenHeld) }

\* The lines are read in turn; a failed one frees the image.
simage_rgb_load ==
  { o \o Takes({"image"}) \o Checks({Exit("read", {"image"} \cup RgbOpenHeld)})
      \o Gives(RgbOpenHeld) : o \in simage_rgb_open }

simage_rgb_save ==
  { Tries({"file"}, {Exit("openwrite", {})})
    \o Takes({"tmpbuf"}) \o UncheckedWrite \o Gives({"tmpbuf", "file"}) }

(***************************************************************************)
(* simage_tga.c: there is no free() for the colour map, nor for the packed *)
(* data that could not be read.                                            *)
(***************************************************************************)
simage_tga_load ==
  LET Header == Sets("none")
                \o Tries({"file"}, {Exit("open", {})})
                \o Checks({Exit("read", {"file"})})
                \o Checks({Exit("unsupported", {"file"})})
      Buffers == Takes({"image", "linebuf"})
      Out == {"linebuf", "file", "image"}
      Plain == Checks({Exit("read", Out)})
      Packed == Tries({"packed"}, {Exit("mem", Out)})
                \o Checks({Exit("read", Out)})
                \o Gives({"packed"})
  IN { Header \o map \o Buffers \o body \o Gives({"linebuf", "file"}) :
         map \in {<<>>, Takes({"colormap"})}, body \in {Plain, Packed} }

(***************************************************************************)
(* simage_gif.c: every failure while the records of the file are read      *)
(* leaves the same way, without closing the file.                          *)
(***************************************************************************)
simage_gif_load ==
  { Tries({"giffile"}, {Exit("open", {})})
    \o Tries({"image"}, {Exit("mem", {})})
    \o Tries({"rowdata"}, {Exit("mem", {"image"})})
    \o Checks({Exit("read", {"image", "rowdata"})})
    \o Gives({"rowdata", "giffile"}) }

\* The last failing exit closes the file that EGifCloseFile() has closed.
simage_gif_save ==
  LET Out == {"rgbbuf", "outbuf", "colours"}
      Start == Tries({"rgbbuf"}, {Exit("mem", {})})
              \o Checks({Exit("write", {"rgbbuf"})})         \* components
              \o Tries({"outbuf"}, {Exit("mem", {"rgbbuf"})})
              \o Tries({"colours"}, {Exit("mem", {"rgbbuf", "outbuf"})})
              \o Checks({Exit("mem", Out)})                  \* QuantizeBuffer()
              \o Tries({"giffile"}, {Exit("open", Out)})
              \o Checks({Exit("write", Out \cup {"giffile"})})  \* descriptions
              \o Checks({Exit("write", Out \cup {"giffile"})})  \* lines
              \o Checks({Exit("write", Out \cup {"giffile"})})  \* comment
              \o Gives({"giffile"})
  IN { Start \o Gives(Out),
       Start \o Fails({Exit("write", Out \cup {"giffile"})}) }

(***************************************************************************)
(* simage_pic.c: a file that cannot be opened leaves the code of an        *)
(* earlier call, an empty image none.  When the palette is short the file  *)
(* is at its end, so the rows cannot be read either.  The buffer of a row  *)
(* is freed when one cannot be read, and not at the end.                   *)
(***************************************************************************)
simage_pic_load ==
  LET Header == Tries({"file"}, {Exit("same", {})})
                \o Sets("none")
                \o Checks({Exit("header", {"file"})})        \* width
                \o Checks({Exit("header", {"file"})})        \* height
                \o Checks({Exit("same", {"file"})})          \* an empty image
      Buffers == Checks({Exit("mem", {"file"})})
                 \o Takes({"tmpbuf", "image"})
      Short == {Exit("readerror", {"file", "tmpbuf", "image"})}
  IN { Header \o Buffers \o Checks(Short) \o Gives({"file"}),
       Header \o Sets("palette") \o Buffers \o Fails(Short) }

(***************************************************************************)
(* simage_tiff.c: when a row cannot be read the library is asked for the   *)
(* whole picture.  With four components it reads into the image itself,    *)
(* which tiff_try_read_rgba() then frees if that fails too.  A file of     *)
(* indices without a colour map is in error, and yet its rows are first    *)
(* looked up, through three pointers nobody has set.                       *)
(***************************************************************************)
tiff_try_read_rgba ==
  LET Out == {"inbuf", "tiff", "image"} IN
  { Sets("none"),                                            \* four, read
    Gives({"image"}) \o Fails({Exit("read", Out)}),          \* four, not read
    Takes({"pixels"}) \o Checks({Exit("read", Out \cup {"pixels"})})
      \o Gives({"pixels"}) \o Sets("none") }                \* fewer

\* The photometric, the samples and their size are each missing or refused.
TiffFields(frees) ==
  LET Field == Checks({Exit("unsupported", frees), Exit("read", frees)}) IN
  Field \o Field \o Field \o Checks({Exit("read", frees)})

simage_tiff_load ==
  LET Start == Tries({"tiff"}, {Exit("open", {})})
               \o TiffFields({"tiff"})
               \o Tries({"image"}, {Exit("mem", {"tiff"})})
               \o Sets("none")
      Rows == {<<>>} \cup { Sets("read") \o lookup \o whole :
                            lookup \in {<<>>, Uses({"colormap"})},
                            whole \in tiff_try_read_rgba }
  IN { Start \o Fails({Exit("unsupported", {"tiff", "image"})}) }
     \cup { Start \o Takes({"inbuf"}) \o rows \o Gives({"inbuf", "tiff"}) : rows \in Rows }

\* There is no check of a write but that of a line.
simage_tiff_save ==
  { Tries({"tiff"}, {Exit("openwrite", {})})
    \o Checks({Exit("write", {"tiff"})}) \o UncheckedWrite \o Gives({"tiff"}) }

simage_tiff_open ==
  { Sets("none")
    \o Tries({"tiff"}, {Exit("open", {})})
    \o Takes({"opendata"})
    \o TiffFields({"tiff", "opendata"})
    \o Takes({"inbuf"}) }

simage_tiff_close == { Gives({"tiff", "inbuf", "opendata"}) }

simage_tiff_read_line ==
  { Sets("none") \o Checks({Exit("read", {}), Exit("unsupported", {})}) }

(***************************************************************************)
(* simage_xwd.c: the file is opened twice, whatever the first attempt      *)
(* gives, and closed once.                                                 *)
(***************************************************************************)
simage_xwd_load ==
  { Checks({Exit("stat", {})})
    \o Tries({"contents"}, {Exit("mem", {})})
    \o first
    \o Tries({"file"}, {Exit("open", {"contents"})})
    \o Checks({Exit("read", {"contents", "file"})})
    \o Gives({"file"})
    \o Tries({"image"}, {Exit("mem", {"contents"})})
    \o Gives({"contents"}) : first \in {<<>>, Takes({"firstfile"})} }

(***************************************************************************)
(* simage_png.c: err_callback() jumps out of any call of libpng.  buffer,  *)
(* assigned after setjmp(), is then NULL or the image, as the compiler     *)
(* chose.  simage_png_save() gives png_destroy_write_struct() the address  *)
(* of the info structure for that of its pointer, so that what libpng      *)
(* frees is not info but whatever the first field of info, the width and   *)
(* height of the picture, points to.                                       *)
(***************************************************************************)
\* It does not tell libpng that the file is at its end.  libpng may find out
\* by itself, from what is left in its buffer.
user_read_cb == UncheckedRead

simage_png_load ==
  { Tries({"file"}, {Exit("open", {})})
    \o Tries({"png"}, {Exit("mem", {"file"})})
    \o Tries({"info"}, {Exit("mem", {"file", "png"})})
    \o user_read_cb
    \o Checks({Exit("lib", {"png", "info", "file"})})        \* png_read_info()
    \o Takes({"image", "rows"})
    \o user_read_cb
    \o Checks({Exit("lib", {"png", "info", "file"} \cup buffer) :
                 buffer \in {{}, {"image"}}})                \* png_read_image()
    \o Gives({"rows", "png", "info", "file"})
    \o Sets("none") }

\* It does not tell libpng that the disk is full.
user_write_cb == UncheckedWrite

\* Before png_set_IHDR() the first field of info is NULL.
simage_png_save ==
  LET Start == Tries({"file"}, {Exit("openwrite", {})})
               \o Tries({"png"}, {Exit("openwrite", {"file"})})
               \o Tries({"info"}, {Exit("memwrite", {"file", "png"})})
      Jump == {Exit("libwrite", {"file", "png"})}
  IN { Start \o Checks(Jump) \o user_write_cb \o Gives({"png", "info", "file"}),
       Start \o Uses({"infofield"}) \o Fails(Jump) }

(***************************************************************************)
(* simage_jpeg.c: my_error_exit() jumps out of any call of libjpeg; what   *)
(* was assigned after setjmp() is again the compiler's choice.  tmpbytes,  *)
(* the pixels without alpha, is freed before the last such call.  At the   *)
(* end of a file that is too short fill_input_buffer() warns and makes an  *)
(* end of the picture up, and nobody counts the warnings.                  *)
(***************************************************************************)
fill_input_buffer == UncheckedRead

simage_jpeg_load ==
  { Sets("none")
    \o Tries({"file"}, {Exit("open", {})})
    \o Takes({"jpeg"})
    \o Checks({Exit("lib", {"jpeg", "file"})})               \* up to the size
    \o Tries({"image"}, {Exit("lib", {"jpeg", "file"})})     \* no lines: libjpeg objects
    \o fill_input_buffer
    \o Checks({Exit("lib", {"jpeg", "file"} \cup buffer) :
                 buffer \in {{}, {"image"}}})                \* the lines
    \o Gives({"jpeg", "file"}) }

\* A faulty variant: no code is set when the file cannot be opened.
JpegKeepsCode ==
  { Takes({"jpeg"}) \o Tries({"file"}, {Exit("same", {"jpeg"})}) \o Gives({"jpeg", "file"}) }

simage_jpeg_save ==
  LET Jumps == Checks({Exit("libwrite", {"jpeg", "file"} \cup buffer) :
                         buffer \in {{}, {"tmpbytes"}}})
      Start == Takes({"jpeg"}) \o Tries({"file"}, {Exit("openwrite", {"jpeg"})})
      Finish == Jumps \o Gives({"tmpbytes"}) \o Jumps \o Gives({"jpeg", "file"})
  IN { Start \o Finish, Start \o Takes({"tmpbytes"}) \o Finish }

(***************************************************************************)
(* simage_jasper.c leaves by one way out that frees what there is.         *)
(***************************************************************************)
simage_jasper_load ==
  LET Out == {"decoded", "matrix", "image"}
  IN { Sets("none")
       \o Checks({Exit("init", {})})
       \o Tries({"stream"}, {Exit("open", {})})
       \o Tries({"decoded"}, {Exit("read", {"stream"})})
       \o Gives({"stream"})
       \o Checks({Exit("read", Out)})                        \* components
       \o Tries({"image"}, {Exit("mem", Out)})
       \o Tries({"matrix"}, {Exit("mem", Out)})
       \o Checks({Exit("read", Out)})                        \* pixels
       \o Gives({"decoded", "matrix"}) }

\* simage_eps.c looks at no result but that of opening the file.
simage_eps_save ==
  { Tries({"file"}, {Exit("openwrite", {})}) \o UncheckedWrite \o Gives({"file"}) }

(***************************************************************************)
(* The functions the loaders and savers of the library point to, and the   *)
(* codes for which the error functions have a text.                        *)
(***************************************************************************)
Load == [rgb |-> simage_rgb_load, tga |-> simage_tga_load, gif |-> simage_gif_load,
         pic |-> simage_pic_load, tiff |-> simage_tiff_load, xwd |-> simage_xwd_load,
         png |-> simage_png_load, jpeg |-> simage_jpeg_load, jasper |-> simage_jasper_load,
         qimage |-> simage_qimage_load, cgimage |-> simage_cgimage_load,
         quicktime |-> simage_quicktime_load, gdiplus |-> simage_gdiplus_load]

Save == [rgb |-> simage_rgb_save, gif |-> simage_gif_save, tiff |-> simage_tiff_save,
         png |-> simage_png_save, jpeg |-> simage_jpeg_save, eps |-> simage_eps_save,
         qimage |-> simage_qimage_save, cgimage |-> simage_cgimage_save,
         quicktime |-> simage_quicktime_save, gdiplus |-> simage_gdiplus_save]

Open == [rgb |-> simage_rgb_open, tiff |-> simage_tiff_open, gdiplus |-> simage_gdiplus_open]
ReadLine == [rgb |-> simage_rgb_read_line, tiff |-> simage_tiff_read_line,
             gdiplus |-> simage_gdiplus_read_line \cup simage_gdiplus_read_region]
Close == [rgb |-> simage_rgb_close, tiff |-> simage_tiff_close,
          gdiplus |-> simage_gdiplus_close]

\* Of the others, identify looks at the header it is given, and the list of
\* savers is written down.
Identify == [cgimage |-> simage_cgimage_identify, quicktime |-> simage_quicktime_identify,
             gdiplus |-> simage_gdiplus_identify]
Savers == [qimage |-> simage_qimage_get_savers, cgimage |-> simage_cgimage_get_savers,
           quicktime |-> simage_quicktime_get_savers, gdiplus |-> simage_gdiplus_get_savers]

simage_rgb_error == {"open", "read", "mem", "openwrite"}
simage_tga_error == {"open", "read", "mem"}
simage_gif_error == {"open", "read", "write", "mem"}
simage_pic_error == {"header", "palette", "mem", "readerror"}
simage_tiff_error == {"open", "mem", "unsupported", "lib", "openwrite", "write"}
simage_xwd_error == {"stat", "open", "read", "mem", "unsupported"}
simage_png_error == {"open", "mem", "lib", "openwrite", "libwrite", "memwrite"}
simage_jpeg_error == {"open", "mem", "lib", "openwrite", "libwrite"}
simage_jasper_error == {"init", "open", "read", "mem", "unsupported"}
simage_eps_error == {"openwrite"}

Texts == [rgb |-> simage_rgb_error, tga |-> simage_tga_error, gif |-> simage_gif_error,
          pic |-> simage_pic_error, tiff |-> simage_tiff_error, xwd |-> simage_xwd_error,
          png |-> simage_png_error, jpeg |-> simage_jpeg_error,
          jasper |-> simage_jasper_error, eps |-> simage_eps_error,
          qimage |-> simage_qimage_error, cgimage |-> simage_cgimage_error,
          quicktime |-> simage_quicktime_error, gdiplus |-> simage_gdiplus_error]

(***************************************************************************)
(* Calls.                                                                  *)
(***************************************************************************)
Begins(op, ways, h, held) ==
  /\ call = Idle
  /\ \E way \in ways :
       call' = [op |-> op, rest |-> way, handle |-> h, held |-> held, freed |-> {},
                unseen |-> "none"]
  /\ failure' = "none" /\ raster' = NoRaster
  /\ UNCHANGED <<codec, error, handles, lost, misused>>

BeginLoad == codec \in DOMAIN Load /\ Begins("load", Load[codec], "none", {})
BeginSave == codec \in DOMAIN Save /\ Begins("save", Save[codec], "none", {})
BeginIdentify == codec \in DOMAIN Identify /\ Begins("identify", Identify[codec], "none", {})
BeginSavers == codec \in DOMAIN Savers /\ Begins("savers", Savers[codec], "none", {})

BeginOpen(h) ==
  codec \in DOMAIN Open /\ handles[h] = {} /\ Begins("open", Open[codec], h, {})
BeginReadLine(h) ==
  /\ codec \in DOMAIN ReadLine /\ handles[h] # {}
  /\ Begins("readline", ReadLine[codec], h, handles[h])
BeginClose(h) ==
  /\ codec \in DOMAIN Close /\ handles[h] # {}
  /\ Begins("close", Close[codec], h, handles[h])

\* What a call returns to its client.
Returned(op) == CASE op = "load" -> {"image"} [] op = "savers" -> {"list"} [] OTHER -> {}

\* free() of a pointer that is NULL does nothing; of one freed before, harm.
GivesBack(R, used) ==
  misused' = misused \cup {r \in R : r \in call.freed /\ r \notin call.held}
                     \cup (used \ call.held)

Sets_error(code) == error' = IF code = "same" THEN error ELSE code

Goes ==
  /\ call # Idle /\ call.rest # <<>>
  /\ LET step == Head(call.rest) IN
       /\ step.goes
       /\ GivesBack(step.give, step.use)
       /\ Sets_error(step.sets)
       /\ \E unseen \in {call.unseen} \cup ({step.unseen} \ {"none"}) :
            call' = [call EXCEPT
              !.rest = Tail(@),
              !.held = (@ \ step.give) \cup step.take,
              !.freed = (@ \cup (step.give \cap call.held)) \ step.take,
              !.unseen = unseen]
  /\ UNCHANGED <<codec, handles, lost, failure, raster>>

\* What an open image holds stays with it when a line cannot be read.  A file
\* that is not recognised is no failure.
Leaves ==
  /\ call # Idle /\ call.rest # <<>>
  /\ \E exit \in Head(call.rest).exits :
       LET left == call.held \ exit.frees IN
       /\ GivesBack(exit.frees, {})
       /\ Sets_error(exit.code)
       /\ failure' = IF call.op \in {"identify", "savers"} THEN "none" ELSE exit.code
       /\ IF call.op = "readline"
            THEN handles' = [handles EXCEPT ![call.handle] = left] /\ UNCHANGED lost
            ELSE lost' = lost \cup left /\ UNCHANGED handles
  /\ call' = Idle
  /\ UNCHANGED <<codec, raster>>

\* The pixels of the file that was read, or the text of those written.
Draws ==
  CASE call.op = "load" /\ codec \in RasterCodecs ->
         \E i \in RasterInputs(codec) :
           raster' = [input |-> i, rows |-> RasterRows(codec, i)]
    [] call.op = "save" /\ codec = "eps" ->
         \E i \in EpsInputs : raster' = [input |-> i, rows |-> EpsText(i)]
    [] OTHER -> raster' = NoRaster

\* A loaded image goes to the client, an open one keeps what it took.
Returns ==
  /\ call # Idle /\ call.rest = <<>>
  /\ IF call.op \in {"open", "readline"}
       THEN handles' = [handles EXCEPT ![call.handle] = call.held] /\ UNCHANGED lost
       ELSE /\ lost' = lost \cup (call.held \ Returned(call.op))
            /\ handles' = IF call.op = "close"
                            THEN [handles EXCEPT ![call.handle] = {}] ELSE handles
  /\ failure' = call.unseen
  /\ Draws
  /\ call' = Idle
  /\ UNCHANGED <<codec, error, misused>>

\* The client asks for the text.  Only ImageIO's codec forgets its code then.
Tells ==
  /\ call = Idle /\ failure \notin {"none", "unread", "unwritten"}
  /\ error' = IF codec = "cgimage" THEN "none" ELSE error
  /\ failure' = "none"
  /\ UNCHANGED <<codec, call, handles, lost, misused, raster>>

Init ==
  /\ codec \in Codecs
  /\ error = "none" /\ call = Idle /\ failure = "none" /\ raster = NoRaster
  /\ handles = [h \in Handles |-> {}]
  /\ lost = {} /\ misused = {}

Next ==
  \/ BeginLoad \/ BeginSave \/ BeginIdentify \/ BeginSavers
  \/ \E h \in Handles : BeginOpen(h) \/ BeginReadLine(h) \/ BeginClose(h)
  \/ Goes \/ Leaves \/ Returns \/ Tells

Spec == Init /\ [][Next]_vars

-----------------------------------------------------------------------------
(* Properties.                                                             *)

(***************************************************************************)
(* A line that cannot be read leaves its image open and whole, so that     *)
(* closing it gives back everything: TIFF images hold three things, RGB    *)
(* images four or six, GDI+ images one.                                    *)
(***************************************************************************)
OpenImagesAreWhole ==
  \A h \in Handles :
    handles[h] \in {{}, {"tiff", "inbuf", "opendata"}, RgbOpenHeld,
                    RgbOpenHeld \ {"rowseek", "rowlen"}, {"bitmap"}}

(***************************************************************************)
(* Whatever fails, and on whatever way, a call gives back all it took and  *)
(* gives nothing back twice nor uses what it no longer has, but for these: *)
(* the colour map and unread data of TGA, the file of GIF (and closing it  *)
(* twice), the row of PIC, the first file of XWD, the row pointers, image  *)
(* and info of PNG, with what libpng takes the start of info to point to   *)
(* used instead, the image and stripped pixels of JPEG, the image of TIFF, *)
(* freed twice, and its colour map, used when there is none, the pixels    *)
(* ImageIO writes after they are freed, most of what QuickTime takes, and  *)
(* GDI+'s unchecked locks.                                                 *)
(***************************************************************************)
KnownLosses == [tga |-> {"colormap", "packed"}, gif |-> {"giffile"}, pic |-> {"tmpbuf"},
                xwd |-> {"firstfile"},
                png |-> {"rows", "image", "info"}, jpeg |-> {"image", "tmpbytes"},
                quicktime |-> {"cfstr", "ustr", "importer", "description", "gworld",
                               "newpx", "cstr", "ext", "string", "exporter"}]
KnownMisuse == [gif |-> {"giffile"}, png |-> {"infofield"}, jpeg |-> {"tmpbytes"},
                tiff |-> {"image", "colormap"}, cgimage |-> {"flipped"},
                quicktime |-> {"importer", "exporter"}, gdiplus |-> {"lock"}]
Of(table) == IF codec \in DOMAIN table THEN table[codec] ELSE {}

CallsGiveBack ==
  OpenImagesAreWhole /\ lost \subseteq Of(KnownLosses) /\ misused \subseteq Of(KnownMisuse)

(***************************************************************************)
(* The text after a failed call is that of this failure, not of an earlier *)
(* one, but where tga refuses a file, tiff cannot read one, pic cannot     *)
(* open one or finds it empty, and ImageIO cannot write.  A call that      *)
(* returns success has done its work, but for saves in RGB, TIFF, EPS and  *)
(* PNG and with GDI+, where a full disk goes unnoticed, and for loads of   *)
(* JPEG and PNG files that end too soon.                                   *)
(***************************************************************************)
Untold == {<<"tga", "unsupported">>, <<"tiff", "read">>, <<"pic", "same">>,
           <<"cgimage", "write">>}
Unnoticed == ({"rgb", "tiff", "eps", "png", "gdiplus"} \X {"unwritten"})
             \cup ({"jpeg", "png"} \X {"unread"})

FailuresAreTold ==
  call = Idle /\ failure # "none" =>
    \/ error = failure /\ failure \in Texts[codec]
    \/ <<codec, failure>> \in Untold \cup Unnoticed

(***************************************************************************)
(* The rows of a loaded image are the picture the file encodes, each pixel *)
(* once and the lowest row first, through packets that cross rows, passes  *)
(* of heights below eight, planes and bits across bytes; and ASCII85 gives *)
(* back the bytes that were saved, in lines of the same length, without    *)
(* writing behind the line buffer.  Four pictures come out wrong: a TGA    *)
(* picture whose origin is not the lower left, as nobody looks at it; a    *)
(* TIFF picture in planes, where greens and blues change places; TIFF      *)
(* greys or indices with another sample beside each, as simage_tiff_save() *)
(* writes greys with alpha, where the others are taken for pixels; and a   *)
(* 16 bit grey picture of GDI+, of which every row but the top one is      *)
(* another row's or none.                                                  *)
(***************************************************************************)
WrongPicture(i) ==
  \/ codec = "tga" /\ TgaPicture(i) # TgaPicture([i EXCEPT !.top = FALSE, !.right = FALSE])
  \/ codec = "tiff" /\ i.photometric = "rgb" /\ i.separate
  \/ codec = "tiff" /\ i.photometric # "rgb" /\ ~i.separate /\ i.components > 1 /\ i.width > 1
  \/ codec = "gdiplus" /\ i.grey /\ i.height > 1

RastersAreWhole ==
  raster # NoRaster =>
    IF codec = "eps"
      THEN LET lines == raster.rows.lines IN
           /\ EpsBytes(FlattenSeq(lines)) = raster.input
           /\ \A n \in 1..(Len(lines) - 1) : Len(lines[n]) = RowLen
           /\ raster.rows.used < RowLen + 5
      ELSE (raster.rows = RasterPicture(codec, raster.input)) = ~WrongPicture(raster.input)
=============================================================================
