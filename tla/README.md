# A verification development for simage

simage is a C library that loads, saves, resizes and streams images, writes
MPEG and AVI movies and reads and writes audio streams. It has no threads: what
makes it hard is state kept in global lists and in long-lived objects, memory
whose owner is decided by a flag, callbacks into client code, codecs that fail
half way, and encoders that reorder what they are given.

The modules here model the library's own logic (`src/` and the movie writer in
`mpeg2enc/`), TLC checks them on small instances, and TLAPS proves the most
important facts for every value of the constants. Paths below are relative to
the repository.

## Inventory

| Part | Source | State it keeps | Operations | What makes it correct |
|---|---|---|---|---|
| Loader registry | `src/simage.c` | list of loader nodes (`first_loader`, `last_loader`, `next`), the once-only flag of `add_internal_loaders()`, `simage_error_msg` | `simage_add_loader`, `simage_remove_loader`, `simage_read_image`, `simage_check_supported`, `simage_get_last_error` | pointers spell the registration order; a search asks every loader in order; client overrides win; the error text tells the last outcome |
| Image objects | `src/simage12.c`, `src/simage.c` | `s_image`: size, pixel buffer and `didalloc`, codec handle, file name | create, destroy, set, load, open, read_line, data, save | one owner per buffer, handle and string; a line and a saved buffer are the image's own pixels |
| Saver registry | `src/simage_write.c` | list of saver nodes with extensions | add, remove, find by extension, save, describe | as for loaders; internal savers are never freed |
| Parameters | `src/params.c` | list of named, typed values | set, get, copy, destroy | last value set wins per name and type; a copy is independent |
| Streams and movies | `src/stream.c`, `src/movie.c` | importer/exporter lists; an open stream or movie with its codec context | add, open, create, get, put, seek, tell, close, destroy | only the codec that accepted the file is called; nothing after close |
| Audio codecs | `src/simage_libsndfile.c`, `src/simage_oggvorbis_reader.c` | decoder contexts | open, get, seek, tell, close | samples in order, none lost at the end |
| AVI writer | `src/simage_avi.c`, `src/avi_encode.c` | encoder context, BGR conversion | create, put, close | a frame is written in BGR and the caller's image is changed only with leave |
| MPEG writer | `mpeg2enc/api.c`, `mpeg2enc/putseq.c` | input buffer of one group, coding order, rate control | create, put, close; error by `longjmp` | every frame is coded once, references straddle B pictures, display order is the order put |
| Image codecs | `src/simage_{tga,rgb,pic,gif,tiff,xwd,png,jpeg,jasper,eps}.c` | static error code, decoder state | identify, load, save, open, read_line, close | everything taken is given back on every way out; every failure is told; the rows are the picture of the file |
| Platform codecs | `src/simage_gdiplus.cpp`, `src/simage_qimage.cpp`, `src/simage_quicktime.c`, `src/simage_cgimage.c` | static error code | identify, load, save; GDI+ also line by line | as for the image codecs |
| Resizing | `src/resize.c`, `src/simage13.c` | none | `simage_resize`, `simage_resize3d` | every access inside the image and the room made for it; an even area stays even |
| Helpers | `src/simage.c` | none | `simage_next_power_of_two`, `simage_version`, `simage_free_image` | the least power that is not below |
| MPEG encoder core | `mpeg2enc/{conform,puthdr,putbits,readpic,motion,predict,putpic,putmpg,ratectl}.c` | parameters, the predictors of a slice, what was found for each macroblock | read parameters, headers, motion estimation, prediction, macroblocks | a decoder gets the parameters and the pictures the encoder meant |
| Its arithmetic, `giflib/`, `guile/`, examples, build files | `mpeg2enc/`, ... | | | third-party or outside the library's logic |

How they interact: `s_image_open`/`s_image_load` search the loader registry and
read through the codec it returns; `s_image_save` asks the image for its data
and passes it to the saver registry; `s_movie_put` hands images to the AVI or
MPEG writer, which read them through `s_image_data`; movies and streams carry a
parameter list. All errors meet in the one global `simage_error_msg`.

What is hard: plugin callbacks that re-enter the library in the middle of a
walk; ownership that changes with `didalloc`; a failed line that turns an open
image into a loaded one; B pictures, which are coded after frames put later;
and `longjmp` out of the encoder between two frames of a group.

`PROJECT.json` has the same inventory with the modelling status of each part,
and the list of hazards at their lines, with the properties that cover them.

## Modules

| Module | Models | Composes or uses |
|---|---|---|
| `LoaderRegistry` | abstract: a sequence of loaders and the search through it | |
| `Loaders` | `src/simage.c`, the registry and the two calls that search it | |
| `LoadersRefinement` | the refinement mapping from `Loaders` to `LoaderRegistry` | both |
| `Loaders_proofs` | theorems about `Loaders` and the refinement | `LoadersRefinement` |
| `SImage` | `src/simage12.c` and the line access of `src/simage.c` | |
| `SImage_proofs` | theorems about `SImage` | `SImage` |
| `MpegSequence` | the frame by frame encoder of `mpeg2enc/api.c` and `putseq.c` | |
| `MpegSequence_proofs` | theorems about `MpegSequence` | `MpegSequence` |
| `Savers` | `src/simage_write.c` | |
| `Savers_proofs` | theorems about `Savers` | `Savers` |
| `ParamMaps` | abstract: a map from names and types to values per object | |
| `Params` | `src/params.c` | instances `ParamMaps` |
| `Params_proofs` | theorems about `Params` | `Params` |
| `Streams` | `src/stream.c` with both audio importers | |
| `Streams_proofs` | theorems about `Streams` | `Streams` |
| `Movies` | `src/movie.c` with the AVI writer | |
| `Movies_proofs` | theorems about `Movies` | `Movies` |
| `CodecSteps` | what a call of a codec is made of | |
| `PlatformCodecs` | the calls of Qt, ImageIO, QuickTime and GDI+ | `CodecSteps` |
| `Rasters` | the loops over pixels of the codecs | |
| `Codecs` | the calls of ten image codecs, and the state all fourteen keep | `PlatformCodecs`, `Rasters` |
| `Floats` | single precision numbers, as the resizer and the sampler round them | |
| `Resize` | `src/resize.c`, `src/simage13.c`, the next power of two | `Floats` |
| `MpegParameters` | the parameter file's checks and the headers: `conform.c`, `puthdr.c` | |
| `MpegMotion` | `motion.c` and `predict.c`: what is searched and what is predicted | `MpegParameters` |
| `MpegMacroblocks` | `putpic.c` and its decoder: what is written, what is left out | `MpegMotion` |
| `MpegFrames` | `readpic.c`: the planes of a frame, borders and filters of chrominance | `MpegMotion` |
| `MpegPictures` | a movie from its parameters to its macroblocks | `MpegMacroblocks`, `MpegFrames` |
| `MpegPictures_proofs` | theorems about `MpegPictures` | `MpegPictures` |

Each `MC` module gives the constants of one of these their values, and each
`.cfg` is a run. A definition in a model is named after the function it models,
and where a function has several outcomes each is an action of its own:
`LoadSucceeds` and `LoadFails`, `FromCodec` and `LineFails`. Every definition
that models code has its lines in the `map` of `PROJECT.json`.

### Loaders

The list is modelled as it is in memory: `first_loader`, `last_loader` and
`next[l]`, with `allocated`, the nodes malloc gave and free has not taken.
`order`, the sequence of registrations, is a history variable that no action
reads to decide what to do. `add_loader()` has its three branches
(`ToEmptyList`, `AtHead`, `AtTail`), removal walks to the predecessor.

A plugin is client code and may call the library again, so a call in progress
is a frame on `stack`. `TryNext` is one turn of the loop of `find_loader()`;
between two turns a plugin of `Callbackers` may add, remove, check or read. The
frame holds the node the walk stands on, whose `next` is read after the callback
returns and must not lead to a freed node: `CursorLive`. A plugin may also remove
itself while it is being asked, and nothing in the code stops it: the calls that
stand on it become `stray`, and what they then read through their pointer
(`ReadPointer`) may be any node or none. Properties of walks except the stray
ones; that they occur is one of the things found.
`add_internal_loaders()` is its calls, one per step, before anything else can
happen.

`LoaderRegistry` says what clients may think of all this: a sequence, and a
search that answers with the first loader in it that recognises the file. It is
checked with callbacks that keep to themselves, because a search that is
interrupted by a registration has no single point at which it happens.

### SImage

The heap is a set of blocks, each `"free"` or allocated as a pixel buffer, a
codec handle, a name, or a buffer of the client's. `data`, `opendata` and
`openfilename` are pointers into it and `didalloc` says who frees. `pixels[b]`
is the picture a block was filled from; `shows[i]` is a history variable, the
picture that the last call on image i was about. `s_image_load()` is
`LoadNew` or, with a preallocated image, `CopyInto`, `CopiesNothing` and
`CopyIntoNull`, for the outcomes of its `memcpy`; `s_image_read_line()` is
`FromBuffer`, `FromCodec`, `LineFails` and `FallsBack`, the branch that loads
the whole file after a failure.

Two losses and one wrong picture are in the code; `spoilt`, `refilled` and
`renamed` remember where they have happened, and the properties say that they
happen nowhere else. `out` is what the last line or save delivered and of which
image, so an image spoilt by `s_image_data()` excuses only its own lines.

### MpegSequence

A frame is its number. `simpeg_encode_bitmap()` holds B frames back in
`bufbuf` until the reference after them arrives, then encodes the reference and
the held frames through `SimpegWrite_putseq_encode_bitmap()`, which derives
type, number and references of a picture from `frame`, its own counter in
coding order. Each picture is a step (`ReferenceFrame`, `HeldFrame`) because
`longjmp()` may leave the call at any of them, and what a failure leaves behind
(`failures`) is the state the next call meets. `stream` is the file. `left` is
what rate control still counts on in the group, `Np` and `Nb`: a P or B picture
each, or two of them for the fields of a frame (`fieldpic`).

### Savers

The list is a sequence; its pointers are the same code as those of the loaders,
which are modelled in full there. What is particular here is memory: the
internal savers live in static structs or are malloc'ed and can be removed by
clients all the same (`heap`, `freedStatic`). A save in progress is an entry of
`saving`, `stray` when its saver has been removed by a nested call, so that the
pointer to `error_func` is read from freed memory (`SaveFailsAstray`). `checked` and `counted` are history variables: what was promised by
`simage_check_save_supported()` and `simage_get_num_savers()` since the list
last changed.

### Params

`s_params_set()` and `s_params_get()` take any number of arguments and stop at
the first unknown type, with those before it done. Each argument is a step.
Strings are blocks with a text, and `StringsOwned` is that each belongs to one
entry of one list. `ParamMaps` is the promise: a map per object, with the type
a part of the key.

### Streams

A walk through the importers is one step per importer, since an importer's
open function is client code. `status`, `codec` and `filename` are the fields of
`s_stream`, `handles` the files open in the importers, `pos` where the decoder
stands. The vorbis reader loops over `ov_read()`, one step per packet, and a
hole (`OV_HOLE`) may come at any of them; a call that meets a hole or the end
returns no buffer, and what it had decoded before is lost. `read` has what the
call in progress delivered, `expect` the frame a client takes to come next and
`allowance` the sum of what such calls may have lost, less than a buffer each.
The buffer of doubles of the libsndfile reader, which is allocated anew on every
call, is left out.

### Movies

`s_movie_create()` asks the exporters one by one. `avi_begin_encode()` makes
one call to Video for Windows after the other, each of which may fail, and each
has an action that undoes on failure what the code undoes: `taken` is what it holds, `lost` what it forgot. An image is the order
of the components in its buffer and the order it says; the four `Put` actions
are the branches of `s_avi_put()`. `mpeg2enc_movie_put()` hands the buffer on as it
is. For both encoders `frames` has the image and the order of its components as
the encoder got them, and the order that was due.

### Codecs

Fourteen codecs in one shape. A call is a sequence of steps, each of which takes
or gives back resources, may set the codec's static error code, and may leave by
one of its exits, with the resources freed there. The tables (`simage_rgb_load`
and so on) are written from the functions, in the order of their statements,
one sequence per way through the function. The actions run a table: `Goes`,
`Leaves`, `Returns`. `lost` and `misused` remember what was never given back,
and what was given back twice or used without being held.

A load also has its pixels: `Rasters` has for each codec with a loop over them
the set of its inputs, the rows the code makes (`raster`) and the rows the format
says. A pixel is a number that tells its place in the file, so that a row in the
wrong place, a skipped pixel or a swapped plane shows. Run lengths of TGA and SGI RGB
and the corners a TGA picture may begin in, the passes of GIF, the planes of TIFF
with its greys, black or white first, its colour maps of 8 or 16 bits and other
samples beside them, the bits of XWD, the formats of GDI+ and the ASCII85 of EPS
are there; other colours are not. `UncheckedRead` and `UncheckedWrite` are
failures that nobody notices: a full disk, a file that ends too soon.

### Resize

`zoom()` makes, for every position of the new row, a list of contributions:
pixels of the old row with weights, mirrored at its borders. `Contributions` is
that list as the code computes it, in the floats of `Floats`, and weights as
exact fractions. `simage_resize3d()` walks by steps that are added up in
rounded floats, so `Samples` adds them in the same order. `Drift` is what the
roundings of so many steps can come to.

### MPEG pictures

`readparmfile` refuses or adjusts a parameter file (`IsAccepted`, `Adjusted`:
the limits of profiles and levels, of MPEG-1, of scans and windows).
`SimpegWrite_putseq_begin` writes the sequence headers, field by field and cut
to their widths. A picture is then coded macroblock by macroblock.

`frame_ME` and `field_ME` give all that motion estimation may leave in `mbinfo`:
which vectors win depends on pixels, which are not there, so every outcome of
each search is possible: all the points it looks at (`Points`), all nine
differences of dual prime, fields of any parities interpolated. The constants
`Ends` and `EndPairs` are bounds that let TLC leave points out; the theorems hold
for any. Each outcome comes with `measured`, the blocks of the reference pictures
by which it was chosen. `predict_mb` gives the blocks it
is then predicted from, with the coordinates converted as `predict.c` does.

`putpict` skips a macroblock or writes it, with the predictors of vectors, DC
values, the quantiser and the increment of the address that it carries on.
`dec` is a decoder, that of ISO/IEC 13818-2 and 11172-2: it reads what is
written (`Shown`, `DecoderAfter`) and infers what is not (`ShownSkipped`,
`DecoderAfterSkipped`). `follows` compares what it shows with what was meant.

`MpegFrames` gives, for each sample of a chrominance plane, the taps of its
filter: which row or column with which weight. `ChrominanceInPlace` says that
they lie about the place where a decoder takes the sample to be, and nowhere but
in the image and the field they belong to.

## Runs

The bounds are chosen so that each branch is taken and each pair of calls can
meet. The libraries' lists have no branch that tells three elements from four,
and the objects touch each other only through shared blocks, so two objects and
a pool in which they compete are enough.

| Run | Bounds | Shows |
|---|---|---|
| `MCLoaders_flat` | 2 plugins, 3 internal loaders, 4 files, no re-entry | `Loaders` implements `LoaderRegistry`; every search ends; the error text is that of the last read |
| `MCLoaders_callbacks` | 3 plugins, two of which re-enter and may remove themselves, 3 internal loaders, depth 2, 3 files | the pointers spell the registrations; no walk stands on a freed node, and no loader that would have recognised the file is passed over, unless the walk's own loader was removed; overrides win |
| `MCSImage_core` | 2 images, 4 blocks, 2 sizes, 2 files, with symmetry | one owner for everything; the right picture, but for an image's own `s_image_data()` when it was opened; no loss but two |
| `MCSImage_save` | as above | a violation: a saved image nobody decoded |
| `MCMpegSequence_core` | 8 shapes, with and without field pictures, announced 1 to 13, up to 13 frames, 1 failure | no frame lost or repeated; display order and temporal references, up to the cut last group; references; rate control budget |
| `MCSavers_core` | 2 plugins, one of which saves from within its save and has a text for errors, 3 internal savers, one of them without a text, two spellings of an extension, depth 2 | memory is that of the list; overrides are found; checks predict saves; counting is complete; the error text is that of the last save |
| `MCParams_core` | 2 objects, 4 strings, 4 and 2 kinds of call | `Params` implements `ParamMaps`; strings have one owner; answers stay |
| `MCStreams_core` | 2 streams, 2 importers of clients, one of which may be added by the other, buffers of 2 and 3 frames, files of 3 and 5, packets of 2, 1 hole | the right importer; no file left open; contiguous delivery; positions; the loss at a hole or the end is less than a buffer for each call that met it |
| `MCMovies_core` | 2 movies, 2 images, 2 frames in a movie and 3 in both together, with symmetry | handles; what AVI holds and loses; colours; which image is which frame |
| `MCCodecs_core` | all fourteen codecs, 2 images open; pictures up to 3 by 3, with 3 packets of up to 3 pixels, up to 12 rows for the passes of GIF; 9 bytes of EPS in lines of 7 letters | resources; error texts; rows |
| `MCResize_core` | every pair of sizes up to 8 and four shrinking ones up to 602; boxes with axes up to 7 and three long ones, of 281 to 506, 241 to 562 and 1028 to 8226 pixels; integers of 7 bits | contributions; weights; sampled positions; powers of two |
| `MCMpegPictures_core` | some 6400 parameter files, 8 of them with pictures of 3 by 2 macroblocks; filters of frames up to 64 by 64 | headers; macroblocks; predictions; vectors; the place of chrominance |

Thirteen frames are two whole groups of six and a beginning, or four of three,
so every shape sees a full group, a last short one and every length in between,
against every announced length. Four blocks are the buffer, handle and name of
one image and one more for which the other image competes.

A packet of three crosses a row of two, and three of them cross two rows; heights
up to ten have GIF passes with no row, one and two. A parameter file is one of
the two defaults with any two values changed to one near a limit, or with one
changed and the windows and f_codes replaced. A slice of three macroblocks has
the one in the middle, which alone may be skipped, between a first and a last
one that may not, and a picture has two slices, so that what must begin anew
does. Of the ends of a search those are kept that can tell a fault: the place it
begins at and the four corners of the window, for two halves of a macroblock
opposite corners (`BeginOrCorner`, `OppositeCorners`); for the rate control two
demands, the lowest and a high one (`Demands`). A window that crosses the range of
an f_code makes the differences of vectors wrap.

A plugin is both interrupted and registered anew in two levels of calls, so depth
2 is the least at which a nested call can remove the loader or saver of the outer
one. On two of the long axes of `resize3d` the sum of rounded steps is in the pixel
before or after the one of the exact position, and on the third it leaves the
image; 600 to 20 has the same scale as 300 to 10, and 602 to 21 another one
whose width is rounded down.

Two runs have a `VIEW`, which takes two states for one that differ only in what no
action reads and no property of the run tells apart: in `MCLoaders_callbacks` the
error text and the histories of how searches and reads ended, in `MCSavers_core`
the spelling that a save was called with, once its saver is found.

`CHECK_DEADLOCK FALSE` is set where the program stops: in `MpegSequence` when
the movie is closed or the client has no frames left, and in `SImage` and
`Params` when the pool of blocks is used up by what is lost or held. In
`MpegPictures` a refused parameter file stops, and so does an accepted one
whose pictures are not among those coded.

### Fairness

Only `SearchesEnd` needs any. `FairSpec` of `Loaders` is weak fairness of
`CallStep`, the steps of a call in progress: the library has no threads and does
not wait, so a call that can go on goes on. Nothing is assumed of clients. It is
checked where plugins do not re-enter; a plugin that reads itself for ever
recurses for ever, and the code does nothing about it.

### What the runs found

* `MCSImage_save`: `s_image_data()` on an image opened line by line
  gives the image its new buffer before it reads the lines, which therefore come
  from that buffer instead of the file, and `s_image_save()` writes it
  (`src/simage12.c:113`).

Seen while modelling, and kept in the models as the code has them:

* A plugin that removes itself from its `identify_func` makes `find_loader()`
  read the next field of freed memory (`src/simage.c:165`), and
  `simage_read_image()` a function pointer if it does so from either callback;
  a saver that removes itself while it saves likewise
  (`src/simage_write.c:458`). `simage.h` does not forbid it.
* An oggvorbis read that meets a hole or the end with part of its buffer full
  returns nothing (`src/simage_oggvorbis_reader.c:157`): what it had decoded is
  lost, and the position is behind it.
* An image in BGR, as an AVI put with the leave to modify it leaves it, goes to
  the MPEG encoder as if it were RGB (`mpeg2enc/api.c:144`): red for blue.
* JPEG and PNG files that end too soon are loaded with success: libjpeg warns and
  makes up an end (`src/simage_jpeg_reader.icc:92`), `user_read_cb()` does not
  look at what it read (`src/simage_png.c:106`).
* An error in `simage_png_save()` passes `info_ptr` where its address is due
  (`src/simage_png.c:352`), so libpng frees what the first field of info points
  to, if anything, instead of info.
* A TIFF file of indices without a colour map sets the error and goes on to look
  its rows up through pointers never set (`src/simage_tiff.c:338`).
* A TGA picture that begins in another corner than the lower left comes out
  turned (`src/simage_tga.c:68`), and a TIFF picture of greys with alpha, as
  `simage_tiff_save()` writes it, takes the alphas for pixels
  (`src/simage_tiff.c:293`).
* `simage_resize3d()` from 1028 to 8226 adds up its rounded steps until the last
  one begins behind the image (`src/simage13.c:54`).
* A put that fails among the frames that were held back leaves them where they
  are (`mpeg2enc/api.c:298`), so the next put codes those that were already done
  once more. `EveryFrameOnce` is about movies closed without an error.
* "num frames" is 10 when a client does not set it, and every frame after the
  tenth gets the same display number (`mpeg2enc/putseq.c:470`).
* The buffer that `s_image_read_line()` loads after a failed line is never
  freed, since `didalloc` stays 0 (`src/simage.c:472`).
* `s_image_load()` with an image opened line by line copies to the null
  pointer (`src/simage12.c:179`).
* `simage_get_saver_handle()` does not install the internal savers, so as a
  first call it sees none (`src/simage_write.c:529`).
* A put that fails on an image whose "allow image modification" parameter is set
  leaves its components swapped and labelled RGB (`src/simage_avi.c:107`).
* The frames still held back at the end of a movie are coded one after the other
  as if a reference frame had come before them (`mpeg2enc/api.c:346`): the first
  of them becomes the reference that never came and is shown last
  (`FirstOfTheTailIsLast`). `simpeg_encode_putseq()`, which reads the frames
  itself, has them in order.
* `simage.h:203` promises an error message for a failed read.
  `simage_tga_error()` has none for `ERR_UNSUPPORTED` (`src/simage_tga.c:54`),
  which its loader sets for files it recognised, `simage_tiff_error()` none for
  `ERR_READ`, and `simage_cgimage.c` none for `ERR_WRITE` (`Untold`).
* Saves in RGB, TIFF, EPS, PNG and with GDI+ return success on a full disk
  (`Unnoticed`): the results of writing are dropped (`src/simage_png.c:118`).
* `simage_pic_load()` frees its line buffer on no way of success;
  `KnownLosses` and `KnownMisuse` in `Codecs` have the other codecs'. ImageIO is
  handed pixels that were freed, and the QuickTime codec gives back what an
  unset component variable names.
* A TIFF file in planes gets its greens and blues swapped
  (`src/simage_tiff.c:127` and its call in line 395), and the rows of a 16 bit
  grey picture of GDI+ are read at twice their distance
  (`src/simage_gdiplus.cpp:267`).
* Rate control counts on the frames announced. Once more are put, the numbers of
  P and B pictures it counts on are zero or less, and `rc_init_pict()` may divide
  by zero (`mpeg2enc/ratectl.c:113`).
* The last tap of the twelve of a filter is bounded like the one before
  (`mpeg2enc/readpic.c:491` and 573), so it takes the pixel after a row's end,
  and past the plane's end in its last row. The MPEG-2 filter for columns weighs
  514 of 512, so neutral chrominance becomes 129.
* The lower border of an interlaced frame repeats the last line of the image in
  both fields (`mpeg2enc/readpic.c:453`), so one field's border is the other's.
* Resizing to the same size is no identity: it blurs with weights 1/8, 3/4, 1/8.
  Enlarging keeps an even area but for the truncation of 255 to 254; shrinking
  keeps it within two hundredths. Where the width of the filter should be a whole
  number of halves and is rounded down, as from 300 to 10 or from 600 to 20, a
  position may have one contribution more than there is room for
  (`RoundedDown`), and rows of one pixel, or that are
  to become one, mirror to pixels outside.
* `simage_next_power_of_two()` of a negative number does not end, and above the
  largest power it is the lowest negative number.
* MPEG-1 parameters whose horizontal and vertical f_codes differ are accepted,
  though the headers say only one; field pictures with `frame_pred_dct` set are
  accepted, and get no motion type, which such pictures always need
  (`IsFollowable`).
* MPEG-1 with 4:2:2 or 4:4:4 and an odd size is accepted, since chrominance is
  reduced after the sizes were checked (`IsStable`).
* Pictures of 2785 to 2800 interlaced lines, and MPEG-1 ones of more, have
  slices whose start code is that of something else (`HasSliceCodes`).
* `dpframe_estimate()` reads variables it has not set when none of the
  candidates lies in the picture (`MayMeasureUnset`, `mpeg2enc/motion.c:1130`);
  the macroblock is intra coded then, as nothing is that far off.
* A group of more than 1024 pictures has temporal references beyond ten bits.

## Proofs

The `_proofs` modules are checked by TLAPS, for all values of the constants that
satisfy the assumptions of the modules they extend. Those are of three sorts.
Special values are not ordinary ones: null is not a node, a block, a text, an
object, a stream or a call in progress, and "cleared" is not the text of a
saver. Lists written down in the source name nobody twice (the internal loaders
and savers), and internal codecs are not clients' ones. Sizes that the code
gives as positive are positive (buffers, packets, movies announced). The
numbers of a parameter file are integers and its switches on or off, with motion
data for each picture up to M, which is what `readparmfile()` makes of a file
with `sscanf()` and `!!`, whatever the file says (`ParametersAssumption`); what the
rate control asks for is an integer (`DemandsAssumption`). Bounds on
counters, depths and histories may be any numbers, and those on the ends of
searches (`Ends`, `EndPairs`) any operators, the one that keeps every point too.

Each module proves an inductive invariant, a lemma for every action saying that
it is kept, and draws the properties from it. What the invariant needs beyond
the properties was checked by TLC on the module's run first.

**Loaders.** `PointersMatchOrder` is not inductive: appending behind
`last_loader` keeps the chain only when the new node is not on it already, and
removal keeps it only when the predecessor found is the one before in the
order. `ListInv` adds `NoDuplicates` and `MembersOK`, that the allocated nodes
are just the members of the order and the internal loaders still waiting for
`add_internal_loaders()`. `CallInv` then speaks of the stack: every frame's node
is allocated, unless it was removed while the frame stood on it (`stray`).
Clients may remove any plugin at any time, so the theorem says just how far the
code is safe: the removal of the node after the cursor, or of any other, does no
harm.

`SearchInv` speaks of walks in progress: of the loaders that have been there
since a walk began, those ahead of its cursor have said no, unless it is stray. The order of two
loaders that stay is never changed by what callbacks add or remove
(`AddKeepsAhead`, `RemovalKeepsAhead`), whence `NobodyIsEverPassedOver`, and
`OverridesAlwaysComeFirst` with the order of internal loaders and overrides.

`ListImplementsRegistry` is the refinement of `LoaderRegistry`, safety included
but no fairness. The mapping walks the pointers, at most once more than there
are nodes, so `Nodes` is assumed finite, as memory is; `WalkSpellsOrder` shows
that the walk gives the order, by the least step at which it would not. A search
is one step of the registry only while nothing is registered in the middle of
it. That is `OneCall`, under the hypothesis that callbacks do not call the
library (`Callbackers = {}`), of both the refinement and `MessageIsOfLastRead`:
without it neither holds: a nested read leaves its own text, and the loaders a
search has passed are no longer those in front.

**SImage.** `Inv` is `TypeOK`, the four parts of `Ownership`,
`PixelsAreTheImage`, and a fact that is no property of a run: `FromItsFile`, an image with
no buffer shows the file its name string says. `s_image_read_line()` loads that
file when a line fails, and without the fact the buffer it makes could hold any
picture. There is a lemma for each operation, since each disturbs one image and
one or two blocks. `LossesAreAlwaysKnown` adds what every operation frees,
`LinesAreAlwaysTheImage` the picture a line comes from, image by image: what is
spoilt in one image excuses no other.

**Params.** A key stays unique because `Store` looks before it appends, which
is one lemma, `StoreStores`: it changes entry n and nothing else. The strings
need more. A copy in progress writes to an object that does not exist yet:
`NobodysEntries` says the list it starts from is empty and `CopyFollows` that it
follows the original entry by entry, so nothing in it is replaced and no string
forgotten. `AnswersOwned` is what makes `AnswersStay` inductive: a string handed
out is in no list but the one of the object that was asked, so the destruction
of another does not free it, and it is allocated, so no call stores another text
in it.

`ListsImplementMaps` is the refinement of `ParamMaps`. `MapsSay` describes a map
by what the entries of a list say; a step that stores an entry puts one question
and answer (`StorePuts`), a step of a copy in progress is a stutter, since no
client has its object. `GotIsAsked` says that what a call has found so far
answers what it was asked, `CopySays` that a copy in progress says what its
original says. `MapAssumption` is that the null pointer, which stands for
no map, is no map.

**Streams.** The properties are about the moments between two calls, so the
invariant is about the calls in progress: which importers a walk has passed and
that they refuse its file (`CallsInProgress`), that a half filled buffer holds
the frames from the position on (`BufferBeingFilled`), and that what has been lost
so far, holes and ends included, is within the `allowance` (`LossIsBounded`).

**Movies.** `HeldSoFar` says what `avi_begin_encode()` holds after each call to
Video for Windows, and so what each of its failures has to give back.
`MarksAreTrue`, that a buffer is in the order its image says unless a failed put
swapped it, is what `FramesAreTrue` rests on. `FramesAreCounted` says that every
frame is the put of its number.

**Savers.** `ListOK` says who may be in the list and once each; `MemoryFollows`,
that the heap is the list without the static savers; `OverridesAhead`, that all
before an override are plugins. `CheckAlwaysPredictsSave` is an action property,
from `CheckedAreFound`. `find_saver()` takes the first that matches: that there is
a first one is the well-foundedness of the naturals (`SmallestIndex`).

**MpegSequence.** Everything follows from one equation, `Position`: the frame
number of `putseq.c` is the number of frames accepted less those held back
or still to do in the call in progress. `ContentsOK` says which frames the stream
has, by that number; `RefsOK`, what the two reference buffers hold; `PicturesOK`
and `TailOK`, the number of each picture and those of the frames held at the
end; `BudgetOK` and `PlansOK`, that the pictures rate control counts on are those
that are left of the group. Numbers are positions modulo the two lengths of the
shape, which are variables, so the lemmas about quotients come first
(`Division`, `Quotient`, `RefsNext`): the provers have no arithmetic for a
product of variables.

**MpegPictures.** The first invariant only says where things come from:
parameters are a file's, adjusted if accepted, and the picture is one of their
sequence. Two theorems are then arithmetic of one macroblock, the one about
headers is arithmetic of parameters, and the one about decoders needs an
invariant of its own.

`AcceptedParms` turns what the checks of
`conform.c` let through into what the search relies on: sizes of whole
macroblocks, windows not wider than their f_codes. `SearchIsInside` says that a
search ends in its window and, by half a pixel, inside the reference picture
(`MaxOfTwo` to `RangeIsInside` clip the window). Then there is a lemma for each way
to predict (`FrameWayIsGood`, `FieldsWayIsGood`, `FramePrimePredicts` and so on):
the blocks the search measured are those `predict_mb()` takes, though vectors of
fields are kept in coordinates of the frame between, and dual prime ones are
derived. `InsideIsRead` carries the place of a luminance block over to the
smaller planes of chrominance, where halving a vector rounds. Vectors reach no
further than 2s+1 half pels and windows were reduced to 4 * 2^code - 1, which
gives `VectorsAlwaysHaveCodes`.

`DecoderAlwaysFollows` says that a decoder is never misled by what `putpict()`
leaves out. For one component of a vector, `VectorIsRead` shows that the
difference, folded into the range of its f_code, split into code and residual and
put together again, gives the vector back, whatever it is predicted from within
twice that range; predictions stay there (`GoodMemory`), as a vector kept in lines
of a frame is at most twice the one that is written. `PredictedIsShown` covers a
macroblock that is written: its type has a code, and what is read of it is alike
in all that `predict_mb()` looks at (`AlikePredicts`), so a motion type may be left
out where it can only be MC_FRAME, or a P macroblock gets a vector of zero.
`SkippedIsShown` covers one that is not. The invariant `Together` joins them along
a slice: before a macroblock, the encoder remembers what the decoder did after the
last one it read, or that after one skipped macroblock, since a second one changes
nothing; the increment of the address is the distance to that last one; and the
macroblocks skipped since are just those the decoder will show between. The
theorem is for pictures of any size, any f_codes, all ways to predict and
whatever the rate control asks for: `DemandIsRead` has that the five bits of any
quantiser it may come to, of either scale, are not zero and tell it. `LastOf` lists
the last quantiser of each code, and `StandsAmongIts` says that the one a code
stands for is among those it is given to, so rounding twice is rounding once.

`HeadersAlwaysReadBack` is for every file that is accepted. A number cut to a
field is itself when `conform.c` let only smaller ones through (`NumbersFit`), or
is its low part and the rest in the extension, which only MPEG-2 has
(`SequenceIsRead`). `TimeIsRead`, by `PartsOfRemainder`, and `SliceIsRead` are for
all frames and rows, of which the property names those at the limits;
`PictureIsRead` adds that motion data that is used has f_codes of just two axes. That
`readparmfile()` leaves what it made as it is needs what becomes of each of the 23
parameters (`AdjustedAre`): the second time `IsConstrained()` and the windows come
out alike, as windows were reduced by f_codes that stay, and scans only depend on
what they leave alone (`AdjustedTwice`). That the checks let it through again
(`AcceptedAgain`) is where `IsStable` comes in.

Model-checked only:

* Liveness, which needs fairness and `ENABLED`: that calls of the library end.
* `Codecs`. The ways through a codec are finitely many sequences of steps with no
  parameter but which images are open, and TLC goes through every one; a proof
  would repeat that by cases.
* `Resize`, whose floats round products to powers of two: exponents that are
  variables, and folds over sequences, are beyond the provers.
* `ChrominanceInPlace` of `MpegPictures`, whose moments are sums over the taps of
  a filter: a fold with an operator for a parameter, about which the provers
  have no theorem to cite.

## Not modelled

* Failure of malloc, except where a codec handles it.
* Callbacks from `error_func`: only identify, load and save re-enter.
* A file that changes between opening it and reading it again.
* The component order of an image, except in `Movies`, which is the only one
  to look at it.
* The names in parameter lists, which `s_params_destroy()` does not free;
  `s_movie_create()` with null parameters, which `simage.h` allows and the code
  follows; the order of the arguments `s_image_save()` gives `s_params_get()`
  (`src/simage12.c:196`).
* Inside the codecs: colours, but for the greys and colour maps of TIFF (so the 8 and
  16 bit pixels of TGA in `convert_data()` are out), RGB pictures of TIFF in fewer
  planes than three, and the ends of the whole program that libjpeg and
  the static jump buffer of the PNG codec may bring (`src/simage_png.c:45`: an
  error before `setjmp()` would jump into a call that has returned; whether
  libpng raises one there `src/` does not show).
* Inside the encoder: pixels and colours, the transform, the quantisation and the
  codes of coefficients, the arithmetic of the rate control, and the statistics.
  Reading pictures from files and the batch interface
  (`simpeg_encode_putseq()`) are code that nothing in the library calls.
* Movie importers, of which the library has none.
* giflib, guile and the examples: third-party code, a binding and samples, whose
  calls into the library are those of the clients modelled.

## Plan

Done, in this order: the registry of loaders with its refinement and proofs,
image objects with their proofs, the MPEG sequence, savers, parameters with
their refinement and proofs, streams, movies, the resources of the codecs; then
the platform codecs, rasters, resizing, and the MPEG encoder from its parameters
to its macroblocks.

Proofs of the registries, images, parameters, streams, movies, the sequence of
pictures, with both refinements, of macroblocks, from prediction to decoder, and
of headers are done too. What is left:

1. The codes of coefficients in `putvlc.c`, against tables of the standard.
