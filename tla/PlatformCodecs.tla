--------------------------- MODULE PlatformCodecs ---------------------------
(***************************************************************************)
(* The codecs that hand the work to the image library of one system: Qt,   *)
(* ImageIO, QuickTime and GDI+.  Each is the only loader and saver there   *)
(* or one among those of Codecs, and has the same shape.                   *)
(***************************************************************************)
EXTENDS CodecSteps

(***************************************************************************)
(* simage_qimage.cpp: QImage objects go with their scope.                  *)
(***************************************************************************)
simage_qimage_load == { Checks({Exit("open", {})}) \o Tries({"image"}, {Exit("mem", {})}) }

\* qimage_set_save_format() leaves no format for an unknown extension.
simage_qimage_save ==
  { Checks({Exit("unsupportedwrite", {})}) \o Checks({Exit("write", {})}) }

simage_qimage_get_savers == { Takes({"list"}), <<>> }

(***************************************************************************)
(* simage_cgimage.c.  The pixels to be saved are given back before the     *)
(* image made of them is written, and the provider has no copy.            *)
(***************************************************************************)
create_image_source ==
  Tries({"cfname"}, {Exit("open", {})})
  \o Tries({"url"}, {Exit("open", {"cfname"})})
  \o Tries({"source"}, {Exit("open", {"cfname", "url"})})
  \o Gives({"cfname", "url"})
  \o Checks({Exit("open", {"source"})})

simage_cgimage_identify == { create_image_source \o Gives({"source"}) }

simage_cgimage_load ==
  { create_image_source
    \o Takes({"picture"}) \o Takes({"space"}) \o Takes({"image"}) \o Takes({"context"})
    \o Gives({"context", "space", "picture", "source"}) }

simage_cgimage_get_savers ==
  { Takes({"format"}) \o Takes({"types"}) \o Takes({"extension"}) \o Takes({"list"})
    \o Gives({"extension"}) \o Gives({"types", "format"}) }

simage_cgimage_save ==
  { Takes({"flipped"}) \o Takes({"provider"}) \o Takes({"space"}) \o Takes({"picture"})
    \o Gives({"provider", "space", "flipped"})
    \o Takes({"extension"}) \o Gives({"extension"})
    \o Tries({"type"}, {Exit("write", {"picture"})})
    \o Tries({"cfname"}, {Exit("write", {"type", "picture"})})
    \o Tries({"url"}, {Exit("write", {"cfname", "type", "picture"})})
    \o Gives({"cfname"})
    \o Tries({"destination"}, {Exit("write", {"type", "url", "picture"})})
    \o Gives({"type", "url"})
    \o Uses({"flipped"})
    \o Checks({Exit("write", {"picture", "destination"})})   \* CGImageDestinationFinalize()
    \o Gives({"picture", "destination"}) }

(***************************************************************************)
(* simage_quicktime.c.  The strings of file names are never released, and  *)
(* no way out but the last one gives anything back.  A component variable  *)
(* that no function has set is closed, or tested, all the same.            *)
(***************************************************************************)
get_importer == Takes({"cfstr", "ustr"}) \o Tries({"importer"}, {Exit("open", {})})

simage_quicktime_identify ==
  { Takes({"cfstr", "ustr"}) \o Takes({"importer"}) \o Gives({"importer"}),
    Takes({"cfstr", "ustr"}) \o Uses({"importer"}) }

simage_quicktime_load ==
  { get_importer
    \o Tries({"description"}, {Exit("cg", {})})
    \o Tries({"data"}, {Exit("mem", {})})
    \o Takes({"gworld"})
    \o Checks({Exit("cg", {"data"})})                        \* GraphicsImportDraw()
    \o Takes({"image"})
    \o Gives({"description", "gworld", "importer", "data"}) }

simage_quicktime_get_savers ==
  { Takes({"string"}) \o Takes({"ext"}) \o Takes({"cstr"}) \o Gives({"cstr"})
      \o Gives({"ext"}) \o answer :
        answer \in {Takes({"list"}), Takes({"cstr"})} }      \* converted or not

create_file ==
  Checks({Exit("write", {})})
  \o Takes({"cfstr", "ustr"}) \o Gives({"ustr"})
  \o Checks({Exit("write", {})})

\* No exporter found: the variable may be null by chance, or is used.
open_exporter ==
  LET Tried == Takes({"cstr", "ext"}) IN
  { Tried \o Takes({"exporter"}),
    Tried \o Fails({Exit("unsupported", {})}),
    Tried \o Uses({"exporter"}) }

simage_quicktime_save ==
  LET Flipped == Takes({"newpx"}) IN
  { Flipped \o Fails({Exit("depth", {})}) }
  \cup { Flipped \o Tries({"gworld"}, {Exit("cg", {})})
           \o create_file \o exporter
           \o Checks({Exit("write", {})}) \o Gives({"exporter"}) :
           exporter \in open_exporter }

(***************************************************************************)
(* simage_gdiplus.cpp.  Bitmap::LockBits() may fail with nobody looking,   *)
(* and then the pixels are read through an address never set.  Deleting a  *)
(* bitmap ends its lock.                                                   *)
(***************************************************************************)
gdiplus_init == Sets("none") \o Checks({Exit("init", {})})

LockBits == { Takes({"lock"}), Uses({"lock"}) }

\* The palette of an indexed image is looked at to choose a format.
getReadFormat == { <<>>, Takes({"palette"}) \o Gives({"palette"}) }

simage_gdiplus_identify == { gdiplus_init \o Takes({"wide"}) \o Gives({"wide"}) }

simage_gdiplus_open ==
  { gdiplus_init \o Takes({"wide"}) \o Tries({"bitmap"}, {Exit("open", {"wide"})})
    \o Gives({"wide"}) }

simage_gdiplus_load ==
  { opened \o format
    \o Tries({"lock"}, {Exit("mem", {"bitmap"}), Exit("open", {"bitmap"})})
    \o Tries({"image"}, {Exit("mem", {"lock", "bitmap"})})
    \o Gives({"lock", "bitmap"}) :
      opened \in simage_gdiplus_open, format \in getReadFormat }

simage_gdiplus_close == { Gives({"bitmap"}) }

simage_gdiplus_read_line ==
  { Checks({Exit("read", {})}) \o locked \o Gives({"lock"}) : locked \in LockBits }

simage_gdiplus_read_region ==
  { Checks({Exit("read", {})}) \o locked \o Gives({"lock"}) : locked \in LockBits }

simage_gdiplus_get_savers ==
  { gdiplus_init \o Takes({"encoders"}) \o Takes({"format"}) \o Takes({"list"})
    \o Gives({"format"}) \o Gives({"encoders"}) }

\* An unknown format gives -1 like one that is found does not.
GetEncoderClsid == { Takes({"encoders"}) \o Takes({"format"}) \o Gives({"encoders", "format"}) }

\* Neither the search for the encoder nor Bitmap::Save() may make it fail.
simage_gdiplus_save ==
  LET Out == {"data", "bitmap", "wide"}
      Start == Takes({"wide"}) \o Takes({"bitmap"}) \o Takes({"data"})
  IN { Start \o locked \o Fails({Exit("write", Out \cup {"lock"})}) : locked \in LockBits }
     \cup { Start \o locked \o Gives({"lock"}) \o encoder \o UncheckedWrite \o Gives(Out) :
              locked \in LockBits, encoder \in GetEncoderClsid }

simage_qimage_error == {"open", "mem", "write", "unsupportedwrite"}
simage_cgimage_error == {"open"}
simage_quicktime_error == {"open", "cg", "write", "unsupported", "depth", "mem"}
simage_gdiplus_error == {"init", "open", "read", "mem", "openwrite", "write",
                         "notimplemented", "none"}
=============================================================================
