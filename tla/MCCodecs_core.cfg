SPECIFICATION Spec
CONSTANTS
  Codecs = {"rgb", "tga", "gif", "pic", "tiff", "xwd", "png", "jpeg", "jasper", "eps",
            "qimage", "cgimage", "quicktime", "gdiplus"}
  Handles = {"h1", "h2"}
  MaxWidth = 3
  MaxHeight = 3
  MaxPackets = 3
  MaxRun = 3
  MaxBytes = 9
  RowLen = 7
INVARIANTS CallsGiveBack  
