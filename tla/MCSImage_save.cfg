SPECIFICATION Spec
CONSTANTS
  tiff = tiff
  jpeg = jpeg
  small = small
  large = large
  Images = {i1}
  Blocks = {b1, b2, b3}
  Sizes = {small, large}
  Files = {tiff, jpeg}
  SizeOf <- MCSizeOf
  LineAccess = {tiff}
  Drawing = Drawing
  Garbage = Garbage
  Null = Null
SYMMETRY Interchangeable
INVARIANT SavedIsTheImage
CHECK_DEADLOCK FALSE
