SPECIFICATION Spec
CONSTANTS
  tiff = tiff
  jpeg = jpeg
  small = small
  large = large
  Images = {i1, i2}
  Blocks = {b1, b2, b3, b4}
  Sizes = {small, large}
  Files = {tiff, jpeg}
  SizeOf <- MCSizeOf
  LineAccess = {tiff}
  Drawing = Drawing
  Garbage = Garbage
  Null = Null
SYMMETRY Interchangeable
INVARIANTS Ownership PixelsAreTheImage LinesAreTheImage LossesAreKnown
CHECK_DEADLOCK FALSE
