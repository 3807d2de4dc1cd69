SPECIFICATION Spec
CONSTANTS
  Movies = {m1, m2}
  Images = {i1, i2}
  Exports = {c1}
  Mpeg2enc = Mpeg2enc
  Avienc = Avienc
  Handles <- TakesAvi
  MaxFrames = 2
  None = None
INVARIANTS AviHoldsAllOrNothing FramesAreTrue 

SYMMETRY MCSymmetry
