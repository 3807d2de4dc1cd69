SPECIFICATION Spec
CONSTANTS
  Axes <- SmallAxes
  Boxes <- SampledBoxes
  IntBits = 7
INVARIANTS  FlatStaysFlat SamplesNearest PowerIsNext
