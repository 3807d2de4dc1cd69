SPECIFICATION Spec
CONSTANTS
  Shapes <- AllShapes
  Announced = {1, 2, 3, 4, 5, 6, 7, 8, 9, 10, 11, 12, 13}
  MaxFrames = 13
  MaxFailures = 1
  None = None
INVARIANTS
  EveryFrameOnce
  GroupsInDisplayOrder
  ReferencesStraddle
  GroupsKeepBudget
CHECK_DEADLOCK FALSE
