SPECIFICATION Spec
CONSTANTS
  o1 = o1
  o2 = o2
  b1 = b1
  b2 = b2
  b3 = b3
  b4 = b4
  Objects = {o1, o2}
  Names = {"file", "mode"}
  PlainTypes = {"int"}
  StringType = "string"
  BadType = "other"
  Plain = {"one"}
  Texts = {"a", "b"}
  Blocks = {b1, b2, b3, b4}
  Calls <- SetCalls
  Questions <- GetCalls
  Null = Null
  Free = Free
INVARIANTS StringsOwned AnswersStay
PROPERTY ImplementsMaps
SYMMETRY Symmetry
CHECK_DEADLOCK FALSE
