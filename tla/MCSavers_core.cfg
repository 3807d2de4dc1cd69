SPECIFICATION Spec
CONSTANTS
  p1 = p1
  p2 = p2
  Plugins = {p1, p2}
  Static <- StaticSavers
  Behind <- BehindSavers
  InFront <- FrontSavers
  Extensions <- Spellings
  Folded <- LowerCase
  ExtensionsOf <- Registered
  Callbackers = {p1}
  Silent <- NoText
  MaxDepth = 2
  NoSaver = NoSaver
  Cleared = Cleared
  Unsupported = Unsupported
  Never = Never
INVARIANTS MemoryMatchesList OverridesAreFound TextOfLastSave
PROPERTY CheckPredictsSave
VIEW MCView
