SPECIFICATION FairSpec
CONSTANTS
  p1 = p1
  p2 = p2
  p3 = p3
  jpeg = jpeg
  tga = tga
  cgimage = cgimage
  photo = photo
  targa = targa
  text = text
  missing = missing
  Plugins = {p1, p2}
  Callbackers = {}
  Builtins <- MCBuiltins
  Preferred = {cgimage}
  Files = {photo, targa, text, missing}
  Readable = {photo, targa, text}
  Recognises <- MCRecognises
  Silent = {tga}
  MaxDepth = 1
  NoLoader = NoLoader
  Cleared = Cleared
  Unsupported = Unsupported
  Unasked = Unasked
INVARIANTS MessageOfLastRead
PROPERTIES ImplementsRegistry SearchesEnd
