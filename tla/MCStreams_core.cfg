SPECIFICATION Spec
CONSTANTS
  Streams = {s1, s2}
  c1 = c1
  c2 = c2
  Imports = {c1, c2}
  Exports = {e1}
  Vorbis = Vorbis
  Sndfile = Sndfile
  Files = {"ogg", "wav", "raw"}
  Opens <- WhoOpens
  Length <- HowLong
  Sizes = {2, 3}
  Packet = 2
  MaxHoles = 1
  None = None
INVARIANTS FilesMatchStreams ContiguousDelivery LossIsLessThanABuffer
