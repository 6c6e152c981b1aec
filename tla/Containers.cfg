CONSTANTS
  Values = {v, w}
  v = v
  w = w
  Junk = Junk
  NULL = NULL
  Size = 2
  HeaderSize = 4
  SizeLimit = 64
  Requests <- SomeRequests
  MaxLength = 6
  a = a
  b = b
  c = c
  d = d
  Nodes = {a, b, c, d}
  Sentinel = Sentinel
  None = None
SYMMETRY NodeSymmetry
SPECIFICATION AdaptersSpec
INVARIANTS
  RoomEnough
  NodesExact
  FailsOnlyMisused
PROPERTIES
  ImplementsSequence
