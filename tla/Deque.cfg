CONSTANTS
  a = a
  b = b
  c = c
  Links = {a, b, c}
  Sentinel = Sentinel
  NULL = NULL
  Wild = Wild
  Misuse = {"raw", "empty"}
  MaxLate = 1
SYMMETRY ElementSymmetry
SPECIFICATION DequeSpec
INVARIANTS
  RingSound
  FailsOnlyRaw
PROPERTIES
  ImplementsDeque
  VisitsMembers
  VisitsAll
