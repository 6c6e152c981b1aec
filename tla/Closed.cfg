CONSTANTS
  MaxKey = 3
  Keys <- MCKeys
  v1 = v1
  v2 = v2
  Values = {v1, v2}
  a = a
  b = b
  c = c
  Entries = {a, b, c}
  NBuckets = 2
  HashFunctions <- MCHashFunctions
  None = None
SPECIFICATION FairSpec
INVARIANTS
  RingsClosed
  EntriesExact
PROPERTIES
  ImplementsMap
  WalkExact
  WalkEnds
