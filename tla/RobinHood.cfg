CONSTANTS
  MaxKey = 4
  Keys <- MCKeys
  v1 = v1
  v2 = v2
  Values = {v1, v2}
  Empty = 0
  None = None
  HashFunctions <- MCHashFunctions
  HashRange = {0, 1, 7}
  InitialCapacity = 2
SPECIFICATION FairSpec
INVARIANTS
  TableSound
  FindsExactly
PROPERTIES
  ImplementsMap
  Returns
