CONSTANTS
  MaxKey = 4
  Keys <- MCKeys
  v1 = v1
  v2 = v2
  Values = {v1, v2}
  None = None
  Unset = Unset
  InitialCapacity = 1
  MaxLength = 5
SPECIFICATION FairSpec
INVARIANTS
  ReadsWritten
  Sorted
  KeysUnique
  WindowHoldsKey
PROPERTIES
  ImplementsMap
  Returns
