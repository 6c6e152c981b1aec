CONSTANTS
  k1 = k1
  k2 = k2
  k3 = k3
  k4 = k4
  v1 = v1
  v2 = v2
  Keys = {k1, k2, k3, k4}
  Values = {v1, v2}
  Empty = Empty
  None = None
  TableSize = 3
  HashFunctions <- MCHashFunctions
SYMMETRY MCSymmetry
SPECIFICATION Spec
INVARIANTS
  SlotsSound
  KeysAreFound
  PutIsRead
PROPERTIES
  ImplementsMap
