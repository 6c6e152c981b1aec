CONSTANTS
  k1 = k1
  k2 = k2
  k3 = k3
  Keys = {k1, k2, k3}
  v = v
  w = w
  Values = {v, w}
  None = None
  SizeLimit = 8
  MaxInterrupts = 2
SYMMETRY KeySymmetry
SPECIFICATION Spec
INVARIANTS
  KeysUnique
  OffByInterrupts
  FailsOnlyInterrupted
PROPERTIES
  ImplementsMap
