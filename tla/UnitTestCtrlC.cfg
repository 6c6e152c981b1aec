CONSTANTS
  Scripts <- MCPlainScripts
  MaxLength = 2
  MaxTraps = 3
  MaxSignals = 1
  ExitRange = 4
SPECIFICATION Spec
INVARIANTS
  AbortedAssertFails
