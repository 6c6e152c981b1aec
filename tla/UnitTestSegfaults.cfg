CONSTANTS
  Scripts <- MCPlainScripts
  MaxLength = 3
  MaxTraps = 3
  MaxSignals = 0
  ExitRange = 4
SPECIFICATION Spec
CONSTRAINT TrapsBounded
INVARIANTS
  SegfaultsWithinSuite
