CONSTANTS
  Scripts <- MCScripts
  MaxLength = 3
  MaxTraps = 3
  MaxSignals = 1
  ExitRange = 3
SPECIFICATION Spec
CONSTRAINT TrapsBounded
INVARIANTS
  TypeOK
  VerdictSound
  FailureExplained
  JumpsStayInTest
  TallyExact
  ExitZeroMeansAllPassed
  AlarmScoped
