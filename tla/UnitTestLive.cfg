CONSTANTS
  Scripts <- MCPlainScripts
  MaxLength = 2
  MaxTraps = 3
  MaxSignals = 2
  ExitRange = 4
SPECIFICATION FairSpec
PROPERTIES
  Terminates
