CONSTANTS
  MaxMem = 2
  Faults = {FALSE}
  MaxWrites = 2
  MaxCrashes = 2
  MaxFiles = 10
  MaxOutputs = 7
  None = None
SPECIFICATION Spec
INVARIANT NoWriteIsLost
CHECK_DEADLOCK FALSE
