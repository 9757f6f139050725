CONSTANTS
  MaxMem = 2
  Faults = {FALSE}
  MaxWrites = 2
  MaxCrashes = 2
  MaxFiles = 10
  MaxOutputs = 7
  None = None
SPECIFICATION Spec
INVARIANTS
  PromisedWritesSurvive
  TablesInUseExist
  SequenceFollowsWrites
  OpensAgain
CHECK_DEADLOCK FALSE
