SPECIFICATION Spec
CONSTANTS
  NumLevels = 4
  MaxMemCompactLevel = 2
  L0Trigger = 2
  TargetFileSize = 1
  Level1Bytes = 2
  LevelFactor = 2
  NoEnd = NoEnd
  Keys = {1, 2}
  Deletes = {FALSE, TRUE}
  Handles = {s1}
  Ranges = {}
  MaxSeq = 4
  MaxFiles = 10
  None = None
CHECK_DEADLOCK FALSE
INVARIANT
  ReadsAreRight
