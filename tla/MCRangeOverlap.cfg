SPECIFICATION Spec
CONSTANTS
  NumLevels = 2
  MaxMemCompactLevel = 1
  L0Trigger = 9
  TargetFileSize = 9
  Level1Bytes = 9
  LevelFactor = 2
  NoEnd = NoEnd
  Keys = {1, 2, 3}
  Deletes = {FALSE}
  Handles = {}
  Ranges = {{}}
  MaxSeq = 5
  MaxFiles = 7
  None = None
CHECK_DEADLOCK FALSE
INVARIANT
  LevelsDisjoint
