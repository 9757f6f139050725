SPECIFICATION Spec
CONSTANTS
  NumLevels = 3
  MaxMemCompactLevel = 1
  L0Trigger = 2
  TargetFileSize = 4
  Level1Bytes = 2
  LevelFactor = 2
  NoEnd = NoEnd
  Keys = {1, 2, 3}
  Deletes = {FALSE, TRUE}
  Handles = {s1}
  Ranges = {{1}, {2}, {3}}
  MaxSeq = 3
  MaxFiles = 10
  None = None
CHECK_DEADLOCK FALSE
INVARIANTS
  TreeIsInOrder
  ReadsAreRight
