SPECIFICATION EngineSpec
CONSTANTS
  w1 = w1
  w2 = w2
  w3 = w3
  t1 = t1
  t2 = t2
  Threads <- MCThreads
  Compactors <- MCCompactors
  Requests <- MCRequests
  MaxWrites = 3
  MaxGroup = 3
  BufferSize = 1
  SlowdownTrigger = 1
  Trigger = 1
  StopTrigger = 2
  MaxRounds = 2
  None = None
CHECK_DEADLOCK FALSE
INVARIANTS
  WorkIsScheduled
  QuietWhenDestroyed
  AnsweredInTurn
  BatchesAreAtomic
  LogGivesMemtable
PROPERTIES
  BackgroundWorkEnds
  AcksAreHonest
  EveryWriteReturns
  EveryItemRuns
