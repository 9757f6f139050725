SPECIFICATION MCSpec
CONSTANTS
  t1 = t1
  t2 = t2
  u1 = u1
  one = one
  other = other
  Threads = {t1, t2, u1}
  ProcessOf <- MCProcessOf
  Nobody = Nobody
  UserKeys = {1, 2}
  MaxHeight = 2
  MaxSequence = 3
  Searchers = {u1}
  kBlockSize = 16
  align = 4
  PointerSize = 4
  Sizes = {1, 3, 4, 5, 17}
  Gaps = {0, 1}
  MaxAllocations = 4
  Openers = {t1, t2}
  FileNumbers = {1, 2, 3, 5}
  HashOf <- SameHash
  Shards = 2
  Capacity = 2
  FirstLength = 1
  MaxEntries = 4
  VersionReaders = {u1}
  MaxTables = 3
  MaxMemTables = 3
  WrittenNames = {"log", "manifest"}
  ManifestNames = {"manifest"}
  Writers = {t1, t2}
  MaxFiles = 2
  MaxRecords = 1
  ReadNames = {"table"}
  FileReaders = {t1, t2, u1}
  FileSize = 1
  MmapLimit = 1
  FdLimit = 1
  ManifestNumbers = {1, 2}
  Pieces = 2
  kBufferSize = 2
  MaxTexts = 3
INVARIANT OneProcessAtATime
CHECK_DEADLOCK FALSE
