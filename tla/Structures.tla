----------------------------- MODULE Structures -----------------------------
(***************************************************************************)
(* leveldb's data structures and files: the lock on the database           *)
(* (PosixLock), the memtable and its arena, the cache of tables, the       *)
(* lifetimes of versions and memtables, and the files that the POSIX       *)
(* environment writes, reads and renames to CURRENT.  They share no state, *)
(* and a behaviour is one of one of them, which part names.                *)
(***************************************************************************)
EXTENDS PosixLock

CONSTANTS
  UserKeys, MaxHeight, MaxSequence, Searchers,                       (* of MemTable     *)
  kBlockSize, align, PointerSize, Sizes, Gaps, MaxAllocations,       (* of Arena        *)
  Openers, FileNumbers, HashOf(_), Shards, Capacity, FirstLength, MaxEntries, (* Cache  *)
  VersionReaders, MaxTables, MaxMemTables,                           (* of Lifetimes    *)
  WrittenNames, ManifestNames, Writers, MaxFiles, MaxRecords,        (* of PosixFiles   *)
  ReadNames, FileReaders, FileSize, MmapLimit, FdLimit,              (* of PosixReaders *)
  ManifestNumbers, Pieces, kBufferSize, MaxTexts                     (* of CurrentFile  *)

VARIABLES
  part,
  next, heights, types, inserting, sequence, iter,
  alloc_ptr_, alloc_bytes_remaining_, blocks_, memory_usage_, given,
  entries, shard, thread, destroyed,
  versions, filesOf, metadata, number, memtables, current_, mem_, imm_, reader, flush, compaction, saving,
  tables, pending_outputs_, made, bg_error_, closed,
  content, durable, directory, kept, writer, vouched, removed,
  files, opened, mmap_limit_, fd_limit_,
  text, synced, named, survivors, stage, descriptor_number, set, space, result

Mem == INSTANCE MemTable WITH Readers <- Searchers
Memory == INSTANCE Arena
Tables == INSTANCE Cache WITH Threads <- Openers, Keys <- FileNumbers
Lives == INSTANCE Lifetimes WITH Readers <- VersionReaders
Files == INSTANCE PosixFiles WITH Names <- WrittenNames, Manifests <- ManifestNames
Limits == INSTANCE PosixReaders WITH Names <- ReadNames, Readers <- FileReaders, reader <- opened
Current == INSTANCE CurrentFile WITH Numbers <- ManifestNumbers, MaxFiles <- MaxTexts, content <- text, durable <- synced,
  directory <- named, kept <- survivors, pc <- stage, number <- descriptor_number

ASSUME MemTableAssumptions == Mem!KeysAssumption
ASSUME ArenaAssumptions == Memory!SizesAssumption /\ Memory!AlignAssumption
ASSUME LimitsAssumptions == Limits!SizesAssumption /\ Limits!ReadersAssumption
ASSUME CurrentAssumptions == Current!NumbersAssumption /\ Current!SizesAssumption

-----------------------------------------------------------------------------
memVars     == <<next, heights, types, inserting, sequence, iter>>
arenaVars   == <<alloc_ptr_, alloc_bytes_remaining_, blocks_, memory_usage_, given>>
cacheVars   == <<entries, shard, thread, destroyed>>
lifeVars    == <<versions, filesOf, metadata, number, memtables, current_, mem_, imm_, reader, flush, compaction,
                 saving, tables, pending_outputs_, made, bg_error_, closed>>
fileVars    == <<content, durable, directory, kept, writer, vouched, removed>>
readerVars  == <<files, opened, mmap_limit_, fd_limit_>>
currentVars == <<text, synced, named, survivors, stage, descriptor_number, set, space, result>>
inMemory    == <<memVars, arenaVars, cacheVars, lifeVars>>
onDisk      == <<fileVars, readerVars, currentVars>>
structuresVars == <<part, lockVars, inMemory, onDisk>>

Parts == {"lock", "memtable", "arena", "cache", "lifetimes", "files", "readers", "current"}

StructuresInit ==
  /\ part \in Parts \union {"none"}
  /\ Init /\ Mem!Init /\ Memory!Init /\ Tables!Init /\ Lives!Init
  /\ Files!Init /\ Limits!Init /\ Current!Init

LockStep     == Next /\ UNCHANGED <<inMemory, onDisk>>
MemTableStep == Mem!Next /\ UNCHANGED <<lockVars, arenaVars, cacheVars, lifeVars, onDisk>>
ArenaStep    == Memory!Next /\ UNCHANGED <<lockVars, memVars, cacheVars, lifeVars, onDisk>>
CacheStep    == Tables!Next /\ UNCHANGED <<lockVars, memVars, arenaVars, lifeVars, onDisk>>
LifetimeStep == Lives!Next /\ UNCHANGED <<lockVars, memVars, arenaVars, cacheVars, onDisk>>
FileStep     == Files!Next /\ UNCHANGED <<lockVars, inMemory, readerVars, currentVars>>
ReaderStep   == Limits!Next /\ UNCHANGED <<lockVars, inMemory, fileVars, currentVars>>
CurrentStep  == Current!Next /\ UNCHANGED <<lockVars, inMemory, fileVars, readerVars>>

StructuresNext ==
  /\ UNCHANGED part
  /\ \/ part = "lock" /\ LockStep
     \/ part = "memtable" /\ MemTableStep
     \/ part = "arena" /\ ArenaStep
     \/ part = "cache" /\ CacheStep
     \/ part = "lifetimes" /\ LifetimeStep
     \/ part = "files" /\ FileStep
     \/ part = "readers" /\ ReaderStep
     \/ part = "current" /\ CurrentStep

StructuresSpec == StructuresInit /\ [][StructuresNext]_structuresVars

-----------------------------------------------------------------------------
(* leveldb's skip list: no search passes over a node that was in the list   *)
(* before it began, whatever is inserted meanwhile; and the pieces of the   *)
(* arena that its nodes lie in are apart, aligned and accounted for.        *)
MemTablesHold ==
  /\ part = "memtable" => Mem!SearchesAreRight
  /\ part = "arena" => Memory!PiecesAreApart

(* What is held stays, and no longer: tables in use are open, and closed    *)
(* once; what is cached is found by its key, and is not more than the       *)
(* capacity or what threads can use; versions, memtables and tables live as *)
(* long as somebody counts on them.                                         *)
HoldersHaveTheirs ==
  /\ part = "cache" => Tables!TablesInUseAreOpen /\ Tables!CacheIsConsistent
  /\ part = "lifetimes" => Lives!HoldersHaveTheirs

(* A synced manifest speaks only of files that survive a loss of power, and *)
(* CURRENT is the whole name of a manifest at any moment.                   *)
FilesSurvive ==
  /\ part = "files" => Files!VouchedFilesSurvive
  /\ part = "current" => Current!CurrentIsWhole

(* Readers of files read what is there and keep the limits on maps and      *)
(* descriptors.                                                             *)
ReadersKeepLimits == part = "readers" => Limits!ReadersKeepLimits
=============================================================================
