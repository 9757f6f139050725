-------------------------- MODULE StructuresProofs --------------------------
(***************************************************************************)
(* leveldb's structures on disk and in memory, for all values of the       *)
(* constants: one process holds the lock, readers keep the limits and read *)
(* what is there, CURRENT is whole and what a synced manifest speaks of    *)
(* survives a loss of power; then the arena's pieces and the searches of   *)
(* the skip list.                                                          *)
(***************************************************************************)
EXTENDS Structures, Integers, Sequences, FiniteSetTheorems, WellFoundedInduction, TLAPS

-----------------------------------------------------------------------------
(* A step of one structure leaves the others alone.                         *)
LEMMA OnDiskStep ==
  ASSUME [StructuresNext]_structuresVars
  PROVE  [Files!Next]_fileVars /\ [Limits!Next]_readerVars /\ [Current!Next]_currentVars
BY DEF StructuresNext, structuresVars, inMemory, onDisk, LockStep, MemTableStep, ArenaStep, CacheStep, LifetimeStep,
       FileStep, ReaderStep, CurrentStep, fileVars, readerVars, currentVars

-----------------------------------------------------------------------------
(* Threads whose process has the file in its table for them.                *)
InTable(t) == pc[t] \in {"inserted", "holds", "refused", "unlocked"}

TableIsExclusive ==
  \A t \in Threads : InTable(t) =>
    /\ ProcessOf[t] \in locked_files
    /\ \A u \in Threads : InTable(u) /\ ProcessOf[u] = ProcessOf[t] => u = t

AloneUnlessCrowded ==
  \A t, u \in Threads :
    pc[t] # "idle" /\ pc[u] # "idle" /\ ProcessOf[t] = ProcessOf[u] /\ ProcessOf[t] \notin crowded => t = u

(* The lock of a process that uses it by one thread is not lost to a close. *)
HolderOwns ==
  \A t \in Threads : pc[t] = "holds" /\ ProcessOf[t] \notin crowded => owner = ProcessOf[t]

LockInv == LockTypeOK /\ TableIsExclusive /\ AloneUnlessCrowded /\ HolderOwns

-----------------------------------------------------------------------------
(* What every action but Exit is: one thread of one process takes a step,   *)
(* and the table and the system's lock change for this process only.        *)
LEMMA ThreadKeeps ==
  ASSUME LockInv, NEW t \in Threads, NEW from, NEW to,
         Goes(t, from, to), LockTypeOK', UNCHANGED crowded, from # "idle",
         owner' # owner => owner \in {Nobody, ProcessOf[t]},
         to = "holds" => owner' = ProcessOf[t],
         locked_files \ {ProcessOf[t]} = locked_files' \ {ProcessOf[t]},
         InTable(t)' => ProcessOf[t] \in locked_files',
         ~InTable(t) /\ InTable(t)' => ProcessOf[t] \notin locked_files,
         ~InTable(t) /\ ~InTable(t)' => UNCHANGED locked_files,
         InTable(t) /\ ~InTable(t)' => ProcessOf[t] \in locked_files
  PROVE  LockInv'
<1>1. /\ pc[t] = from /\ pc'[t] = to
      /\ \A u \in Threads \ {t} : pc'[u] = pc[u] /\ (InTable(u)' <=> InTable(u))
  BY DEF Goes, LockInv, LockTypeOK, InTable
<1>2. TableIsExclusive'
  <2> SUFFICES ASSUME NEW v \in Threads, InTable(v)'
               PROVE  /\ ProcessOf[v] \in locked_files'
                      /\ \A u \in Threads : InTable(u)' /\ ProcessOf[u] = ProcessOf[v] => u = v
    BY DEF TableIsExclusive
  <2>1. CASE v = t
    BY <1>1, <2>1 DEF LockInv, TableIsExclusive
  <2>2. CASE v # t /\ ProcessOf[v] = ProcessOf[t]
    BY <1>1, <2>2 DEF LockInv, TableIsExclusive
  <2>3. CASE ProcessOf[v] # ProcessOf[t]
    BY <1>1, <2>3 DEF LockInv, TableIsExclusive
  <2>4. QED
    BY <2>1, <2>2, <2>3
<1>3. AloneUnlessCrowded'
  BY <1>1 DEF LockInv, AloneUnlessCrowded
<1>4. HolderOwns'
  <2> SUFFICES ASSUME NEW v \in Threads, pc'[v] = "holds", ProcessOf[v] \notin crowded
               PROVE  owner' = ProcessOf[v]
    BY DEF HolderOwns
  <2>1. CASE v = t
    BY <1>1, <2>1
  <2>2. CASE v # t
    <3>1. owner = ProcessOf[v] /\ pc[v] # "idle"
      BY <1>1, <2>2 DEF LockInv, HolderOwns
    <3>2. ProcessOf[v] # ProcessOf[t]
      BY <1>1, <2>2, <3>1 DEF LockInv, AloneUnlessCrowded
    <3>3. QED
      BY <3>1, <3>2, NobodyAssumption
  <2>3. QED
    BY <2>1, <2>2
<1>5. QED
  BY <1>2, <1>3, <1>4 DEF LockInv

LEMMA OpenKeeps ==
  ASSUME LockInv, NEW t \in Threads, Open(t)
  PROVE  LockInv'
<1>1. /\ pc[t] = "idle" /\ pc' = [pc EXCEPT ![t] = "open"]
      /\ UNCHANGED <<locked_files, owner>>
  BY DEF Open, Goes
<1>2. \A u \in Threads : u # t => pc'[u] = pc[u]
  BY <1>1 DEF LockInv, LockTypeOK
<1>3. pc'[t] = "open"
  BY <1>1 DEF LockInv, LockTypeOK
<1>4. crowded \subseteq crowded' /\ crowded' \subseteq Processes
  BY DEF Open, LockInv, LockTypeOK, Processes
<1>5. LockTypeOK'
  BY <1>1, <1>4 DEF LockInv, LockTypeOK
<1>6. TableIsExclusive' /\ HolderOwns'
  BY <1>1, <1>2, <1>3, <1>4 DEF LockInv, TableIsExclusive, HolderOwns, InTable
<1>7. ASSUME NEW u \in Threads, u # t, pc[u] # "idle", ProcessOf[u] = ProcessOf[t]
      PROVE  ProcessOf[t] \in crowded'
  BY <1>7 DEF Open, ThreadsOf
<1>8. AloneUnlessCrowded'
  BY <1>2, <1>3, <1>4, <1>7 DEF LockInv, AloneUnlessCrowded
<1>9. QED
  BY <1>5, <1>6, <1>8 DEF LockInv

LEMMA ExitKeeps ==
  ASSUME LockInv, NEW p \in Processes, Exit(p)
  PROVE  LockInv'
<1>1. \A t \in Threads : pc'[t] = IF ProcessOf[t] = p THEN "idle" ELSE pc[t]
  BY DEF Exit
<1>2. LockTypeOK'
  BY DEF Exit, LockInv, LockTypeOK
<1>3. TableIsExclusive' /\ AloneUnlessCrowded' /\ HolderOwns'
  BY <1>1 DEF Exit, LockInv, TableIsExclusive, AloneUnlessCrowded, HolderOwns, InTable
<1>4. QED
  BY <1>2, <1>3 DEF LockInv

-----------------------------------------------------------------------------
THEOREM LockInvariant == Spec => []LockInv
<1>1. Init => LockInv
  BY DEF Init, LockInv, LockTypeOK, TableIsExclusive, AloneUnlessCrowded, HolderOwns, InTable
<1>2. ASSUME LockInv, [Next]_lockVars PROVE LockInv'
  <2> USE DEF Goes, Close, InTable
  <2>1. ASSUME NEW t \in Threads, Open(t) PROVE LockInv'
    BY <1>2, <2>1, OpenKeeps
  <2>2. ASSUME NEW p \in Processes, Exit(p) PROVE LockInv'
    BY <1>2, <2>2, ExitKeeps
  <2>3. ASSUME NEW t \in Threads,
               \/ Insert(t) \/ AlreadyHeld(t) \/ Lock(t) \/ HeldElsewhere(t) \/ RemoveRefused(t)
               \/ Unlock(t) \/ RemoveLocked(t) \/ CloseUnlocked(t)
        PROVE  LockInv'
    <3>1. LockTypeOK' /\ LockTypeOK
      BY <1>2, <2>3 DEF LockInv, LockTypeOK, Processes, Insert, AlreadyHeld, Lock, HeldElsewhere,
                        RemoveRefused, Unlock, RemoveLocked, CloseUnlocked
    <3>2. InTable(t) => ProcessOf[t] \in locked_files
      BY <1>2 DEF LockInv, TableIsExclusive
    <3>3. CASE Insert(t)
      BY <1>2, <3>1, <3>2, <3>3, ThreadKeeps DEF Insert, LockTypeOK
    <3>4. CASE AlreadyHeld(t)
      BY <1>2, <3>1, <3>2, <3>4, ThreadKeeps DEF AlreadyHeld, LockTypeOK
    <3>5. CASE Lock(t)
      BY <1>2, <3>1, <3>2, <3>5, ThreadKeeps DEF Lock, LockTypeOK
    <3>6. CASE HeldElsewhere(t)
      BY <1>2, <3>1, <3>2, <3>6, ThreadKeeps DEF HeldElsewhere, LockTypeOK
    <3>7. CASE RemoveRefused(t)
      BY <1>2, <3>1, <3>2, <3>7, ThreadKeeps DEF RemoveRefused, LockTypeOK
    <3>8. CASE Unlock(t)
      BY <1>2, <3>1, <3>2, <3>8, ThreadKeeps DEF Unlock, LockTypeOK
    <3>9. CASE RemoveLocked(t)
      BY <1>2, <3>1, <3>2, <3>9, ThreadKeeps DEF RemoveLocked, LockTypeOK
    <3>10. CASE CloseUnlocked(t)
      BY <1>2, <3>1, <3>2, <3>10, ThreadKeeps DEF CloseUnlocked, LockTypeOK
    <3>11. QED
      BY <2>3, <3>3, <3>4, <3>5, <3>6, <3>7, <3>8, <3>9, <3>10
  <2>4. CASE UNCHANGED lockVars
    BY <1>2, <2>4 DEF lockVars, LockInv, LockTypeOK, TableIsExclusive, AloneUnlessCrowded, HolderOwns
  <2>5. QED
    BY <1>2, <2>1, <2>2, <2>3, <2>4 DEF Next
<1>3. QED
  BY <1>1, <1>2, PTL DEF Spec

(* The table, the lock and its owner stay what they are declared as.        *)
THEOREM LockTypeCorrect == Spec => []LockTypeOK
<1>1. LockInv => LockTypeOK
  BY DEF LockInv
<1>2. QED
  BY LockInvariant, <1>1, PTL

(* Two holders of the lock are of two processes, of which one was used by   *)
(* two threads at once: a process that opens its database once keeps it.    *)
THEOREM LockKeepsOut == Spec => []LockKeepsOthersOut
<1>1. ASSUME LockInv PROVE LockKeepsOthersOut
  <2> SUFFICES ASSUME NEW t \in Holders, NEW u \in Holders, t # u
               PROVE  ProcessOf[t] # ProcessOf[u] /\ {ProcessOf[t], ProcessOf[u]} \cap crowded # {}
    BY DEF LockKeepsOthersOut
  <2>1. t \in Threads /\ u \in Threads /\ pc[t] = "holds" /\ pc[u] = "holds"
    BY DEF Holders
  <2>2. ProcessOf[t] # ProcessOf[u]
    BY <1>1, <2>1 DEF LockInv, TableIsExclusive, InTable
  <2>3. ProcessOf[t] \in crowded \/ ProcessOf[u] \in crowded
    BY <1>1, <2>1, <2>2 DEF LockInv, HolderOwns
  <2>4. QED
    BY <2>2, <2>3
<1>2. QED
  BY LockInvariant, <1>1, PTL
(* The limits are kept and reads do not depend on the way, for any number   *)
(* of readers and any limits.                                               *)
OpenReader ==
  [by     : {"stream", "opened", "fd", "name", "mmap"},
   name   : ReadNames,
   length : Int,
   pos    : Int,
   asked  : Int \X Int,
   got    : Int \X Int]

ReadersTypeOK ==
  /\ files \subseteq ReadNames
  /\ opened \in [FileReaders -> OpenReader \union {Limits!Closed}]
  /\ mmap_limit_ \in Int
  /\ fd_limit_ \in Int

(* A reader with a map has all of its file, and what it read is right.      *)
RightReader(state, present) ==
  /\ state.by = "mmap" => state.length = FileSize
  /\ state.by # "nothing" /\ state.asked[2] <= FileSize =>
       \/ state.got = state.asked
       \/ state.got = Limits!Failed /\ state.by = "name" /\ state.name \notin present

ReadersInv ==
  /\ ReadersTypeOK
  /\ \A r \in FileReaders : RightReader(opened[r], files)
  /\ Limits!LimitsHold

(* What a reader takes of a limit.                                          *)
Takes(state, kinds) == IF state.by \in kinds THEN 1 ELSE 0

-----------------------------------------------------------------------------
(* The counting of an instance is that of the library.                      *)
LEMMA SameFinite == \A S : Limits!IsFiniteSet(S) <=> IsFiniteSet(S)
BY DEF Limits!IsFiniteSet, IsFiniteSet

LEMMA SameCount == \A S : Limits!Cardinality(S) = Cardinality(S)
BY DEF Limits!Cardinality, Cardinality

(* How many readers are of some kinds, when one of them changes.            *)
LEMMA CountOfKinds ==
  ASSUME ReadersTypeOK, NEW kinds, NEW r \in FileReaders, NEW to,
         opened' = [opened EXCEPT ![r] = to]
  PROVE  /\ Limits!Cardinality(Limits!By(kinds)) \in Nat /\ Limits!Cardinality(Limits!By(kinds)') \in Nat
         /\ Limits!Cardinality(Limits!By(kinds)') = Limits!Cardinality(Limits!By(kinds)) + Takes(to, kinds) - Takes(opened[r], kinds)
<1>1. Limits!By(kinds)' = IF to.by \in kinds THEN Limits!By(kinds) \union {r} ELSE Limits!By(kinds) \ {r}
  BY DEF Limits!By, ReadersTypeOK
<1>2. r \in Limits!By(kinds) <=> opened[r].by \in kinds
  BY DEF Limits!By
<1>3. IsFiniteSet(Limits!By(kinds)) /\ Limits!By(kinds) \subseteq FileReaders
  BY LimitsAssumptions, FS_Subset, SameFinite DEF Limits!By, Limits!ReadersAssumption
<1>4. /\ Limits!Cardinality(Limits!By(kinds)) \in Nat
      /\ Limits!Cardinality(Limits!By(kinds) \union {r}) =
           IF r \in Limits!By(kinds) THEN Limits!Cardinality(Limits!By(kinds)) ELSE Limits!Cardinality(Limits!By(kinds)) + 1
      /\ Limits!Cardinality(Limits!By(kinds) \ {r}) =
           IF r \in Limits!By(kinds) THEN Limits!Cardinality(Limits!By(kinds)) - 1 ELSE Limits!Cardinality(Limits!By(kinds))
  BY <1>3, SameCount, FS_CardinalityType, FS_AddElement, FS_RemoveElement
<1>5. r \in Limits!By(kinds) => Limits!Cardinality(Limits!By(kinds)) # 0
  BY <1>3, SameCount, FS_EmptySet
<1> HIDE DEF Limits!By
<1>6. CASE to.by \in kinds
  BY <1>1, <1>2, <1>4, <1>6 DEF Takes
<1>7. CASE to.by \notin kinds
  BY <1>1, <1>2, <1>4, <1>5, <1>7 DEF Takes
<1>8. QED
  BY <1>6, <1>7

(* A reader takes its place, reads or leaves: the limits move with the maps *)
(* and descriptors.                                                         *)
LEMMA ReaderMoves ==
  ASSUME ReadersInv,
         NEW r \in FileReaders, NEW to \in OpenReader \union {Limits!Closed},
         opened' = [opened EXCEPT ![r] = to], UNCHANGED files,
         mmap_limit_' = mmap_limit_ - Takes(to, {"opened", "mmap"}) + Takes(opened[r], {"opened", "mmap"}),
         fd_limit_' = fd_limit_ - Takes(to, {"fd"}) + Takes(opened[r], {"fd"}),
         mmap_limit_' >= 0, fd_limit_' >= 0,
         RightReader(to, files)
  PROVE  ReadersInv'
<1>1. \A kinds : Takes(to, kinds) \in Int /\ Takes(opened[r], kinds) \in Int
  BY DEF Takes
<1>2. mmap_limit_' \in Int /\ fd_limit_' \in Int /\ MmapLimit \in Int /\ FdLimit \in Int
  BY LimitsAssumptions, <1>1 DEF ReadersInv, ReadersTypeOK, Limits!SizesAssumption
<1>3. ReadersTypeOK /\ ReadersTypeOK'
  BY <1>2 DEF ReadersInv, ReadersTypeOK
<1>4. \A s \in FileReaders : RightReader(opened'[s], files')
  BY DEF ReadersInv, ReadersTypeOK
<1>5. mmap_limit_' + Limits!Cardinality(Limits!By({"opened", "mmap"})') = MmapLimit
  <2>1. /\ Limits!Cardinality(Limits!By({"opened", "mmap"})) \in Nat /\ Limits!Cardinality(Limits!By({"opened", "mmap"})') \in Nat
        /\ Limits!Cardinality(Limits!By({"opened", "mmap"})') = Limits!Cardinality(Limits!By({"opened", "mmap"}))
             + Takes(to, {"opened", "mmap"}) - Takes(opened[r], {"opened", "mmap"})
    BY <1>3, CountOfKinds
  <2>2. mmap_limit_ + Limits!Cardinality(Limits!By({"opened", "mmap"})) = MmapLimit /\ mmap_limit_ \in Int
    BY <1>3 DEF ReadersInv, Limits!LimitsHold, ReadersTypeOK
  <2>3. QED
    BY <1>1, <2>1, <2>2
<1>6. fd_limit_' + Limits!Cardinality(Limits!By({"fd"})') = FdLimit
  <2>1. /\ Limits!Cardinality(Limits!By({"fd"})) \in Nat /\ Limits!Cardinality(Limits!By({"fd"})') \in Nat
        /\ Limits!Cardinality(Limits!By({"fd"})') = Limits!Cardinality(Limits!By({"fd"})) + Takes(to, {"fd"}) - Takes(opened[r], {"fd"})
    BY <1>3, CountOfKinds
  <2>2. fd_limit_ + Limits!Cardinality(Limits!By({"fd"})) = FdLimit /\ fd_limit_ \in Int
    BY <1>3 DEF ReadersInv, Limits!LimitsHold, ReadersTypeOK
  <2>3. QED
    BY <1>1, <2>1, <2>2
<1>7. Limits!LimitsHold'
  BY <1>5, <1>6 DEF Limits!LimitsHold
<1>8. QED
  BY <1>3, <1>4, <1>7 DEF ReadersInv

-----------------------------------------------------------------------------
LEMMA OpeningKeeps ==
  ASSUME ReadersInv, NEW r \in FileReaders, NEW name \in ReadNames,
         Limits!NewSequentialFile(r, name) \/ Limits!NewRandomAccessFile(r, name)
  PROVE  ReadersInv'
<1> DEFINE Opened(by) == [by |-> by, name |-> name, length |-> 0, pos |-> 0, asked |-> Limits!Nothing, got |-> Limits!Nothing]
<1>1. /\ opened[r].by = "nothing"
      /\ UNCHANGED files /\ mmap_limit_ \in Int /\ fd_limit_ \in Int
      /\ mmap_limit_ >= 0 /\ fd_limit_ >= 0
  BY DEF Limits!NewSequentialFile, Limits!NewRandomAccessFile, Limits!Begin, Limits!Closed, ReadersInv, ReadersTypeOK, Limits!LimitsHold
<1>2. ASSUME NEW by \in {"stream", "opened", "fd", "name"}
      PROVE  /\ Opened(by) \in OpenReader /\ Opened(by).by = by
             /\ RightReader(Opened(by), files)
  BY DEF OpenReader, Limits!Nothing, RightReader
<1>3. PICK by \in {"stream", "opened", "fd", "name"} :
        /\ opened' = [opened EXCEPT ![r] = Opened(by)]
        /\ mmap_limit_' = IF by = "opened" THEN mmap_limit_ - 1 ELSE mmap_limit_
        /\ fd_limit_' = IF by = "fd" THEN fd_limit_ - 1 ELSE fd_limit_
        /\ by = "opened" => mmap_limit_ > 0
        /\ by = "fd" => fd_limit_ > 0
  BY DEF Limits!NewSequentialFile, Limits!NewRandomAccessFile, Limits!Begin, Limits!Acquire
<1> HIDE DEF Opened
<1>4. /\ mmap_limit_' = mmap_limit_ - Takes(Opened(by), {"opened", "mmap"}) + Takes(opened[r], {"opened", "mmap"})
      /\ fd_limit_' = fd_limit_ - Takes(Opened(by), {"fd"}) + Takes(opened[r], {"fd"})
      /\ mmap_limit_' >= 0 /\ fd_limit_' >= 0
  BY <1>1, <1>2, <1>3 DEF Takes
<1>5. QED
  BY <1>1, <1>2, <1>3, <1>4, ReaderMoves

LEMMA MapKeeps ==
  ASSUME ReadersInv, NEW r \in FileReaders, Limits!Map(r)
  PROVE  ReadersInv'
<1> DEFINE to == [opened[r] EXCEPT !.by = "mmap", !.length = FileSize]
<1>1. opened[r] \in OpenReader /\ opened[r].by = "opened"
  BY DEF Limits!Map, ReadersInv, ReadersTypeOK, Limits!Closed
<1>2. opened' = [opened EXCEPT ![r] = to] /\ UNCHANGED <<files, mmap_limit_, fd_limit_>>
  BY DEF Limits!Map
<1>3. to \in OpenReader /\ to.by = "mmap" /\ to.length = FileSize /\ to.asked = opened[r].asked /\ to.got = opened[r].got
  <2> DEFINE mapped == [opened[r] EXCEPT !.by = "mmap"]
  <2>1. mapped \in OpenReader /\ mapped.by = "mmap" /\ mapped.asked = opened[r].asked /\ mapped.got = opened[r].got
    BY <1>1 DEF OpenReader
  <2>2. to = [mapped EXCEPT !.length = FileSize]
    OBVIOUS
  <2> HIDE DEF mapped, to
  <2>3. QED
    BY LimitsAssumptions, <2>1, <2>2 DEF OpenReader, Limits!SizesAssumption
<1>4. RightReader(to, files)
  BY <1>1, <1>3 DEF RightReader, ReadersInv
<1>5. /\ mmap_limit_' = mmap_limit_ - Takes(to, {"opened", "mmap"}) + Takes(opened[r], {"opened", "mmap"})
      /\ fd_limit_' = fd_limit_ - Takes(to, {"fd"}) + Takes(opened[r], {"fd"})
      /\ mmap_limit_' >= 0 /\ fd_limit_' >= 0
  <2> HIDE DEF to
  <2>1. QED
    BY <1>1, <1>2, <1>3 DEF Takes, ReadersInv, ReadersTypeOK, Limits!LimitsHold
<1> HIDE DEF to
<1>6. QED
  BY <1>2, <1>3, <1>4, <1>5, ReaderMoves

(* A reader leaves and gives back what it held of a limit.                  *)
LEMMA LeavingKeeps ==
  ASSUME ReadersInv, NEW r \in FileReaders, Limits!MapFails(r) \/ Limits!CloseReader(r)
  PROVE  ReadersInv'
<1>1. opened' = [opened EXCEPT ![r] = Limits!Closed] /\ UNCHANGED files
  BY DEF Limits!MapFails, Limits!CloseReader
<1>2. Limits!Closed.by = "nothing" /\ RightReader(Limits!Closed, files)
  BY DEF Limits!Closed, RightReader
<1>3. /\ mmap_limit_' = IF opened[r].by \in {"opened", "mmap"} THEN mmap_limit_ + 1 ELSE mmap_limit_
      /\ fd_limit_' = IF opened[r].by = "fd" THEN fd_limit_ + 1 ELSE fd_limit_
  BY DEF Limits!MapFails, Limits!CloseReader, Limits!Release
<1>4. /\ mmap_limit_ \in Int /\ fd_limit_ \in Int /\ mmap_limit_ >= 0 /\ fd_limit_ >= 0
  BY DEF ReadersInv, ReadersTypeOK, Limits!LimitsHold
<1> HIDE DEF Limits!Closed
<1>5. /\ mmap_limit_' = mmap_limit_ - Takes(Limits!Closed, {"opened", "mmap"}) + Takes(opened[r], {"opened", "mmap"})
      /\ fd_limit_' = fd_limit_ - Takes(Limits!Closed, {"fd"}) + Takes(opened[r], {"fd"})
      /\ mmap_limit_' >= 0 /\ fd_limit_' >= 0
  BY <1>2, <1>3, <1>4 DEF Takes
<1>6. QED
  BY <1>1, <1>2, <1>5, ReaderMoves

(* A reader that goes on in its place takes no more of the limits.          *)
LEMMA ReadingKeeps ==
  ASSUME ReadersInv, NEW r \in FileReaders, NEW to \in OpenReader,
         opened' = [opened EXCEPT ![r] = to], UNCHANGED <<files, mmap_limit_, fd_limit_>>,
         to.by = opened[r].by, RightReader(to, files)
  PROVE  ReadersInv'
<1>1. \A kinds : Takes(to, kinds) = Takes(opened[r], kinds) /\ Takes(to, kinds) \in Int
  BY DEF Takes
<1>2. mmap_limit_ \in Int /\ fd_limit_ \in Int /\ mmap_limit_ >= 0 /\ fd_limit_ >= 0
  BY DEF ReadersInv, ReadersTypeOK, Limits!LimitsHold
<1>3. /\ mmap_limit_' = mmap_limit_ - Takes(to, {"opened", "mmap"}) + Takes(opened[r], {"opened", "mmap"})
      /\ fd_limit_' = fd_limit_ - Takes(to, {"fd"}) + Takes(opened[r], {"fd"})
      /\ mmap_limit_' >= 0 /\ fd_limit_' >= 0
  BY <1>1, <1>2
<1>4. QED
  BY <1>3, ReaderMoves

LEMMA RandomReadKeeps ==
  ASSUME ReadersInv, NEW r \in FileReaders, NEW offset \in Nat, NEW n \in Nat \ {0},
         Limits!ReadMmap(r, offset, n) \/ Limits!ReadRandomAccess(r, offset, n)
  PROVE  ReadersInv'
<1>1. opened[r] \in OpenReader /\ opened[r].by \in {"mmap", "fd", "name"}
  BY DEF Limits!ReadMmap, Limits!ReadRandomAccess, ReadersInv, ReadersTypeOK, Limits!Closed
<1>2. PICK got \in Int \X Int :
        /\ Limits!Got(r, offset, n, got)
        /\ offset + n <= FileSize =>
             \/ got = <<offset, offset + n>>
             \/ got = Limits!Failed /\ opened[r].by = "name" /\ opened[r].name \notin files
  <2>1. Limits!Piece(offset, n) \in Int \X Int /\ Limits!Failed \in Int \X Int /\ <<offset, offset + n>> \in Int \X Int
    BY LimitsAssumptions DEF Limits!Piece, Limits!AtMost, Limits!Failed, Limits!SizesAssumption
  <2>2. offset + n <= FileSize => Limits!Piece(offset, n) = <<offset, offset + n>>
    BY LimitsAssumptions DEF Limits!Piece, Limits!AtMost, Limits!SizesAssumption
  <2>3. opened[r].by = "mmap" => opened[r].length = FileSize
    BY DEF ReadersInv, RightReader
  <2> HIDE DEF Limits!Failed
  <2>4. CASE Limits!ReadMmap(r, offset, n)
    <3> DEFINE got == IF offset + n > FileSize THEN Limits!Failed ELSE <<offset, offset + n>>
    <3>1. Limits!Got(r, offset, n, got)
      BY <2>3, <2>4 DEF Limits!ReadMmap
    <3>2. got \in Int \X Int /\ (offset + n <= FileSize => got = <<offset, offset + n>>)
      BY LimitsAssumptions, <2>1 DEF Limits!SizesAssumption
    <3> HIDE DEF got
    <3>3. QED
      BY <3>1, <3>2
  <2>5. CASE opened[r].by = "name" /\ opened[r].name \notin files /\ Limits!ReadRandomAccess(r, offset, n)
    BY <2>1, <2>5 DEF Limits!ReadRandomAccess
  <2>6. CASE (opened[r].by = "fd" \/ opened[r].name \in files) /\ Limits!ReadRandomAccess(r, offset, n)
    BY <2>1, <2>2, <2>6 DEF Limits!ReadRandomAccess
  <2>7. QED
    BY <1>1, <2>4, <2>5, <2>6 DEF Limits!ReadRandomAccess
<1> DEFINE to == [opened[r] EXCEPT !.asked = <<offset, offset + n>>, !.got = got]
<1>3. opened' = [opened EXCEPT ![r] = to] /\ UNCHANGED <<files, mmap_limit_, fd_limit_>>
  BY <1>2 DEF Limits!Got
<1>4. /\ to \in OpenReader /\ to.asked = <<offset, offset + n>> /\ to.got = got
      /\ to.by = opened[r].by /\ to.name = opened[r].name /\ to.length = opened[r].length
  <2> DEFINE asked == <<offset, offset + n>>
  <2>1. asked \in Int \X Int /\ to = [opened[r] EXCEPT !.asked = asked, !.got = got]
    OBVIOUS
  <2> DEFINE half == [opened[r] EXCEPT !.asked = asked]
  <2> HIDE DEF asked
  <2>2. /\ half \in OpenReader /\ half.asked = asked
        /\ half.by = opened[r].by /\ half.name = opened[r].name /\ half.length = opened[r].length
    BY <1>1, <2>1 DEF OpenReader
  <2>3. to = [half EXCEPT !.got = got]
    BY <2>1
  <2> HIDE DEF half, to
  <2>4. /\ to \in OpenReader /\ to.asked = half.asked /\ to.got = got
        /\ to.by = half.by /\ to.name = half.name /\ to.length = half.length
    BY <1>2, <2>2, <2>3 DEF OpenReader
  <2>5. QED
    BY <2>2, <2>4 DEF asked
<1> HIDE DEF to
<1>5. RightReader(to, files)
  BY <1>1, <1>2, <1>4 DEF RightReader, ReadersInv
<1>6. QED
  BY <1>3, <1>4, <1>5, ReadingKeeps

LEMMA StreamReadKeeps ==
  ASSUME ReadersInv, NEW r \in FileReaders, NEW n \in Nat \ {0}, Limits!ReadSequential(r, n)
  PROVE  ReadersInv'
<1> DEFINE from  == opened[r].pos
           pos   == IF from < FileSize THEN Limits!AtMost(from + n) ELSE from
           moved == [opened[r] EXCEPT !.pos = pos]
           to    == [moved EXCEPT !.asked = <<from, from + n>>, !.got = Limits!Piece(from, n)]
<1>1. opened[r] \in OpenReader /\ opened[r].by = "stream"
  BY DEF Limits!ReadSequential, ReadersInv, ReadersTypeOK, Limits!Closed
<1>2. from \in Int /\ pos \in Int /\ Limits!Piece(from, n) \in Int \X Int /\ <<from, from + n>> \in Int \X Int
  BY LimitsAssumptions, <1>1 DEF OpenReader, Limits!AtMost, Limits!Piece, Limits!SizesAssumption
<1>3. from + n <= FileSize => Limits!Piece(from, n) = <<from, from + n>>
  BY LimitsAssumptions, <1>2 DEF Limits!Piece, Limits!AtMost, Limits!SizesAssumption
<1>4. opened' = [opened EXCEPT ![r] = to] /\ UNCHANGED <<files, mmap_limit_, fd_limit_>>
  BY DEF Limits!ReadSequential
<1> HIDE DEF pos
<1>5. moved \in OpenReader /\ moved.by = "stream"
  BY <1>1, <1>2 DEF OpenReader
<1> HIDE DEF moved, from
<1>6. to \in OpenReader /\ to.asked = <<from, from + n>> /\ to.got = Limits!Piece(from, n) /\ to.by = "stream"
  <2> DEFINE asked == <<from, from + n>>
             got   == Limits!Piece(from, n)
  <2>1. asked \in Int \X Int /\ got \in Int \X Int /\ to = [moved EXCEPT !.asked = asked, !.got = got]
    BY <1>2
  <2> DEFINE half == [moved EXCEPT !.asked = asked]
  <2> HIDE DEF asked, got
  <2>2. half \in OpenReader /\ half.asked = asked /\ half.by = "stream"
    BY <1>5, <2>1 DEF OpenReader
  <2>3. to = [half EXCEPT !.got = got]
    BY <2>1
  <2> HIDE DEF half, to
  <2>4. to \in OpenReader /\ to.asked = half.asked /\ to.got = got /\ to.by = half.by
    BY <2>1, <2>2, <2>3 DEF OpenReader
  <2>5. QED
    BY <2>2, <2>4 DEF asked, got
<1> HIDE DEF to
<1>7. RightReader(to, files)
  BY <1>3, <1>6 DEF RightReader
<1>8. QED
  BY <1>1, <1>4, <1>6, <1>7, ReadingKeeps

LEMMA SkipKeeps ==
  ASSUME ReadersInv, NEW r \in FileReaders, NEW n \in Nat, Limits!Skip(r, n)
  PROVE  ReadersInv'
<1> DEFINE to == [opened[r] EXCEPT !.pos = opened[r].pos + n]
<1>1. opened[r] \in OpenReader /\ opened[r].by = "stream"
  BY DEF Limits!Skip, ReadersInv, ReadersTypeOK, Limits!Closed
<1>2. /\ to \in OpenReader /\ to.by = "stream" /\ to.asked = opened[r].asked /\ to.got = opened[r].got
  BY <1>1 DEF OpenReader
<1>3. opened' = [opened EXCEPT ![r] = to] /\ UNCHANGED <<files, mmap_limit_, fd_limit_>>
  BY DEF Limits!Skip
<1> HIDE DEF to
<1>4. RightReader(to, files)
  BY <1>1, <1>2 DEF RightReader, ReadersInv
<1>5. QED
  BY <1>1, <1>2, <1>3, <1>4, ReadingKeeps

-----------------------------------------------------------------------------
(* The limits count what readers hold, also after an opening that failed    *)
(* half-way, and a read does not depend on the way a reader reads: for any  *)
(* files, readers and limits.                                               *)
THEOREM LimitsAreKept == StructuresSpec => []ReadersKeepLimits
<1>1. Limits!Init => ReadersInv
  <2> SUFFICES ASSUME Limits!Init PROVE ReadersInv
    OBVIOUS
  <2>1. ReadersTypeOK /\ \A r \in FileReaders : RightReader(opened[r], files)
    BY LimitsAssumptions DEF Limits!Init, ReadersTypeOK, RightReader, Limits!Closed, Limits!SizesAssumption
  <2>2. Limits!By({"opened", "mmap"}) = {} /\ Limits!By({"fd"}) = {}
    BY DEF Limits!Init, Limits!By, Limits!Closed
  <2>3. Limits!LimitsHold
    BY LimitsAssumptions, <2>2, FS_EmptySet, SameCount DEF Limits!Init, Limits!LimitsHold, Limits!SizesAssumption
  <2>4. QED
    BY <2>1, <2>3 DEF ReadersInv
<1>2. ASSUME ReadersInv, [Limits!Next]_readerVars PROVE ReadersInv'
  <2>1. CASE \E n \in ReadNames : Limits!DeleteFile(n)
    <3>1. files' \subseteq files /\ UNCHANGED <<opened, mmap_limit_, fd_limit_>>
      BY <2>1 DEF Limits!DeleteFile
    <3>2. QED
      BY <1>2, <3>1 DEF ReadersInv, ReadersTypeOK, RightReader, Limits!LimitsHold, Limits!By
  <2>2. CASE \E r \in FileReaders, n \in ReadNames : Limits!NewSequentialFile(r, n) \/ Limits!NewRandomAccessFile(r, n)
    BY <1>2, <2>2, OpeningKeeps
  <2>3. CASE \E r \in FileReaders : Limits!Map(r) \/ Limits!MapFails(r) \/ Limits!CloseReader(r)
    BY <1>2, <2>3, MapKeeps, LeavingKeeps
  <2>4. CASE \E r \in FileReaders, n \in 1..2 : Limits!ReadSequential(r, n) \/ Limits!Skip(r, n)
    BY <1>2, <2>4, StreamReadKeeps, SkipKeeps
  <2>5. CASE \E r \in FileReaders, offset \in 0..FileSize, n \in 1..2 : Limits!ReadMmap(r, offset, n) \/ Limits!ReadRandomAccess(r, offset, n)
    BY <1>2, <2>5, RandomReadKeeps
  <2>6. CASE UNCHANGED readerVars
    BY <1>2, <2>6 DEF readerVars, ReadersInv, ReadersTypeOK, RightReader, Limits!LimitsHold, Limits!By
  <2>7. QED
    BY <1>2, <2>1, <2>2, <2>3, <2>4, <2>5, <2>6 DEF Limits!Next
<1>3. ReadersInv => ReadersKeepLimits
  BY DEF ReadersKeepLimits, ReadersInv, RightReader, Limits!ReadersKeepLimits, Limits!ReadsAreRight, Limits!By
<1>4. StructuresInit => Limits!Init
  BY DEF StructuresInit
<1>5. [StructuresNext]_structuresVars => [Limits!Next]_readerVars
  BY OnDiskStep
<1>6. QED
  BY <1>1, <1>2, <1>3, <1>4, <1>5, PTL DEF StructuresSpec
(* CURRENT.  A text is a sequence of numbers; a name is of at most one file *)
(* and a file of at most one name, in any directory that may survive.       *)
SetNumbers == ManifestNumbers \union {Current!NoNumber}
CurrentTexts == Seq(ManifestNumbers)
Directories == [Current!FileNames -> 0..Len(text)]

CurrentTypeOK ==
  /\ text \in Seq(CurrentTexts) /\ synced \in Seq(CurrentTexts) /\ Len(synced) = Len(text)
  /\ named \in survivors /\ survivors \subseteq Directories
  /\ stage \in {"idle", "append", "sync", "close", "rename"}
  /\ descriptor_number \in SetNumbers /\ set \in SetNumbers
  /\ space \in CurrentTexts \union {Current!NotReading}
  /\ result \in CurrentTexts \union {Current!NotReading}

OneNameEach ==
  \A d \in survivors : \A m, n \in Current!FileNames : d[m] = d[n] /\ d[m] # Current!NoFile => m = n

(* What may turn out to be CURRENT is whole, and nobody writes to it.       *)
CurrentIsApart ==
  \A d \in survivors : d[Current!CURRENT] # Current!NoFile =>
    /\ Current!Whole(synced[d[Current!CURRENT]])
    /\ \A n \in ManifestNumbers : named[n] # d[Current!CURRENT]

CurrentAsSet ==
  named[Current!CURRENT] # Current!NoFile =>
    set \in ManifestNumbers /\ text[named[Current!CURRENT]] = Current!Contents(set)

(* How far SetCurrentFile has come with the file that is to be renamed.     *)
AsFarAsWritten ==
  stage # "idle" =>
    /\ space = Current!NotReading
    /\ descriptor_number \in ManifestNumbers /\ Current!File # Current!NoFile
    /\ stage \in {"sync", "close", "rename"} => text[Current!File] = Current!Contents(descriptor_number)
    /\ stage \in {"close", "rename"} => synced[Current!File] = Current!Contents(descriptor_number)

ReadSoFar ==
  /\ space # Current!NotReading =>
       /\ named[Current!CURRENT] # Current!NoFile
       /\ \E k \in 0..Pieces : space = [i \in 1..k |-> set]
  /\ result # Current!NotReading => Current!Whole(result)

CurrentInv == CurrentTypeOK /\ OneNameEach /\ CurrentIsApart /\ CurrentAsSet /\ AsFarAsWritten /\ ReadSoFar

-----------------------------------------------------------------------------
(* What a number of a manifest and a text of a file are not.                *)
LEMMA CurrentNumbers ==
  /\ ManifestNumbers \subseteq Nat \ {0} /\ SetNumbers \subseteq Nat
  /\ Current!FileNames = SetNumbers /\ Current!NoFile = 0 /\ Current!CURRENT = 0 /\ Current!NoNumber = 0
  /\ Pieces \in Nat \ {0} /\ kBufferSize \in Nat \ {0}
BY CurrentAssumptions DEF Current!NumbersAssumption, Current!SizesAssumption, SetNumbers, Current!FileNames,
   Current!NoFile, Current!CURRENT, Current!NoNumber

LEMMA CurrentWhole ==
  ASSUME NEW n \in ManifestNumbers
  PROVE  /\ Current!Contents(n) \in CurrentTexts /\ Current!Contents(n) # << >>
         /\ Head(Current!Contents(n)) = n /\ Len(Current!Contents(n)) = Pieces
BY CurrentNumbers DEF Current!Contents, CurrentTexts

LEMMA NotReadingIsNoText == Current!NotReading \notin CurrentTexts
<1>1. Current!NotReading[1] = 0 /\ Len(Current!NotReading) = 1
  BY CurrentNumbers DEF Current!NotReading
<1>2. QED
  BY <1>1, CurrentNumbers DEF CurrentTexts

LEMMA FilesOfNames ==
  ASSUME CurrentTypeOK, NEW d \in survivors, NEW n \in SetNumbers
  PROVE  d[n] \in 0..Len(text) /\ Len(text) \in Nat /\ (d[n] # 0 => d[n] \in 1..Len(text))
BY CurrentNumbers DEF CurrentTypeOK, Directories

-----------------------------------------------------------------------------
(* A name is taken away.                                                    *)
LEMMA NameGone ==
  ASSUME CurrentInv, NEW n \in ManifestNumbers, Current!DeleteFile(n), synced' = synced,
         text' \in Seq(CurrentTexts), Len(text') = Len(text)
  PROVE  /\ named' \in survivors' /\ survivors' \subseteq Directories'
         /\ OneNameEach' /\ CurrentIsApart' /\ named'[0] = named[0]
<1>1. named' = [named EXCEPT ![n] = 0] /\ survivors' = survivors \union {named'}
  BY CurrentNumbers DEF Current!DeleteFile, Current!Directory
<1>2. n \in SetNumbers /\ n # 0 /\ 0 \in SetNumbers
  BY CurrentNumbers DEF SetNumbers
<1>3. named \in survivors /\ \A d \in survivors : d \in [SetNumbers -> 0..Len(text)]
  BY CurrentNumbers DEF CurrentInv, CurrentTypeOK, Directories
<1>4. /\ named' \in [SetNumbers -> 0..Len(text)]
      /\ \A m \in SetNumbers : named'[m] = IF m = n THEN 0 ELSE named[m]
  BY <1>1, <1>2, <1>3
<1>5. Directories' = [SetNumbers -> 0..Len(text)]
  BY CurrentNumbers DEF Directories
<1>6. OneNameEach'
  BY <1>1, <1>3, <1>4, CurrentNumbers DEF CurrentInv, OneNameEach
<1>7. CurrentIsApart'
  <2> SUFFICES ASSUME NEW d \in survivors', d[0] # 0
               PROVE  /\ Current!Whole(synced[d[0]])
                      /\ \A k \in ManifestNumbers : named'[k] # d[0]
    BY CurrentNumbers DEF CurrentIsApart, Current!Whole, Current!Contents
  <2>1. PICK e \in survivors : e[0] = d[0]
    BY <1>1, <1>2, <1>3, <1>4
  <2>2. Current!Whole(synced[e[0]]) /\ \A k \in ManifestNumbers : named[k] # e[0]
    BY <2>1, CurrentNumbers DEF CurrentInv, CurrentIsApart
  <2>3. QED
    BY <1>4, <2>1, <2>2, CurrentNumbers DEF SetNumbers
<1>8. QED
  BY <1>1, <1>2, <1>3, <1>4, <1>5, <1>6, <1>7

(* The file that is being written is not CURRENT.                           *)
LEMMA WrittenIsNotCurrent ==
  ASSUME CurrentInv, stage # "idle"
  PROVE  /\ descriptor_number \in ManifestNumbers /\ descriptor_number # 0
         /\ Current!File = named[descriptor_number]
         /\ Current!File \in 1..Len(text) /\ Current!File # named[0]
         /\ \A d \in survivors : Current!File # d[0]
         /\ Len(synced) = Len(text) /\ Len(text) \in Nat
         /\ space = Current!NotReading
<1>1. /\ descriptor_number \in ManifestNumbers /\ named[descriptor_number] # 0
      /\ space = Current!NotReading /\ named \in survivors
  BY CurrentNumbers DEF CurrentInv, AsFarAsWritten, Current!File, CurrentTypeOK
<1>2. descriptor_number \in SetNumbers /\ 0 \in SetNumbers /\ descriptor_number # 0
  BY <1>1, CurrentNumbers DEF SetNumbers
<1>3. named[descriptor_number] \in 1..Len(text) /\ Len(text) \in Nat
  BY <1>1, <1>2, FilesOfNames DEF CurrentInv
<1>4. \A d \in survivors : d[0] # 0 => named[descriptor_number] # d[0]
  BY <1>1, CurrentNumbers DEF CurrentInv, CurrentIsApart
<1>5. QED
  BY <1>1, <1>2, <1>3, <1>4 DEF Current!File, CurrentInv, CurrentTypeOK

-----------------------------------------------------------------------------
LEMMA CurrentNewFile ==
  ASSUME CurrentInv, NEW n \in ManifestNumbers, Current!NewWritableFile(n)
  PROVE  CurrentInv'
<1>1. /\ stage = "idle" /\ space = Current!NotReading /\ descriptor_number' = n /\ stage' = "append"
      /\ UNCHANGED <<set, space, result>>
  BY DEF Current!NewWritableFile
<1>2. n \in SetNumbers /\ n # 0 /\ 0 \in SetNumbers /\ named \in survivors
  BY CurrentNumbers DEF SetNumbers, CurrentInv, CurrentTypeOK
<1>3. \A d \in survivors : d \in [SetNumbers -> 0..Len(text)]
  BY CurrentNumbers DEF CurrentInv, CurrentTypeOK, Directories
<1>4. << >> \in CurrentTexts /\ Len(text) \in Nat /\ text \in Seq(CurrentTexts)
      /\ synced \in Seq(CurrentTexts) /\ Len(synced) = Len(text)
  BY DEF CurrentTexts, CurrentInv, CurrentTypeOK
<1>5. ReadSoFar'
  BY <1>1 DEF CurrentInv, ReadSoFar, Current!Whole, Current!Contents
<1>6. CASE named[n] # 0 /\ text' = [text EXCEPT ![named[n]] = << >>] /\ UNCHANGED <<synced, named, survivors>>
  <2>1. named[n] \in 1..Len(text) /\ named[0] \in 0..Len(text) /\ named[n] # named[0]
    BY <1>2, <1>3, <1>6, CurrentNumbers DEF CurrentInv, OneNameEach
  <2>2. text' \in Seq(CurrentTexts) /\ Len(text') = Len(text) /\ text'[named[0]] = text[named[0]]
    BY <1>4, <1>6, <2>1
  <2>3. CurrentTypeOK'
    BY <1>1, <1>2, <1>6, <2>2 DEF CurrentInv, CurrentTypeOK, Directories
  <2>4. OneNameEach' /\ CurrentIsApart'
    BY <1>6 DEF CurrentInv, OneNameEach, CurrentIsApart, Current!Whole, Current!Contents
  <2>5. CurrentAsSet'
    BY <1>1, <1>6, <2>2, CurrentNumbers DEF CurrentInv, CurrentAsSet, Current!Contents
  <2>6. AsFarAsWritten'
    BY <1>1, <1>6, CurrentNumbers DEF AsFarAsWritten, Current!File
  <2>7. QED
    BY <1>5, <2>3, <2>4, <2>5, <2>6 DEF CurrentInv
<1>7. CASE /\ text' = Append(text, << >>) /\ synced' = Append(synced, << >>)
           /\ Current!Directory([named EXCEPT ![n] = Len(text) + 1])
  <2>1. /\ named' = [named EXCEPT ![n] = Len(text) + 1] /\ survivors' = survivors \union {named'}
        /\ \A m \in SetNumbers : named'[m] = IF m = n THEN Len(text) + 1 ELSE named[m]
    BY <1>2, <1>3, <1>7 DEF Current!Directory
  <2>2. /\ text' \in Seq(CurrentTexts) /\ synced' \in Seq(CurrentTexts)
        /\ Len(text') = Len(text) + 1 /\ Len(synced') = Len(text')
        /\ \A i \in 1..Len(text) : text'[i] = text[i] /\ synced'[i] = synced[i]
    BY <1>4, <1>7
  <2>3. named' \in [SetNumbers -> 0..Len(text')] /\ survivors' \subseteq [SetNumbers -> 0..Len(text')]
    <3>1. 0..Len(text) \subseteq 0..Len(text') /\ Len(text) + 1 \in 0..Len(text')
      BY <1>4, <2>2
    <3>2. \A d \in survivors : d \in [SetNumbers -> 0..Len(text')]
      BY <1>3, <3>1
    <3>3. named' \in [SetNumbers -> 0..Len(text')]
      BY <1>2, <2>1, <3>1, <3>2
    <3>4. QED
      BY <2>1, <3>2, <3>3
  <2>4. CurrentTypeOK'
    BY <1>1, <1>2, <2>1, <2>2, <2>3, CurrentNumbers DEF CurrentInv, CurrentTypeOK, Directories
  <2>5. OneNameEach'
    <3> SUFFICES ASSUME NEW d \in survivors', NEW i \in SetNumbers, NEW j \in SetNumbers, d[i] = d[j], d[i] # 0
                 PROVE  i = j
      BY CurrentNumbers DEF OneNameEach
    <3>1. CASE d \in survivors
      BY <3>1, CurrentNumbers DEF CurrentInv, OneNameEach
    <3>2. CASE d = named'
      <4>1. named[i] \in 0..Len(text) /\ named[j] \in 0..Len(text)
        BY <1>2, <1>3
      <4>2. i # n /\ j # n => i = j
        BY <1>2, <2>1, <3>2, CurrentNumbers DEF CurrentInv, OneNameEach
      <4>3. QED
        BY <1>4, <2>1, <3>2, <4>1, <4>2
    <3>3. QED
      BY <2>1, <3>1, <3>2
  <2>6. CurrentIsApart'
    <3> SUFFICES ASSUME NEW d \in survivors', d[0] # 0
                 PROVE  Current!Whole(synced'[d[0]]) /\ \A k \in ManifestNumbers : named'[k] # d[0]
      BY CurrentNumbers DEF CurrentIsApart, Current!Whole, Current!Contents
    <3>1. PICK e \in survivors : e[0] = d[0]
      BY <1>2, <2>1
    <3>2. Current!Whole(synced[e[0]]) /\ \A k \in ManifestNumbers : named[k] # e[0]
      BY <3>1, CurrentNumbers DEF CurrentInv, CurrentIsApart
    <3>3. e[0] \in 1..Len(text)
      BY <1>2, <1>3, <3>1
    <3>4. QED
      BY <1>4, <2>1, <2>2, <3>1, <3>2, <3>3 DEF SetNumbers
  <2>7. CurrentAsSet'
    <3>1. named'[0] = named[0] /\ named[0] \in 0..Len(text)
      BY <1>2, <1>3, <2>1
    <3>2. QED
      BY <1>1, <2>2, <3>1, CurrentNumbers DEF CurrentInv, CurrentAsSet, Current!Contents
  <2>8. AsFarAsWritten'
    BY <1>1, <1>2, <1>4, <2>1, CurrentNumbers DEF AsFarAsWritten, Current!File
  <2>9. QED
    BY <1>5, <2>4, <2>5, <2>6, <2>7, <2>8 DEF CurrentInv
<1>8. QED
  BY <1>6, <1>7, CurrentNumbers DEF Current!NewWritableFile

LEMMA CurrentWrites ==
  ASSUME CurrentInv, Current!AppendData \/ Current!Sync \/ Current!Close
  PROVE  CurrentInv'
<1>1. stage # "idle" /\ UNCHANGED <<named, survivors, descriptor_number, set, space, result>>
  BY DEF Current!AppendData, Current!Sync, Current!Close
<1>2. /\ descriptor_number \in ManifestNumbers /\ Current!File = named[descriptor_number]
      /\ Current!File \in 1..Len(text) /\ Current!File # named[0] /\ space = Current!NotReading
      /\ Len(synced) = Len(text) /\ Len(text) \in Nat /\ \A d \in survivors : Current!File # d[0]
  BY <1>1, WrittenIsNotCurrent
<1>3. text \in Seq(CurrentTexts) /\ synced \in Seq(CurrentTexts) /\ Current!File' = Current!File
  BY <1>1 DEF CurrentInv, CurrentTypeOK, Current!File
<1>4. ReadSoFar' /\ OneNameEach'
  BY <1>1 DEF CurrentInv, ReadSoFar, OneNameEach, Current!Whole, Current!Contents
<1> DEFINE file == Current!File
<1>5. file \in 1..Len(text) /\ file = Current!File
  BY <1>2
<1>6. CASE Current!AppendData
  <2>1. /\ text' = [text EXCEPT ![file] = Current!Contents(descriptor_number)] /\ UNCHANGED synced
        /\ stage' = "sync"
    BY <1>6 DEF Current!AppendData, Current!Written
  <2> HIDE DEF file
  <2>2. /\ text' \in Seq(CurrentTexts) /\ Len(text') = Len(text)
        /\ text'[file] = Current!Contents(descriptor_number) /\ \A i \in 1..Len(text) : i # file => text'[i] = text[i]
    BY <1>2, <1>3, <1>5, <2>1, CurrentWhole
  <2>3. CurrentTypeOK'
    BY <1>1, <1>2, <2>1, <2>2 DEF CurrentInv, CurrentTypeOK, Directories
  <2>4. CurrentIsApart'
    BY <1>1, <2>1 DEF CurrentInv, CurrentIsApart, Current!Whole, Current!Contents
  <2>5. CurrentAsSet'
    <3>1. named[0] \in 0..Len(text)
      BY FilesOfNames, CurrentNumbers DEF CurrentInv, CurrentTypeOK, SetNumbers
    <3>2. QED
      BY <1>1, <1>2, <1>5, <2>2, <3>1, CurrentNumbers DEF CurrentInv, CurrentAsSet, Current!Contents
  <2>6. AsFarAsWritten'
    BY <1>1, <1>2, <1>3, <1>5, <2>1, <2>2, CurrentNumbers DEF AsFarAsWritten, Current!Contents
  <2>7. QED
    BY <1>4, <2>3, <2>4, <2>5, <2>6 DEF CurrentInv
<1>7. CASE Current!Sync
  <2>1. synced' = [synced EXCEPT ![file] = text[file]] /\ UNCHANGED text /\ stage = "sync" /\ stage' = "close"
    BY <1>7 DEF Current!Sync, Current!Synced
  <2>2. text[file] = Current!Contents(descriptor_number)
    BY <2>1 DEF CurrentInv, AsFarAsWritten
  <2> HIDE DEF file
  <2>3. /\ synced' \in Seq(CurrentTexts) /\ Len(synced') = Len(synced)
        /\ synced'[file] = text[file] /\ \A i \in 1..Len(text) : i # file => synced'[i] = synced[i]
    BY <1>2, <1>3, <1>5, <2>1
  <2>4. CurrentTypeOK'
    BY <1>1, <1>2, <2>1, <2>3 DEF CurrentInv, CurrentTypeOK, Directories
  <2>5. CurrentIsApart'
    <3> SUFFICES ASSUME NEW d \in survivors, d[0] # 0
                 PROVE  Current!Whole(synced'[d[0]]) /\ \A k \in ManifestNumbers : named[k] # d[0]
      BY <1>1, CurrentNumbers DEF CurrentIsApart, Current!Whole, Current!Contents
    <3>1. Current!Whole(synced[d[0]]) /\ \A k \in ManifestNumbers : named[k] # d[0]
      BY CurrentNumbers DEF CurrentInv, CurrentIsApart
    <3>2. d[0] \in 1..Len(text) /\ d[0] # file
      BY <1>2, <1>5, FilesOfNames, CurrentNumbers DEF CurrentInv, SetNumbers
    <3>3. QED
      BY <2>3, <3>1, <3>2
  <2>6. CurrentAsSet'
    BY <1>1, <2>1 DEF CurrentInv, CurrentAsSet, Current!Contents
  <2>7. AsFarAsWritten'
    BY <1>1, <1>2, <1>3, <1>5, <2>1, <2>2, <2>3, CurrentNumbers DEF AsFarAsWritten, Current!Contents
  <2>8. QED
    BY <1>4, <2>4, <2>5, <2>6, <2>7 DEF CurrentInv
<1>8. CASE Current!Close
  <2>1. UNCHANGED <<text, synced>> /\ stage = "close" /\ stage' = "rename"
    BY <1>8 DEF Current!Close
  <2>2. CurrentTypeOK' /\ CurrentIsApart' /\ CurrentAsSet'
    BY <1>1, <2>1 DEF CurrentInv, CurrentTypeOK, Directories, CurrentIsApart, CurrentAsSet, Current!Whole, Current!Contents
  <2>3. AsFarAsWritten'
    BY <1>1, <1>3, <2>1 DEF CurrentInv, AsFarAsWritten, Current!Contents
  <2>4. QED
    BY <1>4, <2>2, <2>3 DEF CurrentInv
<1>9. QED
  BY <1>6, <1>7, <1>8

(* The file is given up: by a call that fails, at any stage.                *)
LEMMA CurrentGivesUp ==
  ASSUME CurrentInv, Current!WriteFails \/ Current!RenameFails
  PROVE  CurrentInv'
<1>1. /\ stage # "idle" /\ stage' = "idle" /\ Current!DeleteFile(descriptor_number)
      /\ UNCHANGED <<synced, descriptor_number, set, space, result>>
  BY DEF Current!WriteFails, Current!RenameFails
<1>2. /\ descriptor_number \in ManifestNumbers /\ Current!File \in 1..Len(text) /\ Current!File # named[0]
      /\ Len(synced) = Len(text) /\ Len(text) \in Nat
  BY <1>1, WrittenIsNotCurrent
<1>3. text \in Seq(CurrentTexts)
  BY DEF CurrentInv, CurrentTypeOK
<1>4. /\ text' \in Seq(CurrentTexts) /\ Len(text') = Len(text)
      /\ \A i \in 1..Len(text) : i # Current!File => text'[i] = text[i]
  <2>1. CASE UNCHANGED text
    BY <1>3, <2>1
  <2>2. CASE \E i \in 0..Pieces : Current!Written(Current!Part(Current!Contents(descriptor_number), i))
    <3>1. PICK i \in 0..Pieces : text' = [text EXCEPT ![Current!File] = Current!Part(Current!Contents(descriptor_number), i)]
      BY <2>2 DEF Current!Written
    <3>2. Current!Part(Current!Contents(descriptor_number), i) \in CurrentTexts
      BY <1>2, CurrentNumbers DEF Current!Part, Current!Contents, CurrentTexts
    <3>3. QED
      BY <1>2, <1>3, <3>1, <3>2
  <2>3. QED
    BY <2>1, <2>2 DEF Current!WriteFails, Current!RenameFails
<1>5. /\ named' \in survivors' /\ survivors' \subseteq Directories'
      /\ OneNameEach' /\ CurrentIsApart' /\ named'[0] = named[0]
  BY <1>1, <1>2, <1>4, NameGone
<1>6. CurrentTypeOK'
  BY <1>1, <1>2, <1>4, <1>5 DEF CurrentInv, CurrentTypeOK
<1>7. CurrentAsSet'
  <2>1. named[0] \in 0..Len(text)
    BY FilesOfNames, CurrentNumbers DEF CurrentInv, CurrentTypeOK, SetNumbers
  <2>2. QED
    BY <1>1, <1>2, <1>4, <1>5, <2>1, CurrentNumbers DEF CurrentInv, CurrentAsSet, Current!Contents
<1>8. AsFarAsWritten'
  BY <1>1 DEF AsFarAsWritten
<1>9. ReadSoFar'
  BY <1>1, <1>5, CurrentNumbers DEF CurrentInv, ReadSoFar, Current!Whole, Current!Contents
<1>10. QED
  BY <1>5, <1>6, <1>7, <1>8, <1>9 DEF CurrentInv

(* CURRENT becomes a name of the file that was written and synced.          *)
LEMMA CurrentRenamed ==
  ASSUME CurrentInv, Current!RenameFile
  PROVE  CurrentInv'
<1> DEFINE n == descriptor_number
           file == Current!File
<1>1. /\ stage = "rename" /\ stage' = "idle" /\ set' = n
      /\ named' = [named EXCEPT ![0] = file, ![n] = 0] /\ survivors' = survivors \union {named'}
      /\ UNCHANGED <<text, synced, descriptor_number, space, result>>
  BY CurrentNumbers DEF Current!RenameFile, Current!Directory
<1>2. /\ n \in ManifestNumbers /\ file = named[n] /\ file \in 1..Len(text)
      /\ file # named[0] /\ space = Current!NotReading /\ n # 0 /\ Len(text) \in Nat
      /\ \A d \in survivors : file # d[0]
  BY <1>1, WrittenIsNotCurrent
<1>3. text[file] = Current!Contents(n) /\ synced[file] = Current!Contents(n)
  BY <1>1 DEF CurrentInv, AsFarAsWritten
<1>4. n \in SetNumbers /\ 0 \in SetNumbers /\ named \in survivors
  BY <1>2, CurrentNumbers DEF SetNumbers, CurrentInv, CurrentTypeOK
<1>5. \A d \in survivors : d \in [SetNumbers -> 0..Len(text)]
  BY CurrentNumbers DEF CurrentInv, CurrentTypeOK, Directories
<1> HIDE DEF n, file
<1>6. /\ named' \in [SetNumbers -> 0..Len(text)] /\ named'[0] = file
      /\ \A m \in SetNumbers : named'[m] = IF m = n THEN 0 ELSE IF m = 0 THEN file ELSE named[m]
  BY <1>1, <1>2, <1>4, <1>5
<1>7. CurrentTypeOK'
  BY <1>1, <1>4, <1>5, <1>6, CurrentNumbers DEF CurrentInv, CurrentTypeOK, Directories
<1>8. OneNameEach'
  <2> SUFFICES ASSUME NEW d \in survivors', NEW i \in SetNumbers, NEW j \in SetNumbers, d[i] = d[j], d[i] # 0
               PROVE  i = j
    BY CurrentNumbers DEF OneNameEach
  <2>1. CASE d \in survivors
    BY <2>1, CurrentNumbers DEF CurrentInv, OneNameEach
  <2>2. CASE d = named'
    <3>1. ASSUME NEW m \in SetNumbers, m # n PROVE named[m] # file
      BY <1>2, <1>4, <3>1, CurrentNumbers DEF CurrentInv, OneNameEach
    <3>2. i # n /\ j # n
      BY <1>6, <2>2
    <3>3. i # 0 /\ j # 0 => i = j
      BY <1>4, <1>6, <2>2, <3>2, CurrentNumbers DEF CurrentInv, OneNameEach
    <3>4. QED
      BY <1>6, <2>2, <3>1, <3>2, <3>3
  <2>3. QED
    BY <1>1, <2>1, <2>2
<1>9. CurrentIsApart'
  <2> SUFFICES ASSUME NEW d \in survivors', d[0] # 0
               PROVE  Current!Whole(synced[d[0]]) /\ \A k \in ManifestNumbers : named'[k] # d[0]
    BY <1>1, CurrentNumbers DEF CurrentIsApart, Current!Whole, Current!Contents
  <2>1. CASE d \in survivors
    <3>1. Current!Whole(synced[d[0]]) /\ \A k \in ManifestNumbers : named[k] # d[0]
      BY <2>1, CurrentNumbers DEF CurrentInv, CurrentIsApart
    <3>2. \A k \in ManifestNumbers : k \in SetNumbers /\ k # 0
      BY CurrentNumbers DEF SetNumbers
    <3>3. QED
      BY <1>6, <3>1, <3>2
  <2>2. CASE d = named'
    <3>1. Current!Whole(synced[file])
      BY <1>2, <1>3 DEF Current!Whole
    <3>2. ASSUME NEW k \in ManifestNumbers PROVE named'[k] # file
      <4>1. k \in SetNumbers /\ k # 0
        BY CurrentNumbers DEF SetNumbers
      <4>2. k # n => named[k] # file
        BY <1>2, <1>4, <4>1, CurrentNumbers DEF CurrentInv, OneNameEach
      <4>3. QED
        BY <1>2, <1>6, <4>1, <4>2
    <3>3. QED
      BY <1>6, <2>2, <3>1, <3>2
  <2>3. QED
    BY <1>1, <2>1, <2>2
<1>10. CurrentAsSet'
  BY <1>1, <1>2, <1>3, <1>6, CurrentNumbers DEF CurrentAsSet, Current!Contents
<1>11. AsFarAsWritten' /\ ReadSoFar'
  BY <1>1, <1>2 DEF AsFarAsWritten, CurrentInv, ReadSoFar, Current!Whole, Current!Contents
<1>12. QED
  BY <1>7, <1>8, <1>9, <1>10, <1>11 DEF CurrentInv

-----------------------------------------------------------------------------
(* ReadFileToString takes the text as it is, piece by piece.                *)
LEMMA CurrentReads ==
  ASSUME CurrentInv, Current!NewSequentialFile \/ Current!Read \/ Current!ReadFails
  PROVE  CurrentInv'
<1>1. UNCHANGED <<text, synced, named, survivors, stage, descriptor_number, set>>
  BY DEF Current!NewSequentialFile, Current!Read, Current!ReadFails
<1>2. OneNameEach' /\ CurrentIsApart' /\ CurrentAsSet'
  BY <1>1 DEF CurrentInv, OneNameEach, CurrentIsApart, CurrentAsSet, Current!Whole, Current!Contents
<1>3. stage = "idle" => AsFarAsWritten'
  BY <1>1 DEF AsFarAsWritten
<1>4. CASE Current!NewSequentialFile
  <2>1. space' = << >> /\ UNCHANGED result /\ stage = "idle" /\ named[0] # 0
    BY <1>4, CurrentNumbers DEF Current!NewSequentialFile
  <2>2. << >> \in CurrentTexts /\ << >> = [i \in 1..0 |-> set] /\ 0 \in 0..Pieces
    BY CurrentNumbers DEF CurrentTexts
  <2>3. CurrentTypeOK'
    BY <1>1, <2>1, <2>2 DEF CurrentInv, CurrentTypeOK, Directories
  <2>4. ReadSoFar'
    BY <1>1, <2>1, <2>2, CurrentNumbers DEF CurrentInv, ReadSoFar, Current!Whole, Current!Contents
  <2>5. QED
    BY <1>2, <1>3, <2>1, <2>3, <2>4 DEF CurrentInv
<1>5. CASE Current!ReadFails
  <2>1. space' = Current!NotReading /\ UNCHANGED result /\ space # Current!NotReading
    BY <1>5 DEF Current!ReadFails
  <2>2. stage = "idle"
    BY <2>1 DEF CurrentInv, AsFarAsWritten
  <2>3. CurrentTypeOK' /\ ReadSoFar'
    BY <1>1, <2>1 DEF CurrentInv, CurrentTypeOK, Directories, ReadSoFar, Current!Whole, Current!Contents, Current!NotReading
  <2>4. QED
    BY <1>2, <1>3, <2>2, <2>3 DEF CurrentInv
<1>6. CASE Current!Read
  <2>1. space # Current!NotReading /\ stage = "idle" /\ named[0] # 0
    BY <1>6, CurrentNumbers DEF Current!Read, CurrentInv, AsFarAsWritten, ReadSoFar
  <2>2. set \in ManifestNumbers /\ text[named[0]] = Current!Contents(set)
    BY <2>1, CurrentNumbers DEF CurrentInv, CurrentAsSet
  <2>3. PICK k \in 0..Pieces : space = [i \in 1..k |-> set]
    BY <2>1 DEF CurrentInv, ReadSoFar
  <2>4. PICK fragment \in Current!Fragments(Current!Contents(set)) :
          /\ space' = IF fragment = << >> THEN Current!NotReading ELSE space \o fragment
          /\ result' = IF fragment = << >> THEN space ELSE result
    BY <1>6, <2>2, CurrentNumbers DEF Current!Read
  <2>5. Len(space) = k /\ Len(Current!Contents(set)) = Pieces /\ k \in Nat /\ Pieces \in Nat
    BY <2>2, <2>3, CurrentWhole, CurrentNumbers
  <2>6. CASE k = Pieces
    <3>1. fragment = << >> /\ space = Current!Contents(set)
      BY <2>3, <2>4, <2>5, <2>6 DEF Current!Fragments, Current!Contents
    <3>2. space' = Current!NotReading /\ result' = Current!Contents(set) /\ Current!Contents(set) \in CurrentTexts
      BY <2>2, <2>4, <3>1, CurrentWhole
    <3>3. CurrentTypeOK' /\ ReadSoFar'
      BY <1>1, <2>2, <3>2 DEF CurrentInv, CurrentTypeOK, Directories, ReadSoFar, Current!Whole, Current!Contents, Current!NotReading
    <3>4. QED
      BY <1>2, <1>3, <2>1, <3>3 DEF CurrentInv
  <2>7. CASE k < Pieces
    <3> DEFINE whole == Current!Contents(set)
               least == IF Len(space) + kBufferSize < Len(whole) THEN Len(space) + kBufferSize ELSE Len(whole)
    <3>0. /\ whole \in CurrentTexts /\ whole = [i \in 1..Pieces |-> set] /\ Len(space) # Len(whole)
          /\ least \in Nat /\ least <= Pieces /\ Len(space) = k /\ k \in Nat
      <4>1. whole \in CurrentTexts /\ whole = [i \in 1..Pieces |-> set]
        BY <2>2, CurrentWhole DEF Current!Contents
      <4>2. Len(space) # Len(whole) /\ Len(whole) = Pieces /\ Len(space) = k /\ k \in Nat
        BY <2>5, <2>7
      <4> HIDE DEF whole
      <4>3. least \in Nat /\ least <= Pieces
        BY <4>2, <2>5, <2>7, CurrentNumbers
      <4>4. QED
        BY <4>1, <4>2, <4>3
    <3>a. fragment \in {SubSeq(whole, Len(space) + 1, to) : to \in (Len(space) + 1)..least}
      BY <2>4, <3>0 DEF Current!Fragments
    <3>1. PICK to \in (k + 1)..Pieces : fragment = SubSeq(whole, k + 1, to)
      <4> HIDE DEF whole, least
      <4>1. PICK to \in (k + 1)..least : fragment = SubSeq(whole, k + 1, to)
        BY <3>0, <3>a
      <4>2. to \in (k + 1)..Pieces
        BY <3>0, <4>1, <2>5
      <4>3. QED
        BY <4>1, <4>2
    <3>2. /\ Len(fragment) = to - k /\ \A i \in 1..(to - k) : fragment[i] = set
          /\ fragment \in CurrentTexts /\ fragment # << >>
      <4> HIDE DEF whole, least
      <4>0. whole \in Seq(ManifestNumbers) /\ Len(whole) = Pieces /\ \A i \in 1..Pieces : whole[i] = set
        BY <3>0, <2>5 DEF CurrentTexts
      <4>1. /\ SubSeq(whole, k + 1, to) \in Seq(ManifestNumbers) /\ Len(SubSeq(whole, k + 1, to)) = to - k
            /\ \A i \in 1..(to - k) : SubSeq(whole, k + 1, to)[i] = whole[k + i]
        BY <4>0, <3>1, <2>5
      <4>2. \A i \in 1..(to - k) : k + i \in 1..Pieces
        BY <3>1, <2>5
      <4>3. to - k \in Nat \ {0}
        BY <3>1, <2>5
      <4>4. QED
        BY <4>0, <4>1, <4>2, <4>3, <3>1 DEF CurrentTexts
    <3>3. space' = space \o fragment /\ UNCHANGED result
      BY <2>4, <3>2
    <3>4. space \in CurrentTexts
      BY <2>1 DEF CurrentInv, CurrentTypeOK
    <3>5. space' \in CurrentTexts /\ space' = [i \in 1..to |-> set] /\ to \in 0..Pieces
      <4>1. Len(space \o fragment) = to
        BY <2>5, <3>1, <3>2, <3>4 DEF CurrentTexts
      <4>2. \A i \in 1..to : (space \o fragment)[i] = set
        <5> SUFFICES ASSUME NEW i \in 1..to PROVE (space \o fragment)[i] = set
          OBVIOUS
        <5>1. /\ space \in Seq(ManifestNumbers) /\ fragment \in Seq(ManifestNumbers) /\ Len(space) = k /\ k \in Nat
              /\ to \in Nat /\ Len(fragment) = to - k
          BY <2>5, <3>1, <3>2, <3>4 DEF CurrentTexts
        <5>2. (space \o fragment)[i] = IF i <= k THEN space[i] ELSE fragment[i - k]
          BY <5>1
        <5>3. i <= k => space[i] = set
          BY <2>3, <5>1
        <5>4. i > k => i - k \in 1..(to - k)
          BY <5>1
        <5>5. QED
          BY <3>2, <5>1, <5>2, <5>3, <5>4
      <4>3. space \o fragment \in Seq(ManifestNumbers)
        BY <3>2, <3>4 DEF CurrentTexts
      <4>4. to \in 0..Pieces /\ to \in Nat
        BY <2>5, <3>1
      <4>5. \A s \in Seq(ManifestNumbers) : Len(s) = to /\ (\A i \in 1..to : s[i] = set) => s = [i \in 1..to |-> set]
        BY <4>4
      <4>6. QED
        BY <3>3, <4>1, <4>2, <4>3, <4>4, <4>5 DEF CurrentTexts
    <3>6. CurrentTypeOK'
      BY <1>1, <3>3, <3>5 DEF CurrentInv, CurrentTypeOK, Directories
    <3>7. ReadSoFar'
      BY <1>1, <2>1, <3>3, <3>5, CurrentNumbers DEF CurrentInv, ReadSoFar, Current!Whole, Current!Contents
    <3>8. QED
      BY <1>2, <1>3, <2>1, <3>6, <3>7 DEF CurrentInv
  <2>8. QED
    BY <2>5, <2>6, <2>7
<1>7. QED
  BY <1>4, <1>5, <1>6

(* A loss of power leaves one of the directories, and the texts synced.     *)
LEMMA CurrentLosesPower ==
  ASSUME CurrentInv, Current!PowerFails
  PROVE  CurrentInv'
<1>1. PICK d \in survivors :
        /\ named' = d /\ survivors' = {d} /\ text' = synced /\ stage' = "idle" /\ space' = Current!NotReading
        /\ set' = IF d[0] = 0 \/ synced[d[0]] = << >> THEN 0 ELSE Head(synced[d[0]])
        /\ UNCHANGED <<synced, descriptor_number, result>>
  BY CurrentNumbers DEF Current!PowerFails
<1>2. 0 \in SetNumbers /\ SetNumbers = ManifestNumbers \union {0}
  BY CurrentNumbers DEF SetNumbers
<1>3. d[0] # 0 => /\ Current!Whole(synced[d[0]])
                  /\ set' \in ManifestNumbers /\ synced[d[0]] = Current!Contents(set')
  <2> SUFFICES ASSUME d[0] # 0
               PROVE  Current!Whole(synced[d[0]]) /\ set' \in ManifestNumbers /\ synced[d[0]] = Current!Contents(set')
    OBVIOUS
  <2>1. PICK n \in ManifestNumbers : synced[d[0]] = Current!Contents(n)
    BY CurrentNumbers DEF CurrentInv, CurrentIsApart, Current!Whole
  <2>2. set' = n
    BY <1>1, <2>1, CurrentWhole
  <2>3. QED
    BY <2>1, <2>2 DEF Current!Whole
<1>4. CurrentTypeOK'
  <2>1. set' \in SetNumbers
    BY <1>1, <1>2, <1>3
  <2>2. QED
    BY <1>1, <2>1 DEF CurrentInv, CurrentTypeOK, Directories
<1>5. OneNameEach'
  BY <1>1 DEF CurrentInv, OneNameEach
<1>6. CurrentIsApart'
  <2>1. ASSUME NEW n \in ManifestNumbers, d[0] # 0 PROVE d[n] # d[0]
    <3>1. n \in SetNumbers /\ n # 0
      BY CurrentNumbers DEF SetNumbers
    <3>2. QED
      BY <1>2, <2>1, <3>1, CurrentNumbers DEF CurrentInv, OneNameEach
  <2>2. QED
    BY <1>1, <1>3, <2>1, CurrentNumbers DEF CurrentIsApart, Current!Whole, Current!Contents
<1>7. CurrentAsSet' /\ AsFarAsWritten' /\ ReadSoFar'
  BY <1>1, <1>3, CurrentNumbers DEF CurrentInv, CurrentAsSet, AsFarAsWritten, ReadSoFar, Current!Whole, Current!Contents
<1>8. QED
  BY <1>4, <1>5, <1>6, <1>7 DEF CurrentInv

LEMMA CurrentStarts == Current!Init => CurrentInv
<1> SUFFICES ASSUME Current!Init PROVE CurrentInv
  OBVIOUS
<1>1. /\ text = << >> /\ synced = << >> /\ named = [n \in SetNumbers |-> 0] /\ survivors = {named}
      /\ stage = "idle" /\ descriptor_number = 0 /\ set = 0
      /\ space = Current!NotReading /\ result = Current!NotReading
  BY CurrentNumbers DEF Current!Init
<1>2. CurrentTypeOK
  BY <1>1, CurrentNumbers DEF CurrentTypeOK, Directories, SetNumbers, CurrentTexts
<1>3. 0 \in SetNumbers /\ \A d \in survivors : \A n \in SetNumbers : d[n] = 0
  BY <1>1, CurrentNumbers DEF SetNumbers
<1>4. OneNameEach /\ CurrentIsApart /\ CurrentAsSet
  BY <1>1, <1>3, CurrentNumbers DEF OneNameEach, CurrentIsApart, CurrentAsSet
<1>5. AsFarAsWritten /\ ReadSoFar
  BY <1>1 DEF AsFarAsWritten, ReadSoFar
<1>6. QED
  BY <1>2, <1>4, <1>5 DEF CurrentInv

LEMMA CurrentKeeps ==
  ASSUME CurrentInv, [Current!Next]_currentVars
  PROVE  CurrentInv'
<1>1. CASE \E n \in ManifestNumbers : Current!NewWritableFile(n)
  BY <1>1, CurrentNewFile
<1>2. CASE Current!AppendData \/ Current!Sync \/ Current!Close
  BY <1>2, CurrentWrites
<1>3. CASE Current!WriteFails \/ Current!RenameFails
  BY <1>3, CurrentGivesUp
<1>4. CASE Current!RenameFile
  BY <1>4, CurrentRenamed
<1>5. CASE Current!NewSequentialFile \/ Current!Read \/ Current!ReadFails
  BY <1>5, CurrentReads
<1>6. CASE Current!PowerFails
  BY <1>6, CurrentLosesPower
<1>7. CASE UNCHANGED currentVars
  BY <1>7 DEF currentVars, CurrentInv, CurrentTypeOK, Directories, OneNameEach, CurrentIsApart, CurrentAsSet,
     AsFarAsWritten, ReadSoFar, Current!Whole, Current!Contents, Current!File
<1>8. Current!Next \/ UNCHANGED currentVars
  OBVIOUS
<1>9. Current!Next => CurrentInv'
  BY <1>1, <1>2, <1>3, <1>4, <1>5, <1>6 DEF Current!Next
<1>10. QED
  BY <1>7, <1>8, <1>9

LEMMA CurrentHolds == CurrentInv => Current!CurrentIsWhole
BY DEF CurrentInv, CurrentIsApart, CurrentAsSet, ReadSoFar, Current!CurrentIsWhole

-----------------------------------------------------------------------------
(* The files written.  PairsOf(text) is all that the records of a text      *)
(* speak of; what they speak of stands in a directory when each file is     *)
(* there by its name, those deleted or renamed apart.                       *)
Pairs == WrittenNames \X (Nat \ {0})
FileTexts == Seq(SUBSET Pairs)
PairsOf(s) == UNION {s[i] : i \in DOMAIN s}
Stands(d, pairs) == \A p \in pairs \ removed : d[p[1]] = p[2]
FileIds == 1..Len(content)
OpenWriters == [name : WrittenNames, file : FileIds, buffer : FileTexts, at : {"open", "directory synced"}]

FilesTypeOK ==
  /\ content \in Seq(FileTexts) /\ durable \in Seq(FileTexts) /\ Len(durable) = Len(content)
  /\ directory \in [WrittenNames -> 0..Len(content)] /\ kept \in [WrittenNames -> 0..Len(content)]
  /\ writer \in [Writers -> OpenWriters \union {Files!Closed}]
  /\ vouched \subseteq Pairs

OneWriterEach == \A w, v \in Writers : writer[w].file = writer[v].file /\ writer[w].file # 0 => w = v

RecordsStand ==
  /\ \A f \in FileIds : Stands(directory, PairsOf(content[f]))
  /\ \A w \in Writers : writer[w].file # 0 => Stands(directory, PairsOf(writer[w].buffer))
  /\ Stands(directory, vouched)

VouchedStand ==
  /\ \A f \in FileIds : PairsOf(durable[f]) \subseteq vouched
  /\ Stands(kept, vouched)

(* A manifest whose directory has been synced is not written to before its  *)
(* data has been.                                                           *)
SyncedStand ==
  \A w \in Writers : writer[w].file # 0 /\ writer[w].at = "directory synced" /\ writer[w].name \in ManifestNames =>
    Stands(kept, PairsOf(content[writer[w].file])) /\ Stands(kept, PairsOf(writer[w].buffer))

(* Which names lead, or may lead, to a file: manifests to manifests, the    *)
(* others to files whose records speak of nothing.                          *)
LeadsTo(n, f) ==
  \/ n \in WrittenNames /\ (directory[n] = f \/ kept[n] = f)
  \/ \E w \in Writers : writer[w].file = f /\ writer[w].name = n
ManifestsApart ==
  \A f \in FileIds : \A n \in WrittenNames \ ManifestNames : LeadsTo(n, f) =>
    /\ PairsOf(content[f]) = {} /\ PairsOf(durable[f]) = {}
    /\ \A w \in Writers : writer[w].file = f => PairsOf(writer[w].buffer) = {}
    /\ \A m \in WrittenNames \intersect ManifestNames : ~LeadsTo(m, f)

FilesInv == FilesTypeOK /\ OneWriterEach /\ RecordsStand /\ VouchedStand /\ SyncedStand /\ ManifestsApart

-----------------------------------------------------------------------------
LEMMA PairsOfParts ==
  ASSUME NEW s \in FileTexts, NEW t \in FileTexts, NEW e \in SUBSET Pairs
  PROVE  /\ PairsOf(<< >>) = {} /\ PairsOf(s) \subseteq Pairs
         /\ s \o t \in FileTexts /\ PairsOf(s \o t) = PairsOf(s) \union PairsOf(t)
         /\ Append(s, e) \in FileTexts /\ PairsOf(Append(s, e)) = PairsOf(s) \union e
<1>1. PairsOf(<< >>) = {} /\ PairsOf(s) \subseteq Pairs
  BY DEF PairsOf, FileTexts
<1>2. /\ s \o t \in FileTexts /\ Len(s \o t) = Len(s) + Len(t) /\ Len(s) \in Nat /\ Len(t) \in Nat
      /\ \A i \in 1..Len(s) : (s \o t)[i] = s[i]
      /\ \A i \in 1..Len(t) : Len(s) + i \in 1..(Len(s) + Len(t)) /\ (s \o t)[Len(s) + i] = t[i]
  BY DEF FileTexts
<1>3. PairsOf(s \o t) = PairsOf(s) \union PairsOf(t)
  <2>1. ASSUME NEW p \in PairsOf(s \o t) PROVE p \in PairsOf(s) \union PairsOf(t)
    <3>1. PICK i \in 1..(Len(s) + Len(t)) : p \in (s \o t)[i]
      BY <1>2, <2>1 DEF PairsOf
    <3>2. CASE i <= Len(s)
      BY <1>2, <3>1, <3>2 DEF PairsOf
    <3>3. CASE i > Len(s)
      <4>1. i - Len(s) \in 1..Len(t) /\ Len(s) + (i - Len(s)) = i
        BY <1>2, <3>3
      <4>2. p \in t[i - Len(s)] /\ i - Len(s) \in DOMAIN t
        BY <1>2, <3>1, <4>1
      <4>3. QED
        BY <4>2 DEF PairsOf
    <3>4. QED
      BY <1>2, <3>2, <3>3
  <2>2. ASSUME NEW p \in PairsOf(s) PROVE p \in PairsOf(s \o t)
    <3>1. PICK i \in 1..Len(s) : p \in s[i]
      BY <2>2 DEF PairsOf
    <3>2. i \in DOMAIN (s \o t) /\ p \in (s \o t)[i]
      BY <1>2, <3>1
    <3>3. QED
      BY <3>2 DEF PairsOf
  <2>3. ASSUME NEW p \in PairsOf(t) PROVE p \in PairsOf(s \o t)
    <3>1. PICK i \in 1..Len(t) : p \in t[i]
      BY <2>3 DEF PairsOf
    <3>2. Len(s) + i \in DOMAIN (s \o t) /\ p \in (s \o t)[Len(s) + i]
      BY <1>2, <3>1
    <3>3. QED
      BY <3>2 DEF PairsOf
  <2>4. QED
    BY <2>1, <2>2, <2>3
<1>4. /\ Append(s, e) \in FileTexts /\ Len(Append(s, e)) = Len(s) + 1
      /\ DOMAIN Append(s, e) = DOMAIN s \union {Len(s) + 1} /\ Append(s, e)[Len(s) + 1] = e
      /\ \A i \in DOMAIN s : Append(s, e)[i] = s[i]
  BY <1>2 DEF FileTexts
<1>5. PairsOf(Append(s, e)) = PairsOf(s) \union e
  BY <1>4 DEF PairsOf
<1>6. QED
  BY <1>1, <1>2, <1>3, <1>4, <1>5

LEMMA NoRecords == << >> \in FileTexts /\ PairsOf(<< >>) = {}
BY DEF PairsOf, FileTexts

(* A writer is closed or has a file that is there.                          *)
LEMMA OpenOrClosed ==
  ASSUME FilesTypeOK, NEW w \in Writers
  PROVE  /\ Files!NoFile = 0 /\ Files!Closed = [file |-> 0] /\ Len(content) \in Nat
         /\ writer[w] = Files!Closed => writer[w].file = 0
         /\ writer[w] # Files!Closed \/ writer[w].file # 0 =>
              /\ writer[w] \in OpenWriters /\ writer[w].file \in FileIds /\ writer[w].file # 0
              /\ writer[w].name \in WrittenNames /\ writer[w].buffer \in FileTexts
              /\ content[writer[w].file] \in FileTexts /\ durable[writer[w].file] \in FileTexts
<1>1. Files!NoFile = 0 /\ Files!Closed = [file |-> 0] /\ Len(content) \in Nat
  BY DEF FilesTypeOK, Files!NoFile, Files!Closed
<1>2. writer[w] = Files!Closed => writer[w].file = 0
  BY <1>1
<1>3. writer[w] # Files!Closed => writer[w] \in OpenWriters
  BY DEF FilesTypeOK
<1>4. writer[w] \in OpenWriters =>
        /\ writer[w].file \in FileIds /\ writer[w].file # 0
        /\ writer[w].name \in WrittenNames /\ writer[w].buffer \in FileTexts
  <2>1. \A f \in FileIds : f # 0
    BY <1>1 DEF FileIds
  <2>2. QED
    BY <2>1 DEF OpenWriters
<1>5. \A f \in FileIds : content[f] \in FileTexts /\ durable[f] \in FileTexts
  BY DEF FilesTypeOK, FileIds
<1>6. QED
  BY <1>1, <1>2, <1>3, <1>4, <1>5

LEMMA TextsSpeakOfPairs ==
  ASSUME FilesTypeOK
  PROVE  /\ \A f \in FileIds : PairsOf(content[f]) \subseteq Pairs /\ f # 0
         /\ \A w \in Writers : writer[w].file # 0 => PairsOf(writer[w].buffer) \subseteq Pairs
<1>1. \A s \in FileTexts : PairsOf(s) \subseteq Pairs
  BY DEF PairsOf, FileTexts
<1>2. \A f \in FileIds : content[f] \in FileTexts /\ f # 0
  BY DEF FilesTypeOK, FileIds
<1>3. \A w \in Writers : writer[w].file # 0 => writer[w].buffer \in FileTexts
  BY OpenOrClosed
<1>4. QED
  BY <1>1, <1>2, <1>3

(* What a writer has written, when it is flushed.                           *)
LEMMA FlushedText ==
  ASSUME FilesTypeOK, NEW w \in Writers, writer[w].file # 0
  PROVE  /\ Files!Flushed(w) \in FileTexts
         /\ PairsOf(Files!Flushed(w)) = PairsOf(content[writer[w].file]) \union PairsOf(writer[w].buffer)
<1>1. content[writer[w].file] \in FileTexts /\ writer[w].buffer \in FileTexts /\ {} \in SUBSET Pairs
  BY OpenOrClosed
<1>2. \A s, t \in FileTexts : s \o t \in FileTexts /\ PairsOf(s \o t) = PairsOf(s) \union PairsOf(t)
  BY <1>1, PairsOfParts
<1>3. QED
  BY <1>1, <1>2 DEF Files!Flushed

-----------------------------------------------------------------------------
LEMMA FileFlushed ==
  ASSUME FilesInv, NEW w \in Writers, Files!Flush(w) \/ Files!Close(w)
  PROVE  FilesInv'
<1>1. writer[w].file # 0 /\ UNCHANGED <<durable, directory, kept, vouched, removed>> /\ writer[w].at = "open"
  BY OpenOrClosed DEF Files!Flush, Files!Close, Files!Open, FilesInv
<1> DEFINE file == writer[w].file
           all == Files!Flushed(w)
<1>2. /\ file \in FileIds /\ writer[w] \in OpenWriters /\ all \in FileTexts
      /\ PairsOf(all) = PairsOf(content[file]) \union PairsOf(writer[w].buffer)
      /\ Len(content) \in Nat /\ content \in Seq(FileTexts) /\ writer[w].buffer \in FileTexts
  BY <1>1, OpenOrClosed, FlushedText DEF FilesInv, FilesTypeOK
<1>3. content' = [content EXCEPT ![file] = all]
  BY DEF Files!Flush, Files!Close
<1> HIDE DEF all
<1>4. /\ content' \in Seq(FileTexts) /\ Len(content') = Len(content) /\ FileIds' = FileIds
      /\ \A f \in FileIds : content'[f] = IF f = file THEN all ELSE content[f]
  BY <1>2, <1>3 DEF FileIds
<1>5. /\ writer' \in [Writers -> OpenWriters \union {Files!Closed}]
      /\ \A v \in Writers : v # w => writer'[v] = writer[v]
      /\ writer'[w].file # 0 =>
           /\ writer'[w].file = file /\ writer'[w].name = writer[w].name
           /\ writer'[w].at = "open" /\ PairsOf(writer'[w].buffer) = {}
  <2>1. writer \in [Writers -> OpenWriters \union {Files!Closed}]
    BY DEF FilesInv, FilesTypeOK
  <2>2. CASE writer' = [writer EXCEPT ![w].buffer = << >>]
    <3>1. [writer[w] EXCEPT !.buffer = << >>] \in OpenWriters
      BY <1>2, NoRecords DEF OpenWriters
    <3>2. QED
      BY <1>1, <1>2, <2>1, <2>2, <3>1, NoRecords DEF OpenWriters
  <2>3. CASE writer' = [writer EXCEPT ![w] = Files!Closed]
    BY <2>1, <2>3 DEF Files!Closed, Files!NoFile
  <2>4. QED
    BY <2>2, <2>3 DEF Files!Flush, Files!Close
<1>6. FilesTypeOK'
  <2>1. OpenWriters' = OpenWriters
    BY <1>4 DEF OpenWriters
  <2>2. QED
    BY <1>1, <1>4, <1>5, <2>1 DEF FilesInv, FilesTypeOK, Files!Closed, Files!NoFile
<1>7. \A v \in Writers : writer'[v].file # 0 =>
        /\ writer'[v].file = writer[v].file /\ writer'[v].name = writer[v].name /\ writer'[v].at = writer[v].at
        /\ PairsOf(writer'[v].buffer) \subseteq PairsOf(writer[v].buffer)
        /\ v # w => writer'[v].file # file
  BY <1>1, <1>5 DEF FilesInv, OneWriterEach
<1>8. OneWriterEach'
  BY <1>7 DEF FilesInv, OneWriterEach
<1>9. RecordsStand'
  BY <1>1, <1>2, <1>4, <1>7 DEF FilesInv, RecordsStand, Stands
<1>10. VouchedStand'
  BY <1>1, <1>4 DEF FilesInv, VouchedStand, Stands
<1>11. SyncedStand'
  <2> SUFFICES ASSUME NEW v \in Writers, writer'[v].file # 0, writer'[v].at = "directory synced",
                      writer'[v].name \in ManifestNames
               PROVE  /\ Stands(kept, PairsOf(content[writer[v].file])) /\ Stands(kept, PairsOf(writer[v].buffer))
                      /\ content'[writer'[v].file] = content[writer[v].file]
                      /\ PairsOf(writer'[v].buffer) \subseteq PairsOf(writer[v].buffer)
    BY <1>1 DEF SyncedStand, Stands
  <2>1. v # w
    BY <1>1, <1>5
  <2>2. writer[v].file \in FileIds /\ writer[v].file # file /\ writer'[v].file = writer[v].file
    BY <1>7, <2>1, OpenOrClosed DEF FilesInv
  <2>3. QED
    BY <1>4, <1>7, <2>2 DEF FilesInv, SyncedStand
<1>12. \A n, f : LeadsTo(n, f)' /\ f # 0 => LeadsTo(n, f)
  BY <1>1, <1>7 DEF LeadsTo
<1>13. ManifestsApart'
  <2> SUFFICES ASSUME NEW f \in FileIds, NEW n \in WrittenNames \ ManifestNames, LeadsTo(n, f)'
               PROVE  /\ PairsOf(content'[f]) = {} /\ PairsOf(durable[f]) = {}
                      /\ \A v \in Writers : writer'[v].file = f => PairsOf(writer'[v].buffer) = {}
                      /\ \A m \in WrittenNames \intersect ManifestNames : ~LeadsTo(m, f)'
    BY <1>1, <1>4 DEF ManifestsApart
  <2>1. LeadsTo(n, f) /\ f # 0
    BY <1>2, <1>12 DEF FileIds
  <2>2. /\ PairsOf(content[f]) = {} /\ PairsOf(durable[f]) = {}
        /\ \A v \in Writers : writer[v].file = f => PairsOf(writer[v].buffer) = {}
        /\ \A m \in WrittenNames \intersect ManifestNames : ~LeadsTo(m, f)
    BY <2>1 DEF FilesInv, ManifestsApart
  <2>3. QED
    BY <1>2, <1>4, <1>7, <1>12, <2>1, <2>2
<1>14. QED
  BY <1>6, <1>8, <1>9, <1>10, <1>11, <1>13 DEF FilesInv

LEMMA FileSynced ==
  ASSUME FilesInv, NEW w \in Writers, Files!SyncData(w)
  PROVE  FilesInv'
<1>1. writer[w].file # 0 /\ UNCHANGED <<directory, kept, removed>> /\ writer[w].at = "directory synced"
  BY OpenOrClosed DEF Files!SyncData, FilesInv
<1> DEFINE file == writer[w].file
           all == Files!Flushed(w)
<1>2. /\ file \in FileIds /\ writer[w] \in OpenWriters /\ all \in FileTexts
      /\ PairsOf(all) = PairsOf(content[file]) \union PairsOf(writer[w].buffer) /\ PairsOf(all) \subseteq Pairs
      /\ Len(content) \in Nat /\ content \in Seq(FileTexts) /\ durable \in Seq(FileTexts) /\ Len(durable) = Len(content)
      /\ writer[w].name \in WrittenNames
  BY <1>1, OpenOrClosed, FlushedText, PairsOfParts DEF FilesInv, FilesTypeOK, FileTexts
<1>3. /\ content' = [content EXCEPT ![file] = all] /\ durable' = [durable EXCEPT ![file] = all]
      /\ writer' = [writer EXCEPT ![w].buffer = << >>, ![w].at = "open"]
      /\ vouched' = vouched \union PairsOf(all)
  BY DEF Files!SyncData, PairsOf
<1> HIDE DEF all
<1>4. /\ content' \in Seq(FileTexts) /\ Len(content') = Len(content) /\ FileIds' = FileIds
      /\ \A f \in FileIds : content'[f] = IF f = file THEN all ELSE content[f]
  BY <1>2, <1>3 DEF FileIds
<1>5. /\ durable' \in Seq(FileTexts) /\ Len(durable') = Len(content)
      /\ \A f \in FileIds : durable'[f] = IF f = file THEN all ELSE durable[f]
  BY <1>2, <1>3 DEF FileIds
<1>6. /\ writer' \in [Writers -> OpenWriters \union {Files!Closed}]
      /\ \A v \in Writers : v # w => writer'[v] = writer[v]
      /\ writer'[w].file = file /\ writer'[w].name = writer[w].name
      /\ writer'[w].at = "open" /\ PairsOf(writer'[w].buffer) = {}
  <2>1. writer \in [Writers -> OpenWriters \union {Files!Closed}]
    BY DEF FilesInv, FilesTypeOK
  <2>2. [[writer[w] EXCEPT !.buffer = << >>] EXCEPT !.at = "open"] \in OpenWriters
    BY <1>2, NoRecords DEF OpenWriters
  <2>3. QED
    BY <1>1, <1>2, <1>3, <2>1, <2>2, NoRecords DEF OpenWriters
<1>7. FilesTypeOK'
  <2>1. OpenWriters' = OpenWriters
    BY <1>4 DEF OpenWriters
  <2>2. QED
    BY <1>1, <1>2, <1>3, <1>4, <1>5, <1>6, <2>1 DEF FilesInv, FilesTypeOK, Files!Closed, Files!NoFile
<1>8. \A v \in Writers :
        /\ writer'[v].file = writer[v].file
        /\ writer'[v].file # 0 =>
             /\ writer'[v].name = writer[v].name
             /\ PairsOf(writer'[v].buffer) \subseteq PairsOf(writer[v].buffer)
             /\ v # w => writer'[v].file # file /\ writer'[v].at = writer[v].at
  BY <1>1, <1>6 DEF FilesInv, OneWriterEach
<1>9. OneWriterEach'
  BY <1>8 DEF FilesInv, OneWriterEach
<1>10. Stands(directory, PairsOf(all))
  BY <1>1, <1>2 DEF FilesInv, RecordsStand, Stands
<1>11. Stands(kept, PairsOf(all))
  <2>1. CASE writer[w].name \in ManifestNames
    BY <1>1, <1>2, <2>1 DEF FilesInv, SyncedStand, Stands
  <2>2. CASE writer[w].name \notin ManifestNames
    <3>1. LeadsTo(writer[w].name, file)
      BY DEF LeadsTo
    <3>2. PairsOf(all) = {}
      BY <1>2, <2>2, <3>1 DEF FilesInv, ManifestsApart
    <3>3. QED
      BY <3>2 DEF Stands
  <2>3. QED
    BY <2>1, <2>2
<1>12. RecordsStand'
  <2>1. \A f \in FileIds : Stands(directory, PairsOf(content'[f]))
    BY <1>4, <1>10 DEF FilesInv, RecordsStand
  <2>2. \A v \in Writers : writer'[v].file # 0 => Stands(directory, PairsOf(writer'[v].buffer))
    BY <1>8 DEF FilesInv, RecordsStand, Stands
  <2>3. Stands(directory, vouched')
    BY <1>3, <1>10 DEF FilesInv, RecordsStand, Stands
  <2>4. QED
    BY <1>1, <1>4, <2>1, <2>2, <2>3 DEF RecordsStand, Stands
<1>13. VouchedStand'
  <2>1. \A f \in FileIds : PairsOf(durable'[f]) \subseteq vouched'
    BY <1>3, <1>5 DEF FilesInv, VouchedStand
  <2>2. Stands(kept, vouched')
    BY <1>3, <1>11 DEF FilesInv, VouchedStand, Stands
  <2>3. QED
    BY <1>1, <1>4, <2>1, <2>2 DEF VouchedStand, Stands
<1>14. SyncedStand'
  <2> SUFFICES ASSUME NEW v \in Writers, writer'[v].file # 0, writer'[v].at = "directory synced",
                      writer'[v].name \in ManifestNames
               PROVE  /\ Stands(kept, PairsOf(content[writer[v].file])) /\ Stands(kept, PairsOf(writer[v].buffer))
                      /\ content'[writer'[v].file] = content[writer[v].file]
                      /\ PairsOf(writer'[v].buffer) \subseteq PairsOf(writer[v].buffer)
    BY <1>1 DEF SyncedStand, Stands
  <2>1. v # w
    BY <1>1, <1>6
  <2>2. writer[v].file \in FileIds /\ writer[v].file # file /\ writer'[v].file = writer[v].file
    BY <1>8, <2>1, OpenOrClosed DEF FilesInv
  <2>3. QED
    BY <1>4, <1>8, <2>1, <2>2 DEF FilesInv, SyncedStand
<1>15. \A n, f : LeadsTo(n, f)' /\ f # 0 => LeadsTo(n, f)
  BY <1>1, <1>8 DEF LeadsTo
<1>16. ManifestsApart'
  <2> SUFFICES ASSUME NEW f \in FileIds, NEW n \in WrittenNames \ ManifestNames, LeadsTo(n, f)'
               PROVE  /\ PairsOf(content'[f]) = {} /\ PairsOf(durable'[f]) = {}
                      /\ \A v \in Writers : writer'[v].file = f => PairsOf(writer'[v].buffer) = {}
                      /\ \A m \in WrittenNames \intersect ManifestNames : ~LeadsTo(m, f)'
    BY <1>1, <1>4 DEF ManifestsApart
  <2>1. LeadsTo(n, f) /\ f # 0
    BY <1>2, <1>15 DEF FileIds
  <2>2. /\ PairsOf(content[f]) = {} /\ PairsOf(durable[f]) = {}
        /\ \A v \in Writers : writer[v].file = f => PairsOf(writer[v].buffer) = {}
        /\ \A m \in WrittenNames \intersect ManifestNames : ~LeadsTo(m, f)
    BY <2>1 DEF FilesInv, ManifestsApart
  <2>3. QED
    BY <1>2, <1>4, <1>5, <1>8, <1>15, <2>1, <2>2
<1>17. QED
  BY <1>7, <1>9, <1>12, <1>13, <1>14, <1>16 DEF FilesInv

(* A record speaks of the files that there are.                             *)
LEMMA RecordStands ==
  ASSUME FilesTypeOK, NEW n \in WrittenNames
  PROVE  /\ Files!RecordFor(n) \in SUBSET Pairs /\ Stands(directory, Files!RecordFor(n))
         /\ n \notin ManifestNames => Files!RecordFor(n) = {}
<1>1. \A m \in WrittenNames : directory[m] \in 0..Len(content) /\ Len(content) \in Nat
  BY DEF FilesTypeOK
<1>2. Files!RecordFor(n) \subseteq {<<m, directory[m]>> : m \in {m \in WrittenNames : directory[m] # 0}}
  BY DEF Files!RecordFor, Files!Exists, Files!NoFile
<1>3. QED
  BY <1>1, <1>2 DEF Pairs, Stands, Files!RecordFor

LEMMA RecordAppended ==
  ASSUME FilesInv, NEW w \in Writers, Files!AppendRecord(w)
  PROVE  FilesInv'
<1>1. /\ writer[w].file # 0 /\ writer[w].at = "open"
      /\ UNCHANGED <<content, durable, directory, kept, vouched, removed>>
  BY OpenOrClosed DEF Files!AppendRecord, Files!Open, FilesInv
<1> DEFINE file == writer[w].file
           record == Files!RecordFor(writer[w].name)
<1>2. /\ file \in FileIds /\ writer[w] \in OpenWriters /\ Len(content) \in Nat
      /\ writer[w].buffer \in FileTexts /\ writer[w].name \in WrittenNames
  BY <1>1, OpenOrClosed DEF FilesInv
<1>3. /\ record \in SUBSET Pairs /\ Stands(directory, record)
      /\ writer[w].name \notin ManifestNames => record = {}
  BY <1>2, RecordStands DEF FilesInv
<1>4. writer' = [writer EXCEPT ![w].buffer = Append(writer[w].buffer, record)]
  BY DEF Files!AppendRecord
<1> HIDE DEF record
<1>5. /\ Append(writer[w].buffer, record) \in FileTexts
      /\ PairsOf(Append(writer[w].buffer, record)) = PairsOf(writer[w].buffer) \union record
  <2>1. \A s \in FileTexts, e \in SUBSET Pairs : Append(s, e) \in FileTexts /\ PairsOf(Append(s, e)) = PairsOf(s) \union e
    BY PairsOfParts
  <2>2. QED
    BY <1>2, <1>3, <2>1
<1>6. /\ writer' \in [Writers -> OpenWriters \union {Files!Closed}]
      /\ \A v \in Writers : v # w => writer'[v] = writer[v]
      /\ writer'[w].file = file /\ writer'[w].name = writer[w].name
      /\ writer'[w].at = "open" /\ writer'[w].buffer = Append(writer[w].buffer, record)
  <2>1. writer \in [Writers -> OpenWriters \union {Files!Closed}]
    BY DEF FilesInv, FilesTypeOK
  <2>2. [writer[w] EXCEPT !.buffer = Append(writer[w].buffer, record)] \in OpenWriters
    BY <1>2, <1>5 DEF OpenWriters
  <2>3. QED
    BY <1>1, <1>2, <1>4, <2>1, <2>2 DEF OpenWriters
<1>7. FilesTypeOK'
  BY <1>1, <1>6 DEF FilesInv, FilesTypeOK, OpenWriters, FileIds, Files!Closed, Files!NoFile
<1>8. \A v \in Writers :
        /\ writer'[v].file = writer[v].file
        /\ v # w => writer'[v] = writer[v] /\ (writer'[v].file # 0 => writer'[v].file # file)
  BY <1>1, <1>6 DEF FilesInv, OneWriterEach
<1>9. OneWriterEach'
  BY <1>8 DEF FilesInv, OneWriterEach
<1>10. RecordsStand'
  <2>1. \A v \in Writers : writer'[v].file # 0 => Stands(directory, PairsOf(writer'[v].buffer))
    BY <1>1, <1>3, <1>5, <1>6 DEF FilesInv, RecordsStand, Stands
  <2>2. QED
    BY <1>1, <2>1 DEF FilesInv, RecordsStand, Stands, FileIds
<1>11. VouchedStand'
  BY <1>1 DEF FilesInv, VouchedStand, Stands, FileIds
<1>12. SyncedStand'
  BY <1>1, <1>6 DEF FilesInv, SyncedStand, Stands
<1>13. \A n, f : LeadsTo(n, f)' /\ f # 0 => LeadsTo(n, f)
  BY <1>1, <1>6 DEF LeadsTo
<1>14. ManifestsApart'
  <2> SUFFICES ASSUME NEW f \in FileIds, NEW n \in WrittenNames \ ManifestNames, LeadsTo(n, f)'
               PROVE  /\ PairsOf(content[f]) = {} /\ PairsOf(durable[f]) = {}
                      /\ \A v \in Writers : writer'[v].file = f => PairsOf(writer'[v].buffer) = {}
                      /\ \A m \in WrittenNames \intersect ManifestNames : ~LeadsTo(m, f)'
    BY <1>1 DEF ManifestsApart, FileIds
  <2>1. LeadsTo(n, f) /\ f # 0
    BY <1>2, <1>13 DEF FileIds
  <2>2. /\ PairsOf(content[f]) = {} /\ PairsOf(durable[f]) = {}
        /\ \A v \in Writers : writer[v].file = f => PairsOf(writer[v].buffer) = {}
        /\ \A m \in WrittenNames \intersect ManifestNames : ~LeadsTo(m, f)
    BY <2>1 DEF FilesInv, ManifestsApart
  <2>3. file = f => writer[w].name \notin ManifestNames
    BY <1>2, <2>2 DEF LeadsTo
  <2>4. QED
    BY <1>2, <1>3, <1>5, <1>6, <1>13, <2>1, <2>2, <2>3
<1>15. QED
  BY <1>7, <1>9, <1>10, <1>11, <1>12, <1>14 DEF FilesInv

LEMMA DirectorySynced ==
  ASSUME FilesInv, NEW w \in Writers, Files!SyncDirIfManifest(w)
  PROVE  FilesInv'
<1>1. /\ writer[w].file # 0 /\ writer' = [writer EXCEPT ![w].at = "directory synced"]
      /\ UNCHANGED <<content, durable, directory, vouched, removed>>
  BY OpenOrClosed DEF Files!SyncDirIfManifest, Files!Open, FilesInv
<1>2. kept' = IF writer[w].name \in ManifestNames THEN directory ELSE kept
  BY DEF Files!SyncDirIfManifest, Files!SyncedFor, Files!DirectorySynced
<1>3. /\ writer' \in [Writers -> OpenWriters \union {Files!Closed}]
      /\ \A v \in Writers : v # w => writer'[v] = writer[v]
      /\ writer'[w].file = writer[w].file /\ writer'[w].name = writer[w].name /\ writer'[w].buffer = writer[w].buffer
  <2>1. writer \in [Writers -> OpenWriters \union {Files!Closed}] /\ writer[w] \in OpenWriters
    BY <1>1, OpenOrClosed DEF FilesInv, FilesTypeOK
  <2>2. [writer[w] EXCEPT !.at = "directory synced"] \in OpenWriters
    BY <2>1 DEF OpenWriters
  <2>3. QED
    BY <1>1, <2>1, <2>2 DEF OpenWriters
<1>4. FilesTypeOK'
  BY <1>1, <1>2, <1>3 DEF FilesInv, FilesTypeOK, OpenWriters, FileIds, Files!Closed, Files!NoFile
<1>5. OneWriterEach'
  BY <1>3 DEF FilesInv, OneWriterEach
<1>6. RecordsStand'
  BY <1>1, <1>3 DEF FilesInv, RecordsStand, Stands, FileIds
<1>7. VouchedStand'
  BY <1>1, <1>2 DEF FilesInv, RecordsStand, VouchedStand, Stands, FileIds
<1>8. SyncedStand'
  <2> SUFFICES ASSUME NEW v \in Writers, writer[v].file # 0, writer'[v].at = "directory synced",
                      writer[v].name \in ManifestNames
               PROVE  Stands(kept', PairsOf(content[writer[v].file])) /\ Stands(kept', PairsOf(writer[v].buffer))
    BY <1>1, <1>3 DEF SyncedStand, Stands
  <2>1. CASE kept' = directory
    BY <2>1, OpenOrClosed DEF FilesInv, RecordsStand
  <2>2. CASE kept' = kept /\ writer[w].name \notin ManifestNames
    <3>1. v # w /\ writer[v].at = "directory synced"
      BY <1>3, <2>2
    <3>2. QED
      BY <2>2, <3>1 DEF FilesInv, SyncedStand
  <2>3. QED
    BY <1>2, <2>1, <2>2
<1>9. \A n, f : LeadsTo(n, f)' => LeadsTo(n, f)
  <2> SUFFICES ASSUME NEW n, NEW f, LeadsTo(n, f)' PROVE LeadsTo(n, f)
    OBVIOUS
  <2>1. (n \in WrittenNames /\ (directory[n] = f \/ kept[n] = f)) \/ \E v \in Writers : writer'[v].file = f /\ writer'[v].name = n
    BY <1>1, <1>2 DEF LeadsTo
  <2>2. QED
    BY <1>3, <2>1 DEF LeadsTo
<1>10. ManifestsApart'
  <2> SUFFICES ASSUME NEW f \in FileIds, NEW n \in WrittenNames \ ManifestNames, LeadsTo(n, f)'
               PROVE  /\ PairsOf(content[f]) = {} /\ PairsOf(durable[f]) = {}
                      /\ \A v \in Writers : writer'[v].file = f => PairsOf(writer'[v].buffer) = {}
                      /\ \A m \in WrittenNames \intersect ManifestNames : ~LeadsTo(m, f)'
    BY <1>1 DEF ManifestsApart, FileIds
  <2>1. LeadsTo(n, f)
    BY <1>9
  <2>2. /\ PairsOf(content[f]) = {} /\ PairsOf(durable[f]) = {}
        /\ \A v \in Writers : writer[v].file = f => PairsOf(writer[v].buffer) = {}
        /\ \A m \in WrittenNames \intersect ManifestNames : ~LeadsTo(m, f)
    BY <2>1 DEF FilesInv, ManifestsApart
  <2>3. QED
    BY <1>3, <1>9, <2>2
<1>11. QED
  BY <1>4, <1>5, <1>6, <1>7, <1>8, <1>10 DEF FilesInv

LEMMA SyncGivenUp ==
  ASSUME FilesInv, NEW w \in Writers, Files!SyncFails(w)
  PROVE  FilesInv'
<1>1. /\ writer[w].file # 0 /\ writer' = [writer EXCEPT ![w].at = "open"]
      /\ UNCHANGED <<content, durable, directory, kept, vouched, removed>>
  BY OpenOrClosed DEF Files!SyncFails, FilesInv
<1>2. /\ writer' \in [Writers -> OpenWriters \union {Files!Closed}]
      /\ \A v \in Writers : v # w => writer'[v] = writer[v]
      /\ writer'[w].file = writer[w].file /\ writer'[w].name = writer[w].name /\ writer'[w].buffer = writer[w].buffer
      /\ writer'[w].at = "open"
  <2>1. writer \in [Writers -> OpenWriters \union {Files!Closed}] /\ writer[w] \in OpenWriters
    BY <1>1, OpenOrClosed DEF FilesInv, FilesTypeOK
  <2>2. [writer[w] EXCEPT !.at = "open"] \in OpenWriters
    BY <2>1 DEF OpenWriters
  <2>3. QED
    BY <1>1, <2>1, <2>2 DEF OpenWriters
<1>3. FilesTypeOK'
  BY <1>1, <1>2 DEF FilesInv, FilesTypeOK, OpenWriters, FileIds, Files!Closed, Files!NoFile
<1>4. OneWriterEach'
  BY <1>2 DEF FilesInv, OneWriterEach
<1>5. RecordsStand' /\ VouchedStand'
  BY <1>1, <1>2 DEF FilesInv, RecordsStand, VouchedStand, Stands, FileIds
<1>6. SyncedStand'
  BY <1>1, <1>2 DEF FilesInv, SyncedStand, Stands
<1>7. \A n, f : LeadsTo(n, f)' => LeadsTo(n, f)
  BY <1>1, <1>2 DEF LeadsTo
<1>8. ManifestsApart'
  <2> SUFFICES ASSUME NEW f \in FileIds, NEW n \in WrittenNames \ ManifestNames, LeadsTo(n, f)'
               PROVE  /\ PairsOf(content[f]) = {} /\ PairsOf(durable[f]) = {}
                      /\ \A v \in Writers : writer'[v].file = f => PairsOf(writer'[v].buffer) = {}
                      /\ \A m \in WrittenNames \intersect ManifestNames : ~LeadsTo(m, f)'
    BY <1>1 DEF ManifestsApart, FileIds
  <2>1. LeadsTo(n, f)
    BY <1>7
  <2>2. /\ PairsOf(content[f]) = {} /\ PairsOf(durable[f]) = {}
        /\ \A v \in Writers : writer[v].file = f => PairsOf(writer[v].buffer) = {}
        /\ \A m \in WrittenNames \intersect ManifestNames : ~LeadsTo(m, f)
    BY <2>1 DEF FilesInv, ManifestsApart
  <2>3. QED
    BY <1>2, <1>7, <2>2
<1>9. QED
  BY <1>3, <1>4, <1>5, <1>6, <1>8 DEF FilesInv

LEMMA FilesLosePower ==
  ASSUME FilesInv, Files!PowerFails
  PROVE  FilesInv'
<1>1. /\ directory' = kept /\ content' = durable /\ \A w \in Writers : writer'[w] = Files!Closed
      /\ writer' = [w \in Writers |-> Files!Closed] /\ UNCHANGED <<durable, kept, vouched, removed>>
  BY DEF Files!PowerFails
<1>2. \A w \in Writers : writer'[w].file = 0
  BY <1>1 DEF Files!Closed, Files!NoFile
<1>3. FileIds' = FileIds /\ Len(durable) = Len(content) /\ \A f \in FileIds : f # 0
  BY <1>1 DEF FilesInv, FilesTypeOK, FileIds
<1>4. FilesTypeOK'
  BY <1>1, <1>3 DEF FilesInv, FilesTypeOK, Files!Closed, Files!NoFile
<1>5. OneWriterEach' /\ SyncedStand'
  BY <1>2 DEF OneWriterEach, SyncedStand
<1>6. VouchedStand'
  BY <1>1, <1>3 DEF FilesInv, VouchedStand, Stands
<1>7. RecordsStand'
  BY <1>1, <1>2, <1>3 DEF FilesInv, VouchedStand, RecordsStand, Stands
<1>8. \A n, f : LeadsTo(n, f)' /\ f # 0 => LeadsTo(n, f)
  BY <1>1, <1>2 DEF LeadsTo
<1>9. ManifestsApart'
  BY <1>1, <1>2, <1>3, <1>8 DEF FilesInv, ManifestsApart
<1>10. QED
  BY <1>4, <1>5, <1>6, <1>7, <1>9 DEF FilesInv

(* A name is taken away, or given to a file of another's name that is no    *)
(* manifest's.                                                              *)
LEMMA NameChanged ==
  ASSUME FilesInv, UNCHANGED <<content, durable, kept, writer, vouched>>,
         directory' \in [WrittenNames -> 0..Len(content)], removed \subseteq removed',
         \A p \in Pairs \ removed' : directory[p[1]] = p[2] => directory'[p[1]] = p[2],
         \A n \in WrittenNames : directory'[n] \in {0, directory[n]} \/
           /\ n \notin ManifestNames
           /\ \E m \in WrittenNames \ ManifestNames : directory'[n] = directory[m]
  PROVE  FilesInv'
<1>1. FilesTypeOK' /\ OneWriterEach'
  BY DEF FilesInv, FilesTypeOK, OneWriterEach, OpenWriters, FileIds, Files!Closed, Files!NoFile
<1>2. /\ \A f \in FileIds : PairsOf(content[f]) \subseteq Pairs /\ f # 0
      /\ \A w \in Writers : writer[w].file # 0 => PairsOf(writer[w].buffer) \subseteq Pairs
      /\ vouched \subseteq Pairs /\ FileIds' = FileIds
  BY TextsSpeakOfPairs DEF FilesInv, FilesTypeOK, FileIds
<1>3. \A s : s \subseteq Pairs /\ Stands(directory, s) => \A p \in s \ removed' : directory'[p[1]] = p[2]
  BY DEF Stands
<1>4. RecordsStand'
  BY <1>2, <1>3 DEF FilesInv, RecordsStand, Stands
<1>5. VouchedStand' /\ SyncedStand'
  BY <1>2 DEF FilesInv, VouchedStand, SyncedStand, Stands
<1>6. \A f \in FileIds, n \in WrittenNames :
        LeadsTo(n, f)' => LeadsTo(n, f) \/ (n \notin ManifestNames /\ \E m \in WrittenNames \ ManifestNames : LeadsTo(m, f))
  BY <1>2 DEF LeadsTo
<1>7. ManifestsApart'
  <2> SUFFICES ASSUME NEW f \in FileIds, NEW n \in WrittenNames \ ManifestNames, LeadsTo(n, f)'
               PROVE  /\ PairsOf(content[f]) = {} /\ PairsOf(durable[f]) = {}
                      /\ \A v \in Writers : writer[v].file = f => PairsOf(writer[v].buffer) = {}
                      /\ \A m \in WrittenNames \intersect ManifestNames : ~LeadsTo(m, f)'
    BY <1>2 DEF ManifestsApart
  <2>1. PICK m \in WrittenNames \ ManifestNames : LeadsTo(m, f)
    BY <1>6
  <2>2. /\ PairsOf(content[f]) = {} /\ PairsOf(durable[f]) = {}
        /\ \A v \in Writers : writer[v].file = f => PairsOf(writer[v].buffer) = {}
        /\ \A k \in WrittenNames \intersect ManifestNames : ~LeadsTo(k, f)
    BY <2>1 DEF FilesInv, ManifestsApart
  <2>3. QED
    BY <1>6, <2>2
<1>8. QED
  BY <1>1, <1>4, <1>5, <1>7 DEF FilesInv

LEMMA FileDeleted ==
  ASSUME FilesInv, NEW name \in WrittenNames, Files!DeleteFile(name)
  PROVE  FilesInv'
<1>1. /\ directory' = [directory EXCEPT ![name] = 0] /\ removed' = removed \union {<<name, directory[name]>>}
      /\ UNCHANGED <<content, durable, kept, writer, vouched>>
  BY DEF Files!DeleteFile, Files!Gone, Files!NoFile
<1>2. directory \in [WrittenNames -> 0..Len(content)] /\ Len(content) \in Nat
  BY DEF FilesInv, FilesTypeOK
<1>3. directory' \in [WrittenNames -> 0..Len(content)]
      /\ \A n \in WrittenNames : directory'[n] = IF n = name THEN 0 ELSE directory[n]
  BY <1>1, <1>2
<1>4. \A p \in Pairs \ removed' : directory[p[1]] = p[2] => directory'[p[1]] = p[2]
  BY <1>1, <1>3 DEF Pairs
<1>5. QED
  BY <1>1, <1>3, <1>4, NameChanged

LEMMA FileRenamed ==
  ASSUME FilesInv, NEW src \in WrittenNames, NEW target \in WrittenNames, Files!RenameFile(src, target)
  PROVE  FilesInv'
<1>1. /\ directory' = [directory EXCEPT ![target] = directory[src], ![src] = 0] /\ src # target
      /\ src \notin ManifestNames /\ target \notin ManifestNames
      /\ removed' = removed \union {<<src, directory[src]>>, <<target, directory[target]>>}
      /\ UNCHANGED <<content, durable, kept, writer, vouched>>
  BY DEF Files!RenameFile, Files!Gone, Files!NoFile
<1>2. directory \in [WrittenNames -> 0..Len(content)] /\ Len(content) \in Nat
  BY DEF FilesInv, FilesTypeOK
<1>3. /\ directory' \in [WrittenNames -> 0..Len(content)]
      /\ \A n \in WrittenNames : directory'[n] = IF n = src THEN 0 ELSE IF n = target THEN directory[src] ELSE directory[n]
  BY <1>1, <1>2
<1>4. \A p \in Pairs \ removed' : directory[p[1]] = p[2] => directory'[p[1]] = p[2]
  BY <1>1, <1>3 DEF Pairs
<1>5. QED
  BY <1>1, <1>3, <1>4, NameChanged

-----------------------------------------------------------------------------
(* A file is opened to be written.                                          *)
LEMMA FileReopened ==
  ASSUME FilesInv, NEW w \in Writers, NEW name \in WrittenNames, writer[w] = Files!Closed,
         Files!Exists(name), ~Files!InUse(directory[name]), Files!OpenWriter(w, name, directory[name]),
         content' = content \/ content' = [content EXCEPT ![directory[name]] = << >>],
         UNCHANGED <<durable, directory, kept, vouched, removed>>
  PROVE  FilesInv'
<1> DEFINE file == directory[name]
<1>1. /\ file \in FileIds /\ \A v \in Writers : writer[v].file # file
      /\ Len(content) \in Nat /\ content \in Seq(FileTexts)
  BY DEF Files!Exists, Files!InUse, FilesInv, FilesTypeOK, FileIds, Files!NoFile
<1>2. /\ content' \in Seq(FileTexts) /\ Len(content') = Len(content) /\ FileIds' = FileIds
      /\ \A f \in FileIds : PairsOf(content'[f]) \subseteq PairsOf(content[f])
      /\ \A f \in FileIds \ {file} : content'[f] = content[f]
  BY <1>1, NoRecords DEF FileIds
<1>3. /\ writer' \in [Writers -> OpenWriters \union {Files!Closed}]
      /\ \A v \in Writers : v # w => writer'[v] = writer[v]
      /\ writer'[w].file = file /\ writer'[w].name = name /\ writer'[w].buffer = << >> /\ writer'[w].at = "open"
  <2>1. writer \in [Writers -> OpenWriters \union {Files!Closed}]
    BY DEF FilesInv, FilesTypeOK
  <2>2. [name |-> name, file |-> file, buffer |-> << >>, at |-> "open"] \in OpenWriters
    BY <1>1, NoRecords DEF OpenWriters
  <2>3. QED
    BY <2>1, <2>2 DEF Files!OpenWriter
<1>4. FilesTypeOK'
  <2>1. OpenWriters' = OpenWriters
    BY <1>2 DEF OpenWriters
  <2>2. QED
    BY <1>2, <1>3, <2>1 DEF FilesInv, FilesTypeOK, Files!Closed, Files!NoFile
<1>5. OneWriterEach'
  BY <1>1, <1>3 DEF FilesInv, OneWriterEach
<1>6. RecordsStand'
  <2>1. \A f \in FileIds : Stands(directory, PairsOf(content'[f]))
    BY <1>2 DEF FilesInv, RecordsStand, Stands
  <2>2. \A v \in Writers : writer'[v].file # 0 => Stands(directory, PairsOf(writer'[v].buffer))
    BY <1>3, NoRecords DEF FilesInv, RecordsStand, Stands
  <2>3. QED
    BY <1>2, <2>1, <2>2 DEF FilesInv, RecordsStand, Stands
<1>7. VouchedStand'
  BY <1>2 DEF FilesInv, VouchedStand, Stands
<1>8. SyncedStand'
  <2> SUFFICES ASSUME NEW v \in Writers, writer'[v].file # 0, writer'[v].at = "directory synced",
                      writer'[v].name \in ManifestNames
               PROVE  Stands(kept, PairsOf(content'[writer'[v].file])) /\ Stands(kept, PairsOf(writer'[v].buffer))
    BY DEF SyncedStand, Stands
  <2>1. v # w /\ writer'[v] = writer[v]
    BY <1>3
  <2>2. writer[v].file \in FileIds
    BY <2>1, OpenOrClosed DEF FilesInv
  <2>a. writer[v].file # file
    BY <1>1
  <2>3. QED
    BY <1>2, <2>1, <2>2, <2>a DEF FilesInv, SyncedStand
<1>9. \A n, f : LeadsTo(n, f)' => LeadsTo(n, f)
  BY <1>3 DEF LeadsTo
<1>10. ManifestsApart'
  <2> SUFFICES ASSUME NEW f \in FileIds, NEW n \in WrittenNames \ ManifestNames, LeadsTo(n, f)'
               PROVE  /\ PairsOf(content'[f]) = {} /\ PairsOf(durable[f]) = {}
                      /\ \A v \in Writers : writer'[v].file = f => PairsOf(writer'[v].buffer) = {}
                      /\ \A m \in WrittenNames \intersect ManifestNames : ~LeadsTo(m, f)'
    BY <1>2 DEF ManifestsApart
  <2>1. LeadsTo(n, f)
    BY <1>9
  <2>2. /\ PairsOf(content[f]) = {} /\ PairsOf(durable[f]) = {}
        /\ \A v \in Writers : writer[v].file = f => PairsOf(writer[v].buffer) = {}
        /\ \A m \in WrittenNames \intersect ManifestNames : ~LeadsTo(m, f)
    BY <2>1 DEF FilesInv, ManifestsApart
  <2>3. QED
    BY <1>2, <1>3, <1>9, <2>2, NoRecords
<1>11. QED
  BY <1>4, <1>5, <1>6, <1>7, <1>8, <1>10 DEF FilesInv

LEMMA FileMade ==
  ASSUME FilesInv, NEW w \in Writers, NEW name \in WrittenNames, writer[w] = Files!Closed,
         ~Files!Exists(name), Files!Make(w, name), UNCHANGED <<kept, vouched, removed>>
  PROVE  FilesInv'
<1> DEFINE file == Len(content) + 1
<1>1. /\ Len(content) \in Nat /\ content \in Seq(FileTexts) /\ durable \in Seq(FileTexts)
      /\ Len(durable) = Len(content) /\ vouched \subseteq Pairs
      /\ directory \in [WrittenNames -> 0..Len(content)] /\ kept \in [WrittenNames -> 0..Len(content)]
      /\ writer \in [Writers -> OpenWriters \union {Files!Closed}] /\ directory[name] = 0
  BY DEF FilesInv, FilesTypeOK, Files!Exists, Files!NoFile
<1>2. /\ content' = Append(content, << >>) /\ durable' = Append(durable, << >>)
      /\ directory' = [directory EXCEPT ![name] = file]
      /\ writer' = [writer EXCEPT ![w] = [name |-> name, file |-> file, buffer |-> << >>, at |-> "open"]]
  BY DEF Files!Make, Files!OpenWriter
<1>3. /\ content' \in Seq(FileTexts) /\ Len(content') = file /\ content'[file] = << >>
      /\ durable' \in Seq(FileTexts) /\ Len(durable') = file /\ durable'[file] = << >>
      /\ \A f \in FileIds : content'[f] = content[f] /\ durable'[f] = durable[f]
  <2>1. \A s \in Seq(FileTexts) : Len(s) = Len(content) =>
          /\ Append(s, << >>) \in Seq(FileTexts) /\ Len(Append(s, << >>)) = file /\ Append(s, << >>)[file] = << >>
          /\ \A f \in 1..Len(content) : Append(s, << >>)[f] = s[f]
    BY <1>1, NoRecords
  <2>2. QED
    BY <1>1, <1>2, <2>1 DEF FileIds
<1>4. /\ FileIds' = FileIds \union {file} /\ file \notin FileIds /\ file # 0 /\ file \notin 0..Len(content)
      /\ \A f \in FileIds : f # 0
  BY <1>1, <1>3 DEF FileIds
<1>5. /\ writer' \in [Writers -> OpenWriters' \union {Files!Closed}]
      /\ \A v \in Writers : v # w => writer'[v] = writer[v]
      /\ writer'[w].file = file /\ writer'[w].name = name /\ writer'[w].buffer = << >> /\ writer'[w].at = "open"
  <2>1. OpenWriters \subseteq OpenWriters'
    BY <1>4 DEF OpenWriters
  <2>2. [name |-> name, file |-> file, buffer |-> << >>, at |-> "open"] \in OpenWriters'
    BY <1>4, NoRecords DEF OpenWriters
  <2>3. QED
    BY <1>1, <1>2, <2>1, <2>2
<1>6. /\ \A n \in WrittenNames : directory'[n] = IF n = name THEN file ELSE directory[n]
      /\ directory' \in [WrittenNames -> 0..Len(content')] /\ kept \in [WrittenNames -> 0..Len(content')]
  <2>1. 0..Len(content) \subseteq 0..Len(content') /\ file \in 0..Len(content')
    BY <1>1, <1>3
  <2>2. QED
    BY <1>1, <1>2, <2>1
<1>7. FilesTypeOK'
  BY <1>1, <1>3, <1>5, <1>6 DEF FilesTypeOK, Files!Closed, Files!NoFile
<1>8. \A v \in Writers : v # w => writer[v].file # file /\ (writer[v].file # 0 => writer[v].file \in FileIds)
  BY <1>4, OpenOrClosed DEF FilesInv
<1>9. OneWriterEach'
  BY <1>5, <1>8 DEF FilesInv, OneWriterEach
<1>10. \A s : s \subseteq Pairs /\ Stands(directory, s) => Stands(directory', s)
  BY <1>1, <1>6 DEF Stands, Pairs
<1>11. RecordsStand'
  <2>1. \A f \in FileIds : PairsOf(content[f]) \subseteq Pairs
    BY TextsSpeakOfPairs DEF FilesInv
  <2>2. \A f \in FileIds' : Stands(directory', PairsOf(content'[f]))
    BY <1>3, <1>4, <1>10, <2>1, NoRecords DEF FilesInv, RecordsStand, Stands
  <2>3. \A v \in Writers : writer'[v].file # 0 => Stands(directory', PairsOf(writer'[v].buffer))
    <3> SUFFICES ASSUME NEW v \in Writers, writer'[v].file # 0 PROVE Stands(directory', PairsOf(writer'[v].buffer))
      OBVIOUS
    <3>1. CASE v = w
      BY <1>5, <3>1, NoRecords DEF Stands
    <3>2. CASE v # w
      <4>1. writer[v].file # 0 /\ PairsOf(writer[v].buffer) \subseteq Pairs
        BY <1>5, <3>2, TextsSpeakOfPairs DEF FilesInv
      <4>2. QED
        BY <1>5, <1>10, <3>2, <4>1 DEF FilesInv, RecordsStand
    <3>3. QED
      BY <3>1, <3>2
  <2>4. Stands(directory', vouched)
    BY <1>1, <1>10 DEF FilesInv, RecordsStand
  <2>5. QED
    BY <2>2, <2>3, <2>4 DEF RecordsStand, Stands
<1>12. VouchedStand'
  <2>1. \A f \in FileIds' : PairsOf(durable'[f]) \subseteq vouched
    BY <1>3, <1>4, NoRecords DEF FilesInv, VouchedStand
  <2>2. QED
    BY <2>1 DEF FilesInv, VouchedStand, Stands
<1>13. SyncedStand'
  <2> SUFFICES ASSUME NEW v \in Writers, writer'[v].file # 0, writer'[v].at = "directory synced",
                      writer'[v].name \in ManifestNames
               PROVE  Stands(kept, PairsOf(content'[writer'[v].file])) /\ Stands(kept, PairsOf(writer'[v].buffer))
    BY DEF SyncedStand, Stands
  <2>1. v # w /\ writer'[v] = writer[v]
    BY <1>5
  <2>2. writer[v].file \in FileIds
    BY <1>8, <2>1
  <2>3. QED
    BY <1>3, <2>1, <2>2 DEF FilesInv, SyncedStand
<1>14. \A n, f : LeadsTo(n, f)' => (f = file /\ n = name) \/ (f # file /\ LeadsTo(n, f)) \/ f \notin FileIds'
  <2> SUFFICES ASSUME NEW n, NEW f \in FileIds', LeadsTo(n, f)' PROVE (f = file /\ n = name) \/ (f # file /\ LeadsTo(n, f))
    OBVIOUS
  <2>1. CASE \E v \in Writers : writer'[v].file = f /\ writer'[v].name = n
    BY <1>5, <1>8, <2>1 DEF LeadsTo
  <2>2. CASE n \in WrittenNames /\ (directory'[n] = f \/ kept[n] = f)
    BY <1>1, <1>4, <1>6, <2>2 DEF LeadsTo
  <2>3. QED
    BY <2>1, <2>2 DEF LeadsTo
<1>15. ManifestsApart'
  <2> SUFFICES ASSUME NEW f \in FileIds', NEW n \in WrittenNames \ ManifestNames, LeadsTo(n, f)'
               PROVE  /\ PairsOf(content'[f]) = {} /\ PairsOf(durable'[f]) = {}
                      /\ \A v \in Writers : writer'[v].file = f => PairsOf(writer'[v].buffer) = {}
                      /\ \A m \in WrittenNames \intersect ManifestNames : ~LeadsTo(m, f)'
    BY DEF ManifestsApart
  <2>1. CASE f = file
    BY <1>3, <1>5, <1>8, <1>14, <2>1, NoRecords
  <2>2. CASE f # file
    <3>1. LeadsTo(n, f) /\ f \in FileIds
      BY <1>4, <1>14, <2>2
    <3>2. /\ PairsOf(content[f]) = {} /\ PairsOf(durable[f]) = {}
          /\ \A v \in Writers : writer[v].file = f => PairsOf(writer[v].buffer) = {}
          /\ \A m \in WrittenNames \intersect ManifestNames : ~LeadsTo(m, f)
      BY <3>1 DEF FilesInv, ManifestsApart
    <3>3. QED
      BY <1>3, <1>5, <1>14, <2>2, <3>1, <3>2
  <2>3. QED
    BY <2>1, <2>2
<1>16. QED
  BY <1>7, <1>9, <1>11, <1>12, <1>13, <1>15 DEF FilesInv

-----------------------------------------------------------------------------
LEMMA FilesStart == Files!Init => FilesInv
<1> SUFFICES ASSUME Files!Init PROVE FilesInv
  OBVIOUS
<1>1. /\ content = << >> /\ durable = << >> /\ directory = [n \in WrittenNames |-> 0] /\ kept = directory
      /\ writer = [w \in Writers |-> Files!Closed] /\ vouched = {} /\ Files!Closed.file = 0 /\ FileIds = {}
  BY DEF Files!Init, Files!Closed, Files!NoFile, FileIds
<1>2. FilesTypeOK
  BY <1>1 DEF FilesTypeOK
<1>3. QED
  BY <1>1, <1>2 DEF FilesInv, OneWriterEach, RecordsStand, VouchedStand, SyncedStand, ManifestsApart, Stands

LEMMA FilesKeep ==
  ASSUME FilesInv, [Files!Next]_fileVars
  PROVE  FilesInv'
<1>1. CASE \E w \in Writers, n \in WrittenNames : Files!NewWritableFile(w, n) \/ Files!NewAppendableFile(w, n)
  BY <1>1, FileReopened, FileMade DEF Files!NewWritableFile, Files!NewAppendableFile
<1>2. CASE \E w \in Writers : Files!AppendRecord(w) \/ Files!Flush(w) \/ Files!Close(w)
  BY <1>2, RecordAppended, FileFlushed
<1>3. CASE \E w \in Writers : Files!SyncDirIfManifest(w) \/ Files!SyncData(w) \/ Files!SyncFails(w)
  BY <1>3, DirectorySynced, FileSynced, SyncGivenUp
<1>4. CASE (\E n \in WrittenNames : Files!DeleteFile(n)) \/ (\E n, m \in WrittenNames : Files!RenameFile(n, m)) \/ Files!PowerFails
  BY <1>4, FileDeleted, FileRenamed, FilesLosePower
<1>5. CASE UNCHANGED fileVars
  <2>1. FilesTypeOK' /\ OneWriterEach'
    BY <1>5 DEF fileVars, FilesInv, FilesTypeOK, OpenWriters, FileIds, Files!Closed, Files!NoFile, OneWriterEach
  <2>2. RecordsStand' /\ VouchedStand' /\ SyncedStand'
    BY <1>5 DEF fileVars, FilesInv, FileIds, RecordsStand, VouchedStand, SyncedStand, Stands
  <2>3. ManifestsApart'
    BY <1>5 DEF fileVars, FilesInv, FileIds, ManifestsApart, LeadsTo
  <2>4. QED
    BY <2>1, <2>2, <2>3 DEF FilesInv
<1>6. Files!Next => FilesInv'
  BY <1>1, <1>2, <1>3, <1>4 DEF Files!Next
<1>7. QED
  BY <1>5, <1>6

(* What leveldb has synced stays: a manifest's files after a loss of power, *)
(* and CURRENT whole (PosixWritableFile, SetCurrentFile).                   *)
THEOREM SyncedFilesSurvive == StructuresSpec => []FilesSurvive
<1>1. StructuresInit => FilesInv /\ CurrentInv
  BY FilesStart, CurrentStarts DEF StructuresInit
<1>2. FilesInv /\ CurrentInv /\ [StructuresNext]_structuresVars => (FilesInv /\ CurrentInv)'
  BY OnDiskStep, FilesKeep, CurrentKeeps
<1>3. FilesInv /\ CurrentInv => FilesSurvive
  BY CurrentHolds DEF FilesInv, VouchedStand, Stands, FilesSurvive, Files!VouchedFilesSurvive
<1>4. QED
  BY <1>1, <1>2, <1>3, PTL DEF StructuresSpec

-----------------------------------------------------------------------------
(* A step of one structure leaves the others alone, and part as it is.      *)
LEMMA InMemoryStep ==
  ASSUME [StructuresNext]_structuresVars
  PROVE  /\ [Mem!Next]_memVars /\ [Memory!Next]_arenaVars /\ [Tables!Next]_cacheVars /\ [Lives!Next]_lifeVars
         /\ UNCHANGED part
BY DEF StructuresNext, structuresVars, inMemory, onDisk, LockStep, MemTableStep, ArenaStep, CacheStep, LifetimeStep,
       FileStep, ReaderStep, CurrentStep, memVars, arenaVars, cacheVars, lifeVars

-----------------------------------------------------------------------------
(* The arena: blocks lie one after another, a piece lies in one of them,    *)
(* and so does what is left of the current block, which no piece has.       *)
ArenaBlocks == [at : Nat, bytes : Nat]
ArenaPieces == [at : Nat, bytes : Nat \ {0}, aligned : BOOLEAN]

ArenaTypeOK ==
  /\ alloc_ptr_ \in Nat /\ alloc_bytes_remaining_ \in Nat
  /\ blocks_ \in Seq(ArenaBlocks) /\ memory_usage_ \in Nat /\ given \subseteq ArenaPieces

BlocksRise ==
  \A i, j \in 1..Len(blocks_) : i < j => Memory!End(blocks_[i]) <= blocks_[j].at

Rest == [at |-> alloc_ptr_, bytes |-> alloc_bytes_remaining_]
RestIsFree ==
  alloc_bytes_remaining_ > 0 =>
    /\ \E i \in 1..Len(blocks_) : Memory!Within(Rest, blocks_[i])
    /\ \A a \in given : Memory!Apart(a, Rest)

PiecesInBlocks ==
  /\ \A a \in given : (\E i \in 1..Len(blocks_) : Memory!Within(a, blocks_[i])) /\ (a.aligned => Memory!Aligned(a.at))
  /\ \A a, b \in given : a = b \/ Memory!Apart(a, b)

ArenaInv == ArenaTypeOK /\ BlocksRise /\ RestIsFree /\ PiecesInBlocks /\ memory_usage_ = Memory!Usage(blocks_)

-----------------------------------------------------------------------------
(* What is said to be used is counted up over the blocks.                   *)
LEMMA LeastOf ==
  ASSUME NEW T, T \subseteq Nat, T # {}
  PROVE  \E m \in T : \A n \in T : m <= n
<1> DEFINE before == OpToRel(<, Nat)
<1>1. PICK m \in T : \A n \in T : <<n, m>> \notin before
  <2>1. IsWellFoundedOn(before, Nat)
    BY NatLessThanWellFounded
  <2> HIDE DEF before
  <2>2. QED
    BY <2>1, WFMin
<1>2. ASSUME NEW n \in T PROVE m <= n
  <2>1. <<n, m>> \in Nat \X Nat /\ <<n, m>>[1] = n /\ <<n, m>>[2] = m
    OBVIOUS
  <2>2. ~(n < m)
    BY <1>1, <2>1 DEF OpToRel
  <2>3. QED
    BY <2>2
<1>3. QED
  BY <1>1, <1>2

CountsUp(u, s, n) ==
  /\ DOMAIN u = 0..n
  /\ \A i \in 0..n : u[i] = IF i = 0 THEN 0 ELSE u[i - 1] + s[i].bytes + PointerSize
  /\ \A i \in 0..n : u[i] \in Nat

LEMMA CountExists ==
  ASSUME NEW s \in Seq(ArenaBlocks), NEW n \in 0..Len(s)
  PROVE  \E u : CountsUp(u, s, n)
<1> DEFINE open == {k \in 0..Len(s) : ~\E u : CountsUp(u, s, k)}
<1>1. SUFFICES open = {}
  OBVIOUS
<1>2. SUFFICES ASSUME open # {} PROVE FALSE
  OBVIOUS
<1>3. PICK m \in open : \A k \in open : m <= k
  <2>1. open \subseteq Nat
    OBVIOUS
  <2> HIDE DEF open
  <2>2. QED
    BY <1>2, <2>1, LeastOf
<1>4. m \in 0..Len(s) /\ ~\E u : CountsUp(u, s, m) /\ PointerSize \in Nat
  BY <1>3, ArenaAssumptions DEF Memory!SizesAssumption
<1>5. CASE m = 0
  <2>1. CountsUp([i \in 0..0 |-> 0], s, 0)
    BY DEF CountsUp
  <2>2. QED
    BY <1>4, <1>5, <2>1
<1>6. CASE m # 0
  <2>1. m - 1 \in 0..Len(s) /\ m - 1 \notin open /\ s[m].bytes \in Nat
    <3>1. m \in 1..Len(s) /\ m - 1 \in 0..Len(s)
      BY <1>4, <1>6
    <3>2. s[m] \in ArenaBlocks
      BY <3>1
    <3>3. m - 1 \notin open
      BY <1>3, <3>1
    <3>4. QED
      BY <3>1, <3>2, <3>3 DEF ArenaBlocks
  <2>2. PICK u : CountsUp(u, s, m - 1)
    BY <2>1
  <2> DEFINE v == [i \in 0..m |-> IF i = m THEN u[m - 1] + s[m].bytes + PointerSize ELSE u[i]]
  <2>3. CountsUp(v, s, m)
    <3>1. DOMAIN u = 0..(m - 1) /\ \A i \in 0..(m - 1) : u[i] \in Nat
      BY <2>2 DEF CountsUp
    <3>2. u[m - 1] + s[m].bytes + PointerSize \in Nat
      <4>1. m - 1 \in 0..(m - 1) /\ s[m].bytes \in Nat
        BY <1>4, <1>6, <2>1
      <4> HIDE DEF open, v
      <4>2. u[m - 1] \in Nat
        BY <3>1, <4>1
      <4>3. PointerSize \in Nat
        BY ArenaAssumptions DEF Memory!SizesAssumption
      <4>4. QED
        BY <4>1, <4>2, <4>3
    <3>3. /\ DOMAIN v = 0..m /\ v[m] = u[m - 1] + s[m].bytes + PointerSize
          /\ \A i \in 0..(m - 1) : v[i] = u[i]
      BY <1>4, <1>6
    <3>4. \A i \in 0..m : v[i] \in Nat
      BY <1>4, <3>1, <3>2, <3>3
    <3> HIDE DEF v
    <3>5. ASSUME NEW i \in 0..m PROVE v[i] = IF i = 0 THEN 0 ELSE v[i - 1] + s[i].bytes + PointerSize
      <4>1. CASE i = m
        BY <1>4, <1>6, <3>3, <4>1
      <4>2. CASE i # m
        BY <1>4, <2>2, <3>3, <4>2 DEF CountsUp
      <4>3. QED
        BY <4>1, <4>2
    <3>6. QED
      BY <3>3, <3>4, <3>5 DEF CountsUp
  <2>4. QED
    BY <1>4, <2>3
<1>7. QED
  BY <1>5, <1>6

LEMMA CountIsOne ==
  ASSUME NEW s, NEW t, NEW n \in Nat, NEW u, NEW v, NEW k \in n..(n + 1), CountsUp(u, s, n), CountsUp(v, t, k),
         \A i \in 1..n : s[i].bytes = t[i].bytes
  PROVE  \A i \in 0..n : u[i] = v[i]
<1> DEFINE open == {i \in 0..n : u[i] # v[i]}
<1>1. SUFFICES ASSUME open # {} PROVE FALSE
  OBVIOUS
<1>2. PICK m \in open : \A i \in open : m <= i
  <2>1. open \subseteq Nat
    OBVIOUS
  <2> HIDE DEF open
  <2>2. QED
    BY <1>1, <2>1, LeastOf
<1>3. CASE m = 0
  BY <1>2, <1>3 DEF CountsUp
<1>4. CASE m # 0
  <2>1. m - 1 \in 0..n /\ m \in 1..n /\ m \in 0..n /\ m \in 0..k /\ m - 1 \notin open
    BY <1>2, <1>4
  <2>2. u[m - 1] = v[m - 1] /\ s[m].bytes = t[m].bytes
    BY <2>1
  <2>3. u[m] = u[m - 1] + s[m].bytes + PointerSize /\ v[m] = v[m - 1] + t[m].bytes + PointerSize
    BY <1>4, <2>1 DEF CountsUp
  <2>4. QED
    BY <1>2, <2>2, <2>3
<1>5. QED
  BY <1>3, <1>4

LEMMA UsageCounts ==
  ASSUME NEW s \in Seq(ArenaBlocks)
  PROVE  \E u : CountsUp(u, s, Len(s)) /\ Memory!Usage(s) = u[Len(s)]
<1> DEFINE Count(u) == u = [i \in 0..Len(s) |-> IF i = 0 THEN 0 ELSE u[i - 1] + s[i].bytes + PointerSize]
           used == CHOOSE u : Count(u)
<1>1. PICK u : CountsUp(u, s, Len(s))
  BY CountExists
<1>2. \E w : Count(w)
  <2>1. DOMAIN [i \in 0..Len(s) |-> u[i]] = 0..Len(s)
    OBVIOUS
  <2>2. Count([i \in 0..Len(s) |-> u[i]])
    BY <1>1 DEF CountsUp
  <2>3. QED
    BY <2>2
<1>3. Count(used)
  BY <1>2
<1>4. Memory!Usage(s) = used[Len(s)]
  BY DEF Memory!Usage
<1> HIDE DEF used
<1>5. \A i \in 0..Len(s) : used[i] = u[i]
  <2> DEFINE open == {i \in 0..Len(s) : used[i] # u[i]}
  <2>1. SUFFICES ASSUME open # {} PROVE FALSE
    OBVIOUS
  <2>2. PICK m \in open : \A i \in open : m <= i
    <3>1. open \subseteq Nat
      OBVIOUS
    <3> HIDE DEF open
    <3>2. QED
      BY <2>1, <3>1, LeastOf
  <2>3. CASE m = 0
    BY <1>1, <1>3, <2>2, <2>3 DEF CountsUp
  <2>4. CASE m # 0
    <3>1. m - 1 \in 0..Len(s) /\ m \in 0..Len(s) /\ m - 1 \notin open
      BY <2>2, <2>4
    <3>2. used[m] = used[m - 1] + s[m].bytes + PointerSize
      BY <1>3, <2>4, <3>1
    <3>3. QED
      BY <1>1, <2>2, <2>4, <3>1, <3>2 DEF CountsUp
  <2>5. QED
    BY <2>3, <2>4
<1>6. QED
  BY <1>1, <1>4, <1>5

LEMMA UsageOfOneMore ==
  ASSUME NEW s \in Seq(ArenaBlocks), NEW b \in ArenaBlocks
  PROVE  /\ Memory!Usage(s) \in Nat
         /\ Memory!Usage(Append(s, b)) = Memory!Usage(s) + b.bytes + PointerSize
<1> DEFINE t == Append(s, b)
<1>1. /\ t \in Seq(ArenaBlocks) /\ Len(t) = Len(s) + 1 /\ t[Len(t)] = b /\ Len(s) \in Nat
      /\ \A i \in 1..Len(s) : t[i] = s[i]
  OBVIOUS
<1> HIDE DEF t
<1>2. PICK u : CountsUp(u, s, Len(s)) /\ Memory!Usage(s) = u[Len(s)]
  BY UsageCounts
<1>3. PICK v : CountsUp(v, t, Len(t)) /\ Memory!Usage(t) = v[Len(t)]
  BY <1>1, UsageCounts
<1>4. v[Len(s)] = u[Len(s)]
  BY <1>1, <1>2, <1>3, CountIsOne
<1>5. v[Len(t)] = v[Len(t) - 1] + t[Len(t)].bytes + PointerSize /\ u[Len(s)] \in Nat
  BY <1>1, <1>2, <1>3 DEF CountsUp
<1>6. QED
  BY <1>1, <1>2, <1>3, <1>4, <1>5 DEF t

-----------------------------------------------------------------------------
(* Numbers that are aligned.                                                *)
LEMMA TimesAlign ==
  ASSUME NEW k \in Nat
  PROVE  (align * k) % align = 0
<1>1. align \in Nat \ {0}
  BY ArenaAssumptions DEF Memory!AlignAssumption
<1>2. QED
  BY <1>1, Z3

LEMMA AlignedNumbers ==
  ASSUME NEW p \in Nat
  PROVE  /\ Memory!Slop(p) \in Nat /\ (p + Memory!Slop(p)) % align = 0
         /\ \A gap \in Nat : p % align = 0 => (p + gap * align) % align = 0
<1>1. align \in Nat \ {0}
  BY ArenaAssumptions DEF Memory!AlignAssumption
<1>2. PICK q \in Nat, r \in 0..(align - 1) : p = align * q + r /\ r = p % align
  BY <1>1, Z3
<1>3. CASE r = 0
  <2>1. Memory!Slop(p) = 0
    BY <1>2, <1>3 DEF Memory!Slop, Memory!Aligned
  <2>2. ASSUME NEW gap \in Nat PROVE (p + gap * align) % align = 0
    <3>1. p + gap * align = align * (q + gap) /\ q + gap \in Nat
      <4>1. gap * align = align * gap /\ align * (q + gap) = align * q + align * gap /\ align * q \in Nat /\ align * gap \in Nat
        BY <1>1, Z3
      <4>a. \A x \in Nat : x + 0 = x
        OBVIOUS
      <4>b. p = align * q + 0
        BY <1>2, <1>3
      <4>c. q + gap \in Nat
        BY <1>2
      <4>2. p = align * q /\ q + gap \in Nat
        BY <4>1, <4>a, <4>b, <4>c
      <4>3. QED
        BY <4>1, <4>2
    <3>2. QED
      BY <3>1, TimesAlign
  <2>3. p + Memory!Slop(p) = p /\ Memory!Slop(p) \in Nat
    BY <2>1
  <2>4. QED
    BY <1>2, <1>3, <2>2, <2>3
<1>4. CASE r # 0
  <2>1. Memory!Slop(p) = align - r
    BY <1>2, <1>4 DEF Memory!Slop, Memory!Aligned
  <2>2. p + (align - r) = align * (q + 1) /\ q + 1 \in Nat
    BY <1>1, <1>2, Z3
  <2>3. (p + Memory!Slop(p)) % align = 0
    BY <2>1, <2>2, TimesAlign
  <2>4. QED
    BY <1>1, <1>2, <1>4, <2>1, <2>3
<1>5. QED
  BY <1>3, <1>4

-----------------------------------------------------------------------------
(* New memory is aligned and above all that the arena has.                  *)
LEMMA FreeMemoryIsAbove ==
  ASSUME ArenaInv, NEW at \in Memory!FreeMemory
  PROVE  /\ at \in Nat /\ Memory!Aligned(at)
         /\ \A i \in 1..Len(blocks_) : Memory!End(blocks_[i]) <= at
<1>1. /\ blocks_ \in Seq(ArenaBlocks) /\ align \in Nat \ {0} /\ Gaps \subseteq Nat /\ Len(blocks_) \in Nat
      /\ \A i \in 1..Len(blocks_) : blocks_[i].at \in Nat /\ blocks_[i].bytes \in Nat
  <2>1. blocks_ \in Seq(ArenaBlocks) /\ Len(blocks_) \in Nat /\ \A i \in 1..Len(blocks_) : blocks_[i] \in ArenaBlocks
    BY DEF ArenaInv, ArenaTypeOK
  <2>2. align \in Nat \ {0} /\ Gaps \subseteq Nat
    BY ArenaAssumptions DEF Memory!AlignAssumption, Memory!SizesAssumption
  <2>3. QED
    BY <2>1, <2>2 DEF ArenaBlocks
<1>2. Memory!Top \in Nat /\ \A i \in 1..Len(blocks_) : Memory!End(blocks_[i]) <= Memory!Top
  <2>1. CASE blocks_ = << >>
    BY <1>1, <2>1 DEF Memory!Top
  <2>2. CASE blocks_ # << >>
    <3>1. /\ Len(blocks_) \in 1..Len(blocks_) /\ Memory!Top = Memory!End(blocks_[Len(blocks_)])
      BY <1>1, <2>2 DEF Memory!Top, Memory!Last
    <3>2. ASSUME NEW i \in 1..Len(blocks_) PROVE Memory!End(blocks_[i]) <= Memory!Top
      <4>1. CASE i = Len(blocks_)
        BY <1>1, <3>1, <4>1 DEF Memory!End
      <4>2. CASE i < Len(blocks_)
        BY <1>1, <3>1, <4>2 DEF Memory!End, ArenaInv, BlocksRise
      <4>3. QED
        BY <1>1, <4>1, <4>2
    <3>3. QED
      BY <1>1, <3>1, <3>2 DEF Memory!End
  <2>3. QED
    BY <2>1, <2>2
<1>3. PICK gap \in Gaps : at = Memory!Top + Memory!Slop(Memory!Top) + gap * align
  BY DEF Memory!FreeMemory
<1> DEFINE base == Memory!Top + Memory!Slop(Memory!Top)
<1>4. base \in Nat /\ base >= Memory!Top /\ base % align = 0
  <2>1. \A p \in Nat : Memory!Slop(p) \in Nat /\ (p + Memory!Slop(p)) % align = 0
    BY AlignedNumbers
  <2>2. Memory!Top \in Nat
    BY <1>2
  <2>3. Memory!Slop(Memory!Top) \in Nat /\ base % align = 0
    BY <2>1, <2>2
  <2>4. QED
    BY <2>2, <2>3
<1>5. gap * align \in Nat /\ gap \in Nat
  BY <1>1, Z3
<1>6. at = base + gap * align /\ at % align = 0
  BY <1>3, <1>4, <1>5, AlignedNumbers
<1> HIDE DEF base
<1>7. at \in Nat /\ at >= Memory!Top
  BY <1>2, <1>4, <1>5, <1>6
<1>8. \A i \in 1..Len(blocks_) : Memory!End(blocks_[i]) \in Nat
  BY <1>1 DEF Memory!End
<1>9. QED
  BY <1>2, <1>6, <1>7, <1>8 DEF Memory!Aligned

(* Pieces of the blocks are below what is above the blocks.                 *)
LEMMA PiecesAreBelow ==
  ASSUME ArenaInv, NEW at \in Memory!FreeMemory, NEW a \in given
  PROVE  Memory!End(a) <= at
<1>1. PICK i \in 1..Len(blocks_) : Memory!Within(a, blocks_[i])
  BY DEF ArenaInv, PiecesInBlocks
<1>2. a \in ArenaPieces /\ blocks_[i] \in ArenaBlocks
  BY DEF ArenaInv, ArenaTypeOK
<1>3. Memory!End(blocks_[i]) <= at /\ at \in Nat
  BY FreeMemoryIsAbove
<1>4. QED
  BY <1>1, <1>2, <1>3 DEF Memory!Within, Memory!End, ArenaBlocks, ArenaPieces

-----------------------------------------------------------------------------
(* A new block, with a piece at its start.                                  *)
LEMMA BlockAdded ==
  ASSUME ArenaInv, NEW at \in Memory!FreeMemory, NEW size \in Nat, NEW bytes \in Sizes, NEW aligned \in BOOLEAN,
         bytes <= size, Memory!AllocateNewBlock(at, size), Memory!Return(at, bytes, aligned)
  PROVE  /\ blocks_' \in Seq(ArenaBlocks) /\ memory_usage_' \in Nat /\ given' \subseteq ArenaPieces
         /\ BlocksRise' /\ PiecesInBlocks' /\ memory_usage_' = Memory!Usage(blocks_')
         /\ Len(blocks_') = Len(blocks_) + 1 /\ Len(blocks_) \in Nat
         /\ blocks_'[Len(blocks_')] = [at |-> at, bytes |-> size]
         /\ \A i \in 1..Len(blocks_) : blocks_'[i] = blocks_[i]
         /\ given' = given \union {[at |-> at, bytes |-> bytes, aligned |-> aligned]}
<1> DEFINE block == [at |-> at, bytes |-> size]
           piece == [at |-> at, bytes |-> bytes, aligned |-> aligned]
<1>1. /\ blocks_' = Append(blocks_, block) /\ memory_usage_' = memory_usage_ + size + PointerSize
      /\ given' = given \union {piece}
  BY DEF Memory!AllocateNewBlock, Memory!Return
<1>2. at \in Nat /\ Memory!Aligned(at) /\ \A i \in 1..Len(blocks_) : Memory!End(blocks_[i]) <= at
  BY FreeMemoryIsAbove
<1>3. bytes \in Nat \ {0} /\ PointerSize \in Nat
  BY ArenaAssumptions DEF Memory!SizesAssumption
<1>4. block \in ArenaBlocks /\ piece \in ArenaPieces
  BY <1>2, <1>3 DEF ArenaBlocks, ArenaPieces
<1>5. blocks_ \in Seq(ArenaBlocks) /\ given \subseteq ArenaPieces /\ memory_usage_ \in Nat
      /\ memory_usage_ = Memory!Usage(blocks_)
  BY DEF ArenaInv, ArenaTypeOK
<1> HIDE DEF block, piece
<1>6. /\ blocks_' \in Seq(ArenaBlocks) /\ Len(blocks_') = Len(blocks_) + 1 /\ Len(blocks_) \in Nat
      /\ blocks_'[Len(blocks_')] = block /\ \A i \in 1..Len(blocks_) : blocks_'[i] = blocks_[i]
  BY <1>1, <1>4, <1>5
<1>7. memory_usage_' = Memory!Usage(blocks_') /\ memory_usage_' \in Nat
  <2>1. Memory!Usage(Append(blocks_, block)) = Memory!Usage(blocks_) + block.bytes + PointerSize
    BY <1>4, <1>5, UsageOfOneMore
  <2>2. QED
    BY <1>1, <1>3, <1>5, <2>1 DEF block
<1>8. BlocksRise'
  <2> SUFFICES ASSUME NEW i \in 1..Len(blocks_'), NEW j \in 1..Len(blocks_'), i < j
               PROVE  Memory!End(blocks_'[i]) <= blocks_'[j].at
    BY DEF BlocksRise, Memory!End
  <2>1. i \in 1..Len(blocks_)
    BY <1>6
  <2>2. CASE j \in 1..Len(blocks_)
    BY <1>6, <2>1, <2>2 DEF ArenaInv, BlocksRise
  <2>3. CASE j = Len(blocks_')
    BY <1>2, <1>6, <2>1, <2>3 DEF block
  <2>4. QED
    BY <1>6, <2>2, <2>3
<1>9. Memory!Within(piece, block) /\ (piece.aligned => Memory!Aligned(piece.at))
  BY <1>2, <1>3 DEF block, piece, Memory!Within, Memory!End
<1>10. ASSUME NEW a \in given PROVE Memory!Apart(a, piece) /\ Memory!Apart(piece, a)
  <2>1. Memory!End(a) <= at
    BY PiecesAreBelow
  <2>2. QED
    BY <2>1 DEF Memory!Apart, piece
<1>11. PiecesInBlocks'
  <2>1. ASSUME NEW a \in given' PROVE \E i \in 1..Len(blocks_') : Memory!Within(a, blocks_'[i])
    <3>1. CASE a = piece
      BY <1>6, <1>9, <3>1
    <3>2. CASE a \in given
      <4>1. PICK i \in 1..Len(blocks_) : Memory!Within(a, blocks_[i])
        BY <3>2 DEF ArenaInv, PiecesInBlocks
      <4>2. i \in 1..Len(blocks_') /\ blocks_'[i] = blocks_[i]
        BY <1>6
      <4>3. QED
        BY <4>1, <4>2
    <3>3. QED
      BY <1>1, <3>1, <3>2
  <2>2. \A a \in given' : a.aligned => Memory!Aligned(a.at)
    BY <1>1, <1>9 DEF ArenaInv, PiecesInBlocks
  <2>3. \A a, b \in given' : a = b \/ Memory!Apart(a, b)
    BY <1>1, <1>10 DEF ArenaInv, PiecesInBlocks
  <2>4. QED
    BY <2>1, <2>2, <2>3 DEF PiecesInBlocks, Memory!Within, Memory!Apart, Memory!Aligned, Memory!End
<1>12. QED
  BY <1>1, <1>4, <1>5, <1>6, <1>7, <1>8, <1>11 DEF block, piece

LEMMA FallbackKeeps ==
  ASSUME ArenaInv, NEW bytes \in Sizes, NEW aligned \in BOOLEAN, Memory!AllocateFallback(bytes, aligned)
  PROVE  ArenaInv'
<1>1. PICK at \in Memory!FreeMemory :
        /\ Memory!Return(at, bytes, aligned)
        /\ \/ /\ Memory!AllocateNewBlock(at, bytes)
              /\ UNCHANGED <<alloc_ptr_, alloc_bytes_remaining_>>
           \/ /\ ~Memory!OfItsOwn(bytes)
              /\ Memory!AllocateNewBlock(at, kBlockSize)
              /\ alloc_ptr_' = at + bytes
              /\ alloc_bytes_remaining_' = kBlockSize - bytes
  BY DEF Memory!AllocateFallback
<1>2. bytes \in Nat \ {0} /\ kBlockSize \in Nat /\ at \in Nat /\ alloc_ptr_ \in Nat /\ alloc_bytes_remaining_ \in Nat
  BY ArenaAssumptions, FreeMemoryIsAbove DEF Memory!SizesAssumption, Memory!AlignAssumption, ArenaInv, ArenaTypeOK
<1> DEFINE piece == [at |-> at, bytes |-> bytes, aligned |-> aligned]
<1>a. PICK size \in Nat : bytes <= size /\ Memory!AllocateNewBlock(at, size)
  <2>1. ~Memory!OfItsOwn(bytes) => bytes <= kBlockSize
    BY <1>2 DEF Memory!OfItsOwn
  <2>2. QED
    BY <1>1, <1>2, <2>1
<1>b. /\ blocks_' \in Seq(ArenaBlocks) /\ memory_usage_' \in Nat /\ given' \subseteq ArenaPieces
      /\ BlocksRise' /\ PiecesInBlocks' /\ memory_usage_' = Memory!Usage(blocks_')
      /\ Len(blocks_') = Len(blocks_) + 1 /\ Len(blocks_) \in Nat
      /\ blocks_'[Len(blocks_')] = [at |-> at, bytes |-> size]
      /\ \A i \in 1..Len(blocks_) : blocks_'[i] = blocks_[i]
      /\ given' = given \union {piece}
  <2>1. Memory!Return(at, bytes, aligned)
    BY <1>1
  <2>2. QED
    BY <1>a, <2>1, BlockAdded
<1>3. CASE UNCHANGED <<alloc_ptr_, alloc_bytes_remaining_>>
  <2>2. ASSUME alloc_bytes_remaining_ > 0
        PROVE  /\ \E i \in 1..Len(blocks_') : Memory!Within(Rest, blocks_'[i])
               /\ \A a \in given' : Memory!Apart(a, Rest)
    <3>1. PICK i \in 1..Len(blocks_) : Memory!Within(Rest, blocks_[i])
      BY <2>2 DEF ArenaInv, RestIsFree
    <3>2. i \in 1..Len(blocks_') /\ blocks_'[i] = blocks_[i] /\ blocks_[i] \in ArenaBlocks
      BY <1>b DEF ArenaInv, ArenaTypeOK
    <3>3. Memory!End(blocks_[i]) <= at
      BY FreeMemoryIsAbove
    <3>4. Memory!Apart(piece, Rest)
      BY <1>2, <3>1, <3>2, <3>3 DEF Memory!Within, Memory!Apart, Memory!End, Rest, ArenaBlocks
    <3>5. QED
      BY <1>b, <2>2, <3>1, <3>2, <3>4 DEF ArenaInv, RestIsFree
  <2>3. RestIsFree'
    BY <1>3, <2>2 DEF RestIsFree, Rest, Memory!Within, Memory!Apart, Memory!End
  <2>4. QED
    BY <1>2, <1>3, <1>b, <2>3 DEF ArenaInv, ArenaTypeOK
<1>4. CASE /\ ~Memory!OfItsOwn(bytes) /\ Memory!AllocateNewBlock(at, kBlockSize)
           /\ alloc_ptr_' = at + bytes /\ alloc_bytes_remaining_' = kBlockSize - bytes
  <2>1. bytes <= kBlockSize
    BY <1>2, <1>4 DEF Memory!OfItsOwn
  <2>2. size = kBlockSize
    <3>1. blocks_' = Append(blocks_, [at |-> at, bytes |-> size]) /\ blocks_' = Append(blocks_, [at |-> at, bytes |-> kBlockSize])
      BY <1>a, <1>4 DEF Memory!AllocateNewBlock
    <3>2. blocks_'[Len(blocks_) + 1] = [at |-> at, bytes |-> size] /\ blocks_'[Len(blocks_) + 1] = [at |-> at, bytes |-> kBlockSize]
      BY <1>b, <3>1 DEF ArenaInv, ArenaTypeOK
    <3>3. QED
      BY <3>2
  <2>3. alloc_ptr_' \in Nat /\ alloc_bytes_remaining_' \in Nat
    BY <1>2, <1>4, <2>1
  <2> DEFINE rest == [at |-> alloc_ptr_', bytes |-> alloc_bytes_remaining_']
  <2>4. Memory!Within(rest, blocks_'[Len(blocks_')])
    BY <1>2, <1>4, <1>b, <2>1, <2>2 DEF Memory!Within, Memory!End
  <2>5. \A a \in given : Memory!Apart(a, rest)
    <3> SUFFICES ASSUME NEW a \in given PROVE Memory!Apart(a, rest)
      OBVIOUS
    <3>1. Memory!End(a) <= at /\ Memory!End(a) \in Nat
      BY PiecesAreBelow DEF ArenaInv, ArenaTypeOK, ArenaPieces, Memory!End
    <3>2. QED
      BY <1>2, <1>4, <3>1 DEF Memory!Apart
  <2>6. Memory!Apart(piece, rest)
    BY <1>2, <1>4 DEF Memory!Apart, Memory!End
  <2>7. RestIsFree'
    <3>1. Len(blocks_') \in 1..Len(blocks_')
      BY <1>b
    <3>2. QED
      BY <1>b, <2>4, <2>5, <2>6, <3>1 DEF RestIsFree, Rest, Memory!Within, Memory!Apart, Memory!End
  <2>8. QED
    BY <1>b, <2>3, <2>7 DEF ArenaInv, ArenaTypeOK
<1>5. QED
  BY <1>1, <1>3, <1>4

(* From what is left of the block.                                          *)
LEMMA FromTheBlockKeeps ==
  ASSUME ArenaInv, NEW bytes \in Sizes, NEW aligned \in BOOLEAN, NEW skipped \in Nat,
         bytes + skipped <= alloc_bytes_remaining_, Memory!FromTheBlock(bytes + skipped),
         Memory!Return(alloc_ptr_ + skipped, bytes, aligned), aligned => Memory!Aligned(alloc_ptr_ + skipped)
  PROVE  ArenaInv'
<1> DEFINE piece == [at |-> alloc_ptr_ + skipped, bytes |-> bytes, aligned |-> aligned]
           rest == [at |-> alloc_ptr_', bytes |-> alloc_bytes_remaining_']
<1>1. /\ alloc_ptr_' = alloc_ptr_ + (bytes + skipped)
      /\ alloc_bytes_remaining_' = alloc_bytes_remaining_ - (bytes + skipped)
      /\ UNCHANGED <<blocks_, memory_usage_>> /\ given' = given \union {piece}
  BY DEF Memory!FromTheBlock, Memory!Return
<1>2. /\ bytes \in Nat \ {0} /\ alloc_ptr_ \in Nat /\ alloc_bytes_remaining_ \in Nat /\ given \subseteq ArenaPieces
      /\ blocks_ \in Seq(ArenaBlocks)
  BY ArenaAssumptions DEF Memory!SizesAssumption, ArenaInv, ArenaTypeOK
<1>3. ArenaTypeOK'
  <2>1. piece \in ArenaPieces
    BY <1>2 DEF ArenaPieces
  <2>2. alloc_ptr_' \in Nat /\ alloc_bytes_remaining_' \in Nat
    BY <1>1, <1>2
  <2>3. QED
    BY <1>1, <1>2, <2>1, <2>2 DEF ArenaInv, ArenaTypeOK
<1>4. PICK i \in 1..Len(blocks_) : Memory!Within(Rest, blocks_[i])
  BY <1>2 DEF ArenaInv, RestIsFree
<1>5. blocks_[i] \in ArenaBlocks
  BY <1>2
<1>6. Memory!Within(piece, blocks_[i]) /\ Memory!Within(rest, blocks_[i]) /\ Memory!Apart(piece, rest)
  <2>1. /\ blocks_[i].at \in Nat /\ blocks_[i].bytes \in Nat /\ blocks_[i].at <= alloc_ptr_
        /\ alloc_ptr_ + alloc_bytes_remaining_ <= blocks_[i].at + blocks_[i].bytes
    BY <1>4, <1>5 DEF Memory!Within, Memory!End, Rest, ArenaBlocks
  <2>2. /\ alloc_ptr_' + alloc_bytes_remaining_' = alloc_ptr_ + alloc_bytes_remaining_
        /\ alloc_ptr_' \in Nat /\ alloc_ptr_ <= alloc_ptr_' /\ alloc_bytes_remaining_' \in Nat
        /\ alloc_ptr_ + skipped + bytes = alloc_ptr_'
    BY <1>1, <1>2
  <2>3. Memory!Within(piece, blocks_[i])
    BY <1>2, <2>1, <2>2 DEF Memory!Within, Memory!End
  <2>a. /\ rest.at = alloc_ptr_' /\ rest.bytes = alloc_bytes_remaining_'
        /\ piece.at = alloc_ptr_ + skipped /\ piece.bytes = bytes
    OBVIOUS
  <2> HIDE DEF rest, piece
  <2>4. Memory!Within(rest, blocks_[i])
    <3>1. Memory!End(rest) = alloc_ptr_' + alloc_bytes_remaining_' /\ blocks_[i].at <= alloc_ptr_'
      BY <1>2, <2>1, <2>2, <2>a DEF Memory!End
    <3>2. Memory!End(rest) <= Memory!End(blocks_[i])
      BY <2>1, <2>2, <3>1 DEF Memory!End
    <3>3. QED
      BY <2>a, <3>1, <3>2 DEF Memory!Within
  <2>5. Memory!Apart(piece, rest)
    <3>1. Memory!End(piece) = alloc_ptr_'
      BY <1>2, <2>2, <2>a DEF Memory!End
    <3>2. QED
      BY <2>2, <2>a, <3>1 DEF Memory!Apart
  <2>6. QED
    BY <2>3, <2>4, <2>5
<1>7. ASSUME NEW a \in given PROVE Memory!Apart(a, piece) /\ Memory!Apart(piece, a) /\ Memory!Apart(a, rest)
  <2>1. Memory!Apart(a, Rest)
    BY <1>2 DEF ArenaInv, RestIsFree
  <2>2. a \in ArenaPieces
    BY <1>2
  <2>3. QED
    BY <1>1, <1>2, <2>1, <2>2 DEF Memory!Apart, Memory!End, Rest, ArenaPieces
<1>8. RestIsFree'
  BY <1>1, <1>4, <1>6, <1>7 DEF RestIsFree, Rest, Memory!Within, Memory!Apart, Memory!End
<1>9. PiecesInBlocks'
  <2>1. \A a \in given' : (\E j \in 1..Len(blocks_) : Memory!Within(a, blocks_[j])) /\ (a.aligned => Memory!Aligned(a.at))
    BY <1>1, <1>6 DEF ArenaInv, PiecesInBlocks
  <2>2. \A a, b \in given' : a = b \/ Memory!Apart(a, b)
    BY <1>1, <1>7 DEF ArenaInv, PiecesInBlocks
  <2>3. QED
    BY <1>1, <2>1, <2>2 DEF PiecesInBlocks, Memory!Within, Memory!Apart, Memory!Aligned, Memory!End
<1>10. BlocksRise' /\ memory_usage_' = Memory!Usage(blocks_')
  BY <1>1 DEF ArenaInv, BlocksRise, Memory!End
<1>11. QED
  BY <1>3, <1>8, <1>9, <1>10 DEF ArenaInv

LEMMA ArenaKeeps ==
  ASSUME ArenaInv, [Memory!Next]_arenaVars
  PROVE  ArenaInv'
<1>1. CASE UNCHANGED arenaVars
  BY <1>1 DEF arenaVars, ArenaInv, ArenaTypeOK, BlocksRise, RestIsFree, PiecesInBlocks, Rest, Memory!Within, Memory!Apart,
     Memory!Aligned, Memory!End
<1>2. CASE Memory!Next
  <2>1. PICK bytes \in Sizes : Memory!Allocate(bytes) \/ Memory!AllocateAligned(bytes)
    BY <1>2 DEF Memory!Next
  <2>2. alloc_ptr_ \in Nat /\ bytes \in Nat /\ alloc_bytes_remaining_ \in Nat
    BY ArenaAssumptions DEF Memory!SizesAssumption, ArenaInv, ArenaTypeOK
  <2>3. CASE bytes <= alloc_bytes_remaining_ /\ Memory!Return(alloc_ptr_, bytes, FALSE) /\ Memory!FromTheBlock(bytes)
    <3>1. bytes + 0 = bytes /\ alloc_ptr_ + 0 = alloc_ptr_
      BY <2>2
    <3>2. QED
      BY <2>3, <3>1, FromTheBlockKeeps
  <2>4. CASE Memory!AllocateFallback(bytes, FALSE) \/ Memory!AllocateFallback(bytes, TRUE)
    BY <2>4, FallbackKeeps
  <2>5. CASE /\ Memory!Needed(bytes) <= alloc_bytes_remaining_
             /\ Memory!Return(alloc_ptr_ + Memory!Slop(alloc_ptr_), bytes, TRUE)
             /\ Memory!FromTheBlock(Memory!Needed(bytes))
    <3>1. /\ Memory!Slop(alloc_ptr_) \in Nat /\ Memory!Aligned(alloc_ptr_ + Memory!Slop(alloc_ptr_))
          /\ Memory!Needed(bytes) = bytes + Memory!Slop(alloc_ptr_)
      BY <2>2, AlignedNumbers DEF Memory!Aligned, Memory!Needed
    <3>2. QED
      BY <2>5, <3>1, FromTheBlockKeeps
  <2>6. QED
    BY <2>1, <2>3, <2>4, <2>5 DEF Memory!Allocate, Memory!AllocateAligned
<1>3. QED
  BY <1>1, <1>2

LEMMA ArenaStarts == Memory!Init => ArenaInv
<1> SUFFICES ASSUME Memory!Init PROVE ArenaInv
  OBVIOUS
<1>1. alloc_ptr_ = 0 /\ alloc_bytes_remaining_ = 0 /\ blocks_ = << >> /\ memory_usage_ = 0 /\ given = {}
  BY DEF Memory!Init
<1>2. Memory!Usage(<< >>) = 0
  <2>1. << >> \in Seq(ArenaBlocks) /\ Len(<< >>) = 0
    OBVIOUS
  <2>2. PICK u : CountsUp(u, << >>, 0) /\ Memory!Usage(<< >>) = u[0]
    BY <2>1, UsageCounts
  <2>3. u[0] = 0
    BY <2>2 DEF CountsUp
  <2>4. QED
    BY <2>2, <2>3
<1>3. QED
  BY <1>1, <1>2 DEF ArenaInv, ArenaTypeOK, BlocksRise, RestIsFree, PiecesInBlocks

LEMMA ArenaHolds == ArenaInv => Memory!PiecesAreApart
BY DEF ArenaInv, ArenaTypeOK, PiecesInBlocks, Memory!PiecesAreApart

-----------------------------------------------------------------------------
(* The skip list.  A node is linked on a level once the link to it is       *)
(* stored there; on each level the links lead from a node to the next that  *)
(* is linked, and a node under insertion is to come after its prev.         *)
NodeKeys == UserKeys \X (Nat \ {0})
Targets == UserKeys \X Nat
LinkedAt(l) == {n \in Mem!Nodes : l \in DOMAIN next[n] /\ (inserting.node = n => inserting.level > l)}
Passes(x, n) == x = Mem!Head \/ Mem!Before(x, n)
Places == Nat \X Int
Ops == {"greater or equal", "less than", "last", "next"}
Searches == [op : Ops, done : BOOLEAN, at : Places, level : Nat, target : Places, node : Places, before : SUBSET NodeKeys]

MemTypeOK ==
  /\ Mem!Nodes \subseteq NodeKeys /\ Mem!Head \in DOMAIN next /\ IsFiniteSet(DOMAIN next)
  /\ sequence \in Nat /\ \A n \in Mem!Nodes : n[2] <= sequence \/ n = inserting.node
  /\ heights \subseteq 1..MaxHeight
  /\ DOMAIN next[Mem!Head] = Mem!Levels(MaxHeight)
  /\ \A n \in Mem!Nodes : \E h \in 1..MaxHeight : DOMAIN next[n] = Mem!Levels(h)
  /\ iter \in [Searchers -> Searches]

ListIsSorted ==
  \A l \in Mem!Levels(MaxHeight) : \A x \in LinkedAt(l) \union {Mem!Head} :
    /\ next[x][l] = Mem!NULL \/ (next[x][l] \in LinkedAt(l) /\ Passes(x, next[x][l]))
    /\ \A n \in LinkedAt(l) : Passes(x, n) => next[x][l] # Mem!NULL /\ (n = next[x][l] \/ Mem!Before(next[x][l], n))

InsertInOrder ==
  inserting # Mem!None =>
    /\ inserting = [node |-> inserting.node, prev |-> inserting.prev, level |-> inserting.level]
    /\ inserting.node \in Mem!Nodes /\ inserting.node[2] = sequence + 1
    /\ DOMAIN inserting.prev = DOMAIN next[inserting.node]
    /\ inserting.level \in Nat
    /\ \A l \in DOMAIN inserting.prev : l >= inserting.level =>
         /\ inserting.prev[l] \in LinkedAt(l) \union {Mem!Head} /\ Passes(inserting.prev[l], inserting.node)
         /\ \A n \in LinkedAt(l) : ~(Passes(inserting.prev[l], n) /\ Mem!Before(n, inserting.node))

(* A search under way is at a node of its level before its target; one that *)
(* is done has passed over nothing.                                         *)
RightSearch(i) ==
  /\ i.at \in Mem!Nodes \union {Mem!Head} /\ i.node \in LinkedAt(0) \union {Mem!NULL}
  /\ i.before \subseteq LinkedAt(0)
  /\ i.op = "greater or equal" =>
       i.target \in Targets /\ i.target[2] <= sequence /\ \A n \in Mem!Nodes : n[2] <= i.target[2] => n \in i.before
  /\ i.op = "less than" => i.target \in LinkedAt(0)
  /\ ~i.done =>
       /\ i.op # "next" /\ i.level \in Mem!Levels(MaxHeight) /\ i.at \in LinkedAt(i.level) \union {Mem!Head}
       /\ i.op # "last" => Passes(i.at, i.target)
  /\ i.done /\ i.op = "greater or equal" /\ i.node # Mem!NULL => ~Mem!Before(i.node, i.target)

NothingPassed(i) ==
  \A n \in i.before :
    /\ i.op = "greater or equal" /\ ~Mem!Before(n, i.target) => i.node # Mem!NULL /\ ~Mem!Before(n, i.node)
    /\ i.op = "next" /\ Passes(i.target, n) => i.node # Mem!NULL /\ ~Mem!Before(n, i.node)
    /\ i.op = "less than" /\ Mem!Before(n, i.target) => i.node # Mem!NULL /\ ~Mem!Before(i.node, n)
    /\ i.op = "last" => i.node # Mem!NULL /\ ~Mem!Before(i.node, n)

SearchersAreRight == \A r \in Searchers : RightSearch(iter[r]) /\ (iter[r].done => NothingPassed(iter[r]))

MemInv == MemTypeOK /\ ListIsSorted /\ InsertInOrder /\ SearchersAreRight

-----------------------------------------------------------------------------
(* Internal keys are in a strict, total order.                              *)
LEMMA OrderIsTotal ==
  /\ \A a \in Places : ~Mem!Before(a, a)
  /\ \A a, b, c \in Places : Mem!Before(a, b) /\ Mem!Before(b, c) => Mem!Before(a, c)
  /\ \A a, b \in Places : a = b \/ Mem!Before(a, b) \/ Mem!Before(b, a)
<1>1. \A a \in Places : ~Mem!Before(a, a)
  BY DEF Places, Mem!Before
<1>2. \A a, b, c \in Places : Mem!Before(a, b) /\ Mem!Before(b, c) => Mem!Before(a, c)
  BY DEF Places, Mem!Before
<1>3. ASSUME NEW a \in Places, NEW b \in Places PROVE a = b \/ Mem!Before(a, b) \/ Mem!Before(b, a)
  <2>1. a = <<a[1], a[2]>> /\ b = <<b[1], b[2]>> /\ a[1] \in Nat /\ b[1] \in Nat /\ a[2] \in Int /\ b[2] \in Int
    BY DEF Places
  <2>2. a[1] < b[1] \/ b[1] < a[1] \/ (a[1] = b[1] /\ (a[2] > b[2] \/ b[2] > a[2] \/ a[2] = b[2]))
    BY <2>1
  <2>3. QED
    BY <2>1, <2>2 DEF Mem!Before
<1>4. QED
  BY <1>1, <1>2, <1>3

(* A finite set of keys that is not empty has a last one.                   *)
LEMMA LastOfKeys ==
  ASSUME NEW T, T \subseteq Places, IsFiniteSet(T), T # {}
  PROVE  \E n \in T : \A m \in T : m = n \/ Mem!Before(m, n)
<1> DEFINE After(n) == {m \in T : Mem!Before(n, m)}
           ranks == {Cardinality(After(n)) : n \in T}
<1>1. ASSUME NEW n \in T PROVE After(n) \in SUBSET T /\ IsFiniteSet(After(n)) /\ Cardinality(After(n)) \in Nat
  <2>1. After(n) \in SUBSET T
    OBVIOUS
  <2> HIDE DEF After
  <2>2. IsFiniteSet(After(n))
    BY <2>1, FS_Subset
  <2>3. QED
    BY <2>1, <2>2, FS_CardinalityType
<1>2. PICK n \in T : \A m \in T : Cardinality(After(n)) <= Cardinality(After(m))
  <2> HIDE DEF After
  <2>1. ranks \subseteq Nat /\ ranks # {}
    BY <1>1
  <2>2. PICK least \in ranks : \A k \in ranks : least <= k
    <3> HIDE DEF ranks
    <3>1. QED
      BY <2>1, LeastOf
  <2>3. QED
    BY <2>2
<1>3. ASSUME NEW m \in T PROVE m = n \/ Mem!Before(m, n)
  <2>1. SUFFICES ASSUME Mem!Before(n, m) PROVE FALSE
    BY OrderIsTotal
  <2>2. After(m) \in SUBSET After(n) /\ m \in After(n) /\ m \notin After(m)
    BY <2>1, OrderIsTotal
  <2> HIDE DEF After
  <2>3. Cardinality(After(m)) <= Cardinality(After(n)) /\ (Cardinality(After(n)) = Cardinality(After(m)) => After(n) = After(m))
    BY <1>1, <2>2, FS_Subset
  <2>4. Cardinality(After(n)) = Cardinality(After(m))
    BY <1>1, <1>2, <2>3
  <2>5. QED
    BY <2>2, <2>3, <2>4
<1>4. QED
  BY <1>3

(* Nodes are keys with a sequence number, which neither head_ nor NULL has. *)
LEMMA NodesAreKeys ==
  ASSUME MemTypeOK
  PROVE  /\ Mem!Nodes \subseteq Places /\ Mem!Head \in Places /\ Mem!NULL \in Places
         /\ Mem!NULL \notin Mem!Nodes /\ Mem!Head \notin Mem!Nodes /\ Mem!Head # Mem!NULL
         /\ \A l \in Nat : LinkedAt(l) \subseteq Mem!Nodes
         /\ \A n \in Mem!Nodes : n[2] \in Nat \ {0}
<1>1. NodeKeys \subseteq Places /\ Mem!NULL \notin NodeKeys /\ \A n \in NodeKeys : n[2] \in Nat \ {0}
  <2>1. UserKeys \subseteq Nat
    BY MemTableAssumptions DEF Mem!KeysAssumption
  <2>2. ASSUME NEW n \in NodeKeys PROVE n[2] \in Nat \ {0} /\ n \in Places
    <3>1. n[1] \in UserKeys /\ n[2] \in Nat \ {0} /\ n = <<n[1], n[2]>>
      BY DEF NodeKeys
    <3>2. QED
      BY <2>1, <3>1 DEF Places
  <2>3. Mem!NULL[2] = -1
    BY DEF Mem!NULL
  <2>4. QED
    BY <2>2, <2>3
<1>2. Mem!Head \in Places /\ Mem!NULL \in Places /\ Mem!Head # Mem!NULL
  BY DEF Places, Mem!Head, Mem!NULL
<1>3. Mem!Head \notin Mem!Nodes /\ \A l \in Nat : LinkedAt(l) \subseteq Mem!Nodes
  BY DEF Mem!Nodes, LinkedAt
<1>4. QED
  BY <1>1, <1>2, <1>3 DEF MemTypeOK

LEMMA PrevAtIsRight ==
  ASSUME MemTypeOK, NEW key \in Places, NEW l \in Nat
  PROVE  /\ Mem!PrevAt(key, l) \in {n \in Mem!Nodes : l \in DOMAIN next[n] /\ Mem!Before(n, key)} \union {Mem!Head}
         /\ \A n \in Mem!Nodes : l \in DOMAIN next[n] /\ Mem!Before(n, key) =>
              Mem!PrevAt(key, l) # Mem!Head /\ (n = Mem!PrevAt(key, l) \/ Mem!Before(n, Mem!PrevAt(key, l)))
<1> DEFINE before == {n \in Mem!Nodes : l \in DOMAIN next[n] /\ Mem!Before(n, key)}
<1>1. Mem!PrevAt(key, l) = IF before = {} THEN Mem!Head ELSE CHOOSE n \in before : \A m \in before : m = n \/ Mem!Before(m, n)
  BY Zenon DEF Mem!PrevAt
<1>2. CASE before = {}
  BY <1>1, <1>2
<1>3. CASE before # {}
  <2>1. before \subseteq Places /\ Mem!Head \notin before /\ before \subseteq DOMAIN next
    BY NodesAreKeys DEF Mem!Nodes
  <2>2. IsFiniteSet(before)
    <3>1. IsFiniteSet(DOMAIN next)
      BY DEF MemTypeOK
    <3> HIDE DEF before
    <3>2. QED
      BY <2>1, <3>1, FS_Subset
  <2> HIDE DEF before
  <2>3. \E n \in before : \A m \in before : m = n \/ Mem!Before(m, n)
    BY <1>3, <2>1, <2>2, LastOfKeys
  <2>4. Mem!PrevAt(key, l) \in before /\ \A m \in before : m = Mem!PrevAt(key, l) \/ Mem!Before(m, Mem!PrevAt(key, l))
    BY <1>1, <1>3, <2>3
  <2>5. QED
    BY <2>1, <2>4 DEF before
<1>4. QED
  BY <1>2, <1>3

(* The nodes linked on a level are linked below it, and begin with Linked.  *)
LEMMA LinkedBelow ==
  ASSUME MemTypeOK, InsertInOrder
  PROVE  /\ LinkedAt(0) = Mem!Linked
         /\ \A l \in Nat \ {0} : LinkedAt(l) \subseteq LinkedAt(l - 1)
<1>1. \A n \in Mem!Nodes : \E h \in 1..MaxHeight : DOMAIN next[n] = 0..(h - 1)
  BY DEF MemTypeOK, Mem!Levels
<1>2. \A n \in Mem!Nodes : 0 \in DOMAIN next[n]
  BY <1>1
<1>3. \A n \in Mem!Nodes, l \in Nat \ {0} : l \in DOMAIN next[n] => l - 1 \in DOMAIN next[n]
  BY <1>1
<1>4. inserting.node \in Mem!Nodes => inserting.level \in Nat
  BY NodesAreKeys DEF InsertInOrder, Mem!None
<1>5. \A l \in Nat \ {0} : LinkedAt(l) \subseteq LinkedAt(l - 1)
  BY <1>3, <1>4 DEF LinkedAt
<1>6. LinkedAt(0) = Mem!Linked
  BY <1>2 DEF LinkedAt, Mem!Linked
<1>7. QED
  BY <1>5, <1>6

(* Under an insertion the node is not linked yet from its level on.         *)
LEMMA NotLinkedYet ==
  ASSUME MemTypeOK, InsertInOrder
  PROVE  /\ inserting = Mem!None => \A l \in Nat : LinkedAt(l) = {n \in Mem!Nodes : l \in DOMAIN next[n]}
         /\ inserting # Mem!None => \A l \in Nat : l >= inserting.level => inserting.node \notin LinkedAt(l)
<1>1. inserting = Mem!None => inserting.node \notin Mem!Nodes
  BY NodesAreKeys DEF Mem!None
<1>2. inserting # Mem!None => inserting.level \in Nat
  BY DEF InsertInOrder
<1>3. QED
  BY <1>1, <1>2 DEF LinkedAt

(* Readers may use the entries up to sequence: they are linked.             *)
LEMMA NodesUpToSequence ==
  ASSUME MemTypeOK, InsertInOrder, NEW n \in Mem!Nodes, NEW s \in Nat, n[2] <= s, s <= sequence
  PROVE  n \in Mem!Linked
<1>1. n[2] \in Nat /\ sequence \in Nat
  BY NodesAreKeys DEF MemTypeOK
<1>2. CASE inserting = Mem!None
  BY <1>2, NodesAreKeys DEF Mem!None, Mem!Linked
<1>3. CASE inserting # Mem!None
  <2>1. inserting.node[2] = sequence + 1
    BY <1>3 DEF InsertInOrder
  <2>2. n # inserting.node
    BY <1>1, <2>1
  <2>3. QED
    BY <2>2 DEF Mem!Linked
<1>4. QED
  BY <1>2, <1>3

LEMMA LevelsAreNumbers ==
  /\ MaxHeight \in Nat \ {0} /\ Mem!Levels(MaxHeight) \subseteq Nat /\ 0 \in Mem!Levels(MaxHeight)
  /\ \A h \in 1..MaxHeight : h - 1 \in Nat /\ h - 1 \in Mem!Levels(MaxHeight) /\ Mem!Levels(h) \subseteq Mem!Levels(MaxHeight)
<1>1. MaxHeight \in Nat \ {0}
  BY MemTableAssumptions DEF Mem!KeysAssumption
<1>2. QED
  BY <1>1 DEF Mem!Levels

-----------------------------------------------------------------------------
(* A search as a reader's only change.                                      *)
LEMMA OneSearches ==
  ASSUME MemInv, NEW r \in Searchers, NEW i \in Searches, RightSearch(i), i.done => NothingPassed(i),
         iter' = [iter EXCEPT ![r] = i], UNCHANGED <<next, heights, types, inserting, sequence>>
  PROVE  MemInv'
<1>1. Mem!Nodes' = Mem!Nodes /\ \A l : LinkedAt(l)' = LinkedAt(l)
  BY DEF Mem!Nodes, LinkedAt
<1>2. iter \in [Searchers -> Searches]
  BY DEF MemInv, MemTypeOK
<1>3. iter' \in [Searchers -> Searches] /\ iter'[r] = i /\ \A q \in Searchers \ {r} : iter'[q] = iter[q]
  BY <1>2
<1>4. MemTypeOK' /\ ListIsSorted' /\ InsertInOrder'
  <2>1. MemTypeOK'
    BY <1>1, <1>3 DEF MemInv, MemTypeOK
  <2>2. ListIsSorted'
    BY <1>1 DEF MemInv, ListIsSorted
  <2>3. InsertInOrder'
    BY <1>1 DEF MemInv, InsertInOrder
  <2>4. QED
    BY <2>1, <2>2, <2>3
<1>5. \A q \in Searchers : RightSearch(iter'[q]) /\ (iter'[q].done => NothingPassed(iter'[q]))
  BY <1>3 DEF MemInv, SearchersAreRight
<1>6. SearchersAreRight'
  <2>1. ASSUME NEW q \in Searchers PROVE RightSearch(iter[q])' /\ (iter[q].done => NothingPassed(iter[q]))'
    <3>1. RightSearch(iter[q])'
      BY <1>1, <1>5 DEF RightSearch
    <3>2. (iter[q].done => NothingPassed(iter[q]))'
      BY <1>5 DEF NothingPassed
    <3>3. QED
      BY <3>1, <3>2
  <2>2. QED
    BY <2>1 DEF SearchersAreRight
<1>7. QED
  BY <1>4, <1>6 DEF MemInv

LEMMA BeginKeeps ==
  ASSUME MemInv, NEW r \in Searchers, NEW op \in Ops \ {"next"}, NEW target \in Places, Mem!Begin(r, op, target),
         op = "less than" => target \in LinkedAt(0),
         op = "greater or equal" => target \in Targets /\ target[2] <= sequence
  PROVE  MemInv'
<1> USE DEF MemInv
<1>1. PICK h \in heights :
        iter' = [iter EXCEPT ![r] = [@ EXCEPT !.op = op, !.done = FALSE, !.at = Mem!Head, !.level = h - 1,
                                            !.target = target, !.before = Mem!Linked]]
  BY DEF Mem!Begin
<1> DEFINE i == [iter[r] EXCEPT !.op = op, !.done = FALSE, !.at = Mem!Head, !.level = h - 1,
                                            !.target = target, !.before = Mem!Linked]
<1>2. iter \in [Searchers -> Searches] /\ iter[r] \in Searches
  BY DEF MemTypeOK
<1>3. h - 1 \in Mem!Levels(MaxHeight) /\ h - 1 \in Nat
  BY LevelsAreNumbers DEF MemTypeOK
<1>4. Mem!Linked = LinkedAt(0) /\ LinkedAt(0) \subseteq NodeKeys /\ LinkedAt(0) \subseteq Mem!Nodes
  BY NodesAreKeys, LinkedBelow DEF MemTypeOK
<1>5. /\ i \in Searches /\ i.op = op /\ ~i.done /\ i.at = Mem!Head /\ i.level = h - 1 /\ i.target = target
      /\ i.node = iter[r].node /\ i.before = LinkedAt(0)
  BY <1>2, <1>3, <1>4, NodesAreKeys DEF Searches
<1>6. op = "greater or equal" => \A n \in Mem!Nodes : n[2] <= target[2] => n \in LinkedAt(0)
  BY <1>4, NodesUpToSequence DEF Targets
<1>7. RightSearch(i)
  <2>1. iter[r].node \in LinkedAt(0) \union {Mem!NULL}
    BY DEF SearchersAreRight, RightSearch
  <2> HIDE DEF i
  <2>2. QED
    BY <1>3, <1>5, <1>6, <2>1 DEF RightSearch, Passes, Ops
<1> HIDE DEF i
<1>8. QED
  <2>1. iter' = [iter EXCEPT ![r] = i]
    BY <1>1 DEF i
  <2>2. UNCHANGED <<next, heights, types, inserting, sequence>>
    BY DEF Mem!Begin
  <2>3. QED
    BY <1>5, <1>7, <2>1, <2>2, OneSearches

LEMMA LoadNextKeeps ==
  ASSUME MemInv, NEW r \in Searchers, NEW from \in LinkedAt(0) \union {Mem!Head}, Mem!LoadNext(r, from)
  PROVE  MemInv'
<1> USE DEF MemInv
<1> DEFINE i == [iter[r] EXCEPT !.op = "next", !.at = from, !.level = 0, !.target = from,
                                          !.node = next[from][0], !.before = Mem!Linked]
<1>2. iter \in [Searchers -> Searches] /\ iter[r] \in Searches /\ iter[r].done
  BY DEF MemTypeOK, Mem!LoadNext, Mem!Busy
<1>3. 0 \in Mem!Levels(MaxHeight)
  BY MemTableAssumptions DEF Mem!Levels, Mem!KeysAssumption
<1>4. Mem!Linked = LinkedAt(0) /\ LinkedAt(0) \subseteq NodeKeys /\ LinkedAt(0) \subseteq Mem!Nodes /\ from \in Places
  BY NodesAreKeys, LinkedBelow DEF MemTypeOK
<1>5. /\ next[from][0] = Mem!NULL \/ next[from][0] \in LinkedAt(0)
      /\ \A n \in LinkedAt(0) : Passes(from, n) => next[from][0] # Mem!NULL /\ (n = next[from][0] \/ Mem!Before(next[from][0], n))
  BY <1>3 DEF ListIsSorted
<1>6. next[from][0] \in Places
  BY <1>4, <1>5, NodesAreKeys
<1>7. /\ i \in Searches /\ i.op = "next" /\ i.done /\ i.at = from /\ i.target = from
      /\ i.node = next[from][0] /\ i.before = LinkedAt(0)
  BY <1>2, <1>4, <1>6 DEF Searches, Ops
<1> HIDE DEF i
<1>8. RightSearch(i)
  BY <1>4, <1>5, <1>7 DEF RightSearch
<1>9. NothingPassed(i)
  <2>1. ASSUME NEW n \in LinkedAt(0), Passes(from, n) PROVE next[from][0] # Mem!NULL /\ ~Mem!Before(n, next[from][0])
    <3>1. n \in Places
      BY <1>4, NodesAreKeys
    <3>2. QED
      BY <1>5, <1>6, <2>1, <3>1, OrderIsTotal
  <2>2. QED
    BY <1>7, <2>1 DEF NothingPassed
<1>10. QED
  <2>1. iter' = [iter EXCEPT ![r] = i]
    BY DEF i, Mem!LoadNext
  <2>2. UNCHANGED <<next, heights, types, inserting, sequence>>
    BY DEF Mem!LoadNext
  <2>3. QED
    BY <1>7, <1>8, <1>9, <2>1, <2>2, OneSearches

LEMMA StepKeeps ==
  ASSUME MemInv, NEW r \in Searchers, Mem!Step(r)
  PROVE  MemInv'
<1> USE DEF MemInv
<1> DEFINE at == iter[r].at
           level == iter[r].level
           target == iter[r].target
           n == next[at][level]
<1>1. iter \in [Searchers -> Searches] /\ iter[r] \in Searches /\ ~iter[r].done /\ RightSearch(iter[r])
  BY DEF MemTypeOK, Mem!Step, Mem!Busy, SearchersAreRight
<1>2. /\ iter[r].op \in Ops \ {"next"} /\ level \in Mem!Levels(MaxHeight) /\ level \in Nat
      /\ at \in LinkedAt(level) \union {Mem!Head}
      /\ iter[r].op # "last" => Passes(at, target)
      /\ at \in Places /\ target \in Places /\ iter[r].before \subseteq LinkedAt(0)
      /\ iter[r].op = "less than" => target \in LinkedAt(0)
  BY <1>1 DEF RightSearch, Searches, Ops
<1>3. /\ n = Mem!NULL \/ (n \in LinkedAt(level) /\ Passes(at, n))
      /\ \A m \in LinkedAt(level) : Passes(at, m) => n # Mem!NULL /\ (m = n \/ Mem!Before(n, m))
  BY <1>2 DEF ListIsSorted
<1>4. LinkedAt(level) \subseteq Mem!Nodes /\ LinkedAt(0) \subseteq Mem!Nodes /\ Mem!Nodes \subseteq Places /\ n \in Places
  BY <1>2, <1>3, NodesAreKeys
<1>5. UNCHANGED <<next, heights, types, inserting, sequence>>
  BY DEF Mem!Step
<1>6. iter' = [iter EXCEPT ![r] = IF Mem!GoesOn(r, n) THEN [iter[r] EXCEPT !.at = n]
                                   ELSE IF level > 0 THEN [iter[r] EXCEPT !.level = level - 1]
                                   ELSE [iter[r] EXCEPT !.done = TRUE, !.node = Mem!NodeOf(r, n)]]
  BY <1>1 DEF Mem!Step, Mem!Load, Mem!Done
<1>7. Mem!GoesOn(r, n) <=> n # Mem!NULL /\ (iter[r].op = "last" \/ Mem!Before(n, target))
  BY <1>2 DEF Mem!GoesOn, Mem!KeyIsAfterNode, Ops
<1>7a. level \in Nat /\ level \in Mem!Levels(MaxHeight)
  BY <1>2
<1> HIDE DEF n, at, level, target
<1>8. CASE Mem!GoesOn(r, n)
  <2> DEFINE i == [iter[r] EXCEPT !.at = n]
  <2>1. /\ i \in Searches /\ i.op = iter[r].op /\ ~i.done /\ i.at = n /\ i.level = level /\ i.target = target
        /\ i.node = iter[r].node /\ i.before = iter[r].before /\ iter' = [iter EXCEPT ![r] = i]
    BY <1>1, <1>4, <1>6, <1>8 DEF Searches, level, target
  <2> HIDE DEF i
  <2>2. RightSearch(i)
    BY <1>1, <1>2, <1>3, <1>4, <1>7, <1>8, <2>1 DEF RightSearch, Passes, level, target
  <2>3. QED
    BY <1>5, <2>1, <2>2, OneSearches
<1>9. CASE ~Mem!GoesOn(r, n) /\ level > 0
  <2> DEFINE i == [iter[r] EXCEPT !.level = level - 1]
  <2>1. level - 1 \in Nat /\ level - 1 \in Mem!Levels(MaxHeight) /\ LinkedAt(level) \subseteq LinkedAt(level - 1)
    <3>1. level - 1 \in Nat /\ level \in Nat \ {0} /\ level - 1 \in Mem!Levels(MaxHeight)
      <4>1. MaxHeight \in Nat
        BY MemTableAssumptions DEF Mem!KeysAssumption
      <4>2. QED
        BY <1>9, <1>7a, <4>1 DEF Mem!Levels
    <3>2. LinkedAt(level) \subseteq LinkedAt(level - 1)
      BY <3>1, LinkedBelow
    <3>3. QED
      BY <3>1, <3>2
  <2>2. /\ i \in Searches /\ i.op = iter[r].op /\ ~i.done /\ i.at = at /\ i.level = level - 1 /\ i.target = target
        /\ i.node = iter[r].node /\ i.before = iter[r].before /\ iter' = [iter EXCEPT ![r] = i]
    BY <1>1, <1>6, <1>9, <2>1 DEF Searches, at, target
  <2> HIDE DEF i
  <2>3. RightSearch(i)
    BY <1>1, <1>2, <2>1, <2>2 DEF RightSearch, at, target
  <2>4. QED
    BY <1>5, <2>2, <2>3, OneSearches
<1>10. CASE ~Mem!GoesOn(r, n) /\ level = 0
  <2> DEFINE node == Mem!NodeOf(r, n)
             i == [iter[r] EXCEPT !.done = TRUE, !.node = node]
  <2>1. node = IF iter[r].op = "greater or equal" THEN n ELSE IF at = Mem!Head THEN Mem!NULL ELSE at
    BY DEF Mem!NodeOf, at
  <2>2. node \in LinkedAt(0) \union {Mem!NULL} /\ node \in Places
    BY <1>2, <1>3, <1>4, <1>10, <2>1, NodesAreKeys
  <2> HIDE DEF node
  <2>3. /\ i \in Searches /\ i.op = iter[r].op /\ i.done /\ i.at = at /\ i.target = target
        /\ i.node = node /\ i.before = iter[r].before /\ iter' = [iter EXCEPT ![r] = i]
    <3>1. /\ i \in Searches /\ i.op = iter[r].op /\ i.done /\ i.at = at /\ i.target = target
          /\ i.node = node /\ i.before = iter[r].before
      BY <1>1, <2>2 DEF Searches, at, target
    <3>2. ~(level > 0)
      BY <1>10
    <3>3. iter' = [iter EXCEPT ![r] = i]
      BY <1>6, <1>10, <3>2 DEF node
    <3>4. QED
      BY <3>1, <3>3
  <2> HIDE DEF i
  <2>4. RightSearch(i)
    <3>1. i.op = "greater or equal" /\ i.node # Mem!NULL => ~Mem!Before(i.node, i.target)
      BY <1>7, <1>10, <2>1, <2>3
    <3>2. QED
      BY <1>1, <1>2, <2>2, <2>3, <3>1 DEF RightSearch, at, target
  <2>5. NothingPassed(i)
    <3>1. SUFFICES ASSUME NEW m \in LinkedAt(0)
                   PROVE /\ i.op = "greater or equal" /\ ~Mem!Before(m, target) => node # Mem!NULL /\ ~Mem!Before(m, node)
                         /\ i.op = "less than" /\ Mem!Before(m, target) => node # Mem!NULL /\ ~Mem!Before(node, m)
                         /\ i.op = "last" => node # Mem!NULL /\ ~Mem!Before(node, m)
      BY <1>2, <2>3 DEF NothingPassed
    <3>2. m \in Places /\ m \in LinkedAt(level) /\ at # Mem!NULL
      BY <1>2, <1>4, <1>10, NodesAreKeys
    <3>3. ASSUME i.op = "greater or equal", ~Mem!Before(m, target) PROVE node # Mem!NULL /\ ~Mem!Before(m, node)
      <4>1. Passes(at, target)
        BY <1>2, <2>3, <3>3
      <4>2. Passes(at, m)
        BY <1>2, <3>2, <3>3, <4>1, OrderIsTotal DEF Passes
      <4>3. n # Mem!NULL /\ (m = n \/ Mem!Before(n, m))
        BY <1>3, <3>2, <4>2
      <4>4. QED
        BY <1>4, <2>1, <2>3, <3>2, <3>3, <4>3, OrderIsTotal
    <3>4. ASSUME i.op = "less than", Mem!Before(m, target) PROVE node # Mem!NULL /\ ~Mem!Before(node, m)
      <4>1. ~Passes(at, m)
        BY <1>2, <1>3, <1>4, <1>7, <1>10, <3>2, <3>4, OrderIsTotal
      <4>2. QED
        BY <2>1, <2>3, <3>2, <3>4, <4>1 DEF Passes
    <3>5. ASSUME i.op = "last" PROVE node # Mem!NULL /\ ~Mem!Before(node, m)
      <4>1. ~Passes(at, m)
        BY <1>3, <1>7, <1>10, <2>3, <3>2, <3>5
      <4>2. QED
        BY <2>1, <2>3, <3>2, <3>5, <4>1 DEF Passes
    <3>6. QED
      BY <3>3, <3>4, <3>5
  <2>6. QED
    BY <1>5, <2>3, <2>4, <2>5, OneSearches
<1>11. QED
  <2>1. level > 0 \/ level = 0
    BY <1>7a
  <2>2. QED
    BY <1>8, <1>9, <1>10, <2>1

-----------------------------------------------------------------------------
(* The writer.  A new node is on no level; Link puts it on the next one,    *)
(* between its prev and what came after that.                               *)
LEMMA AddKeeps ==
  ASSUME MemInv, NEW user \in UserKeys, NEW type, NEW h \in 1..MaxHeight, Mem!Add(user, type, h)
  PROVE  MemInv'
<1> DEFINE node == <<user, sequence + 1>>
<1>1. MemTypeOK /\ ListIsSorted /\ InsertInOrder /\ SearchersAreRight /\ sequence \in Nat /\ inserting = Mem!None
  BY DEF MemInv, MemTypeOK, Mem!Add
<1>2. node \in NodeKeys /\ node \in Places /\ node[2] = sequence + 1
  <2>1. sequence + 1 \in Nat \ {0} /\ user \in Nat
    BY <1>1, MemTableAssumptions DEF Mem!KeysAssumption
  <2>2. QED
    BY <2>1 DEF NodeKeys, Places
<1>3. node \notin DOMAIN next
  <2>1. node # Mem!Head
    <3>1. Mem!Head[2] = 0
      BY DEF Mem!Head
    <3>2. QED
      BY <1>1, <1>2, <3>1
  <2>2. ASSUME NEW n \in Mem!Nodes PROVE n # node
    <3>1. inserting.node = Mem!NULL /\ n # Mem!NULL
      BY <1>1, NodesAreKeys DEF Mem!None
    <3>2. n[2] <= sequence /\ n[2] \in Nat
      BY <1>1, <3>1, NodesAreKeys DEF MemTypeOK
    <3>3. QED
      BY <1>1, <1>2, <3>2
  <2>3. QED
    BY <2>1, <2>2 DEF Mem!Nodes
<1>4. /\ DOMAIN next' = DOMAIN next \union {node}
      /\ \A n \in DOMAIN next : next'[n] = next[n]
      /\ DOMAIN next'[node] = Mem!Levels(h)
  <2>1. next' = [n \in DOMAIN next \union {node} |-> IF n = node THEN [l \in Mem!Levels(h) |-> Mem!Junk] ELSE next[n]]
    BY DEF Mem!Add
  <2> HIDE DEF node
  <2>2. QED
    BY <1>3, <2>1
<1>5. /\ inserting' = [node |-> node, prev |-> [l \in Mem!Levels(h) |-> Mem!PrevAt(node, l)], level |-> 0]
      /\ UNCHANGED <<sequence, iter>>
  BY DEF Mem!Add
<1>6. heights' \subseteq 1..MaxHeight
  BY <1>1 DEF Mem!Add, MemTypeOK
<1> HIDE DEF node
<1>7. Mem!Nodes' = Mem!Nodes \union {node} /\ Mem!Head \in DOMAIN next /\ node # Mem!Head /\ node \notin Mem!Nodes
  BY <1>1, <1>3, <1>4 DEF Mem!Nodes, MemTypeOK
<1>8. \A n \in Mem!Nodes \union {Mem!Head} : next'[n] = next[n] /\ n # node
  BY <1>3, <1>4, <1>7 DEF Mem!Nodes
<1>9. \A l \in Nat : LinkedAt(l) = {n \in Mem!Nodes : l \in DOMAIN next[n]} /\ LinkedAt(l)' = LinkedAt(l)
  <2>1. \A l \in Nat : LinkedAt(l) = {n \in Mem!Nodes : l \in DOMAIN next[n]}
    BY <1>1, NotLinkedYet
  <2>2. \A l \in Nat : ~(inserting'.level > l) /\ inserting'.node = node
    BY <1>5
  <2>3. \A l \in Nat : LinkedAt(l)' = {n \in Mem!Nodes : l \in DOMAIN next[n]}
    BY <1>7, <1>8, <2>2 DEF LinkedAt
  <2>4. QED
    BY <2>1, <2>3
<1>10. MemTypeOK'
  <2>1. IsFiniteSet(DOMAIN next')
    <3>1. IsFiniteSet(DOMAIN next)
      BY <1>1 DEF MemTypeOK
    <3>2. IsFiniteSet(DOMAIN next \union {node})
      BY <3>1, FS_AddElement
    <3>3. QED
      BY <1>4, <3>2
  <2>2. Mem!Nodes' \subseteq NodeKeys /\ Mem!Head \in DOMAIN next'
    BY <1>1, <1>2, <1>4, <1>7 DEF MemTypeOK
  <2>3. \A n \in Mem!Nodes' : n[2] <= sequence \/ n = inserting'.node
    <3>1. inserting.node = Mem!NULL /\ Mem!NULL \notin Mem!Nodes
      BY <1>1, NodesAreKeys DEF Mem!None
    <3>2. inserting'.node = node
      BY <1>5
    <3>3. QED
      BY <1>1, <1>7, <3>1, <3>2 DEF MemTypeOK
  <2>4. /\ DOMAIN next'[Mem!Head] = Mem!Levels(MaxHeight)
        /\ \A n \in Mem!Nodes' : \E g \in 1..MaxHeight : DOMAIN next'[n] = Mem!Levels(g)
    BY <1>1, <1>4, <1>7, <1>8 DEF MemTypeOK
  <2>5. sequence' \in Nat /\ iter' \in [Searchers -> Searches]
    BY <1>1, <1>5 DEF MemTypeOK
  <2>6. sequence' = sequence
    BY <1>5
  <2>7. QED
    BY <1>6, <2>1, <2>2, <2>3, <2>4, <2>5, <2>6 DEF MemTypeOK
<1>11. ListIsSorted'
  <2>1. Mem!Levels(MaxHeight) \subseteq Nat
    BY MemTableAssumptions DEF Mem!Levels, Mem!KeysAssumption
  <2>2. \A l \in Mem!Levels(MaxHeight) : \A x \in LinkedAt(l) \union {Mem!Head} : next'[x] = next[x]
    BY <1>1, <1>8, <2>1, NodesAreKeys
  <2>3. QED
    BY <1>1, <1>9, <2>1, <2>2 DEF ListIsSorted, Passes
<1>12. InsertInOrder'
  <2>1. Mem!Levels(h) \subseteq Nat
    BY DEF Mem!Levels
  <2>2. ASSUME NEW l \in Mem!Levels(h)
        PROVE /\ Mem!PrevAt(node, l) \in LinkedAt(l) \union {Mem!Head} /\ Passes(Mem!PrevAt(node, l), node)
              /\ \A n \in LinkedAt(l) : ~(Passes(Mem!PrevAt(node, l), n) /\ Mem!Before(n, node))
    <3> DEFINE p == Mem!PrevAt(node, l)
    <3>1. l \in Nat /\ LinkedAt(l) \subseteq Places /\ Mem!Head \in Places
      BY <1>1, <2>1, NodesAreKeys
    <3>2. /\ p \in {n \in LinkedAt(l) : Mem!Before(n, node)} \union {Mem!Head}
          /\ \A n \in LinkedAt(l) : Mem!Before(n, node) => p # Mem!Head /\ (n = p \/ Mem!Before(n, p))
      BY <1>1, <1>2, <1>9, <3>1, PrevAtIsRight
    <3> HIDE DEF p
    <3>3. QED
      BY <3>1, <3>2, OrderIsTotal DEF Passes, p
  <2>3. /\ inserting'.node = node /\ inserting'.level = 0 /\ DOMAIN inserting'.prev = Mem!Levels(h)
        /\ \A l \in Mem!Levels(h) : inserting'.prev[l] = Mem!PrevAt(node, l)
    BY <1>5
  <2>4. inserting' = [node |-> inserting'.node, prev |-> inserting'.prev, level |-> inserting'.level]
    BY <1>5
  <2>5. sequence' = sequence
    BY <1>5
  <2>6. QED
    BY <1>2, <1>4, <1>7, <1>9, <2>1, <2>2, <2>3, <2>4, <2>5 DEF InsertInOrder, Passes
<1>13. SearchersAreRight'
  <2>1. ASSUME NEW r \in Searchers PROVE RightSearch(iter[r])' /\ (iter[r].done => NothingPassed(iter[r]))'
    <3>1. iter' = iter /\ sequence' = sequence
      BY <1>5
    <3>2. RightSearch(iter[r]) /\ (iter[r].done => NothingPassed(iter[r])) /\ iter[r] \in Searches
      BY <1>1 DEF SearchersAreRight, MemTypeOK
    <3>3. ASSUME NEW s \in Nat, s <= sequence PROVE ~(node[2] <= s)
      BY <1>1, <1>2, <3>3
    <3>4. iter[r].op = "greater or equal" => \A n \in Mem!Nodes' : n[2] <= iter[r].target[2] => n \in iter[r].before
      <4>1. iter[r].op = "greater or equal" => iter[r].target[2] <= sequence /\ iter[r].target[2] \in Nat
        BY <3>2 DEF RightSearch, Targets
      <4>2. iter[r].op = "greater or equal" => \A n \in Mem!Nodes : n[2] <= iter[r].target[2] => n \in iter[r].before
        BY <3>2 DEF RightSearch
      <4>3. QED
        BY <1>7, <3>3, <4>1, <4>2
    <3>5. RightSearch(iter[r])'
      <4>1. iter[r].level \in Nat /\ 0 \in Nat
        BY <3>2 DEF Searches
      <4>2. QED
        BY <1>7, <1>9, <3>1, <3>2, <3>4, <4>1 DEF RightSearch, Passes
    <3>6. (iter[r].done => NothingPassed(iter[r]))'
      BY <3>1, <3>2 DEF NothingPassed, Passes
    <3>7. QED
      BY <3>5, <3>6
  <2>2. QED
    BY <2>1 DEF SearchersAreRight
<1>14. QED
  BY <1>10, <1>11, <1>12, <1>13 DEF MemInv

LEMMA LinkKeeps ==
  ASSUME MemInv, Mem!Link
  PROVE  MemInv'
<1> DEFINE node == inserting.node
           prev == inserting.prev
           l0 == inserting.level
           p == prev[l0]
<1>1. MemTypeOK /\ ListIsSorted /\ InsertInOrder /\ SearchersAreRight /\ inserting # Mem!None
  BY DEF MemInv, Mem!Link
<1>2. /\ inserting = [node |-> node, prev |-> prev, level |-> l0]
      /\ node \in Mem!Nodes /\ node[2] = sequence + 1 /\ DOMAIN prev = DOMAIN next[node] /\ l0 \in Nat /\ l0 \in DOMAIN prev
      /\ p \in LinkedAt(l0) \union {Mem!Head} /\ Passes(p, node)
      /\ \A n \in LinkedAt(l0) : ~(Passes(p, n) /\ Mem!Before(n, node))
  BY <1>1 DEF InsertInOrder, Mem!Link
<1>3. /\ next' = [next EXCEPT ![node][l0] = next[p][l0], ![p][l0] = node]
      /\ inserting' = [inserting EXCEPT !.level = @ + 1]
      /\ UNCHANGED <<heights, types, sequence, iter>>
  BY DEF Mem!Link, Mem!LevelToLink
<1>4. inserting'.node = node /\ inserting'.prev = prev /\ inserting'.level = l0 + 1
      /\ inserting' = [node |-> node, prev |-> prev, level |-> l0 + 1]
  BY <1>2, <1>3
<1> HIDE DEF node, prev, l0, p
<1>5. /\ node \in Places /\ p \in Places /\ node # Mem!Head /\ node # Mem!NULL /\ p # node /\ node \in DOMAIN next /\ p \in DOMAIN next
      /\ l0 \in DOMAIN next[node] /\ l0 \in DOMAIN next[p] /\ l0 \in Mem!Levels(MaxHeight)
  <2>1. node \in Places /\ p \in Places /\ node # Mem!Head /\ node # Mem!NULL /\ node \in DOMAIN next /\ p \in DOMAIN next
    BY <1>1, <1>2, NodesAreKeys DEF Mem!Nodes, MemTypeOK
  <2>2. p # node
    BY <1>2, <2>1, OrderIsTotal DEF Passes
  <2>3. l0 \in DOMAIN next[node] /\ l0 \in Mem!Levels(MaxHeight)
    BY <1>1, <1>2, LevelsAreNumbers DEF MemTypeOK
  <2>4. l0 \in DOMAIN next[p]
    BY <1>1, <1>2, <2>3 DEF LinkedAt, MemTypeOK
  <2>5. QED
    BY <2>1, <2>2, <2>3, <2>4
<1>6. /\ DOMAIN next' = DOMAIN next
      /\ \A n \in DOMAIN next : DOMAIN next'[n] = DOMAIN next[n]
      /\ next'[node][l0] = next[p][l0] /\ next'[p][l0] = node
      /\ \A n \in DOMAIN next : \A l \in DOMAIN next[n] : l # l0 \/ n \notin {node, p} => next'[n][l] = next[n][l]
  <2> DEFINE first == [next EXCEPT ![node] = [next[node] EXCEPT ![l0] = next[p][l0]]]
  <2>1. /\ DOMAIN first = DOMAIN next /\ first[node] = [next[node] EXCEPT ![l0] = next[p][l0]]
        /\ \A n \in DOMAIN next \ {node} : first[n] = next[n]
    BY <1>5
  <2>2. next' = [first EXCEPT ![p] = [first[p] EXCEPT ![l0] = node]]
    BY <1>3
  <2> HIDE DEF first
  <2>3. /\ DOMAIN next' = DOMAIN next /\ next'[p] = [next[p] EXCEPT ![l0] = node]
        /\ next'[node] = [next[node] EXCEPT ![l0] = next[p][l0]]
        /\ \A n \in DOMAIN next \ {node, p} : next'[n] = next[n]
    BY <1>5, <2>1, <2>2
  <2>4. QED
    BY <1>5, <2>3
<1>7. Mem!Nodes' = Mem!Nodes /\ Mem!Nodes \union {Mem!Head} = DOMAIN next
  BY <1>1, <1>6 DEF Mem!Nodes, MemTypeOK
<1>8. node \notin LinkedAt(l0) /\ \A l \in Nat : LinkedAt(l)' = IF l = l0 THEN LinkedAt(l) \union {node} ELSE LinkedAt(l)
  <2>1. \A n \in Mem!Nodes : DOMAIN next'[n] = DOMAIN next[n]
    BY <1>6, <1>7
  <2>2. \A l \in Nat \ {l0} : l0 + 1 > l <=> l0 > l
    BY <1>2
  <2>3. l0 + 1 > l0 /\ ~(l0 > l0)
    BY <1>2
  <2>4. node = inserting.node /\ l0 = inserting.level
    BY DEF node, l0
  <2>5. node \notin LinkedAt(l0)
    BY <2>3, <2>4 DEF LinkedAt
  <2>6. ASSUME NEW l \in Nat, l = l0 PROVE LinkedAt(l)' = LinkedAt(l) \union {node}
    <3>1. LinkedAt(l)' = {n \in Mem!Nodes : l \in DOMAIN next[n] /\ (node = n => l0 + 1 > l)}
      BY <1>4, <1>7, <2>1 DEF LinkedAt
    <3>2. LinkedAt(l) = {n \in Mem!Nodes : l \in DOMAIN next[n] /\ (node = n => l0 > l)}
      BY <2>4 DEF LinkedAt
    <3>3. l \in DOMAIN next[node] /\ l0 + 1 > l /\ ~(l0 > l)
      BY <1>5, <2>3, <2>6
    <3>4. QED
      BY <1>2, <3>1, <3>2, <3>3
  <2>7. \A l \in Nat \ {l0} : LinkedAt(l)' = LinkedAt(l)
    BY <1>4, <1>7, <2>1, <2>2, <2>4 DEF LinkedAt
  <2>8. QED
    BY <2>5, <2>6, <2>7
<1>9. MemTypeOK'
  <2>1. Mem!Nodes' \subseteq NodeKeys /\ Mem!Head \in DOMAIN next' /\ IsFiniteSet(DOMAIN next')
    BY <1>1, <1>6, <1>7 DEF MemTypeOK
  <2>2. \A n \in Mem!Nodes : n[2] <= sequence \/ n = inserting'.node
    BY <1>1, <1>4 DEF MemTypeOK, node
  <2>3. /\ DOMAIN next'[Mem!Head] = Mem!Levels(MaxHeight)
        /\ \A n \in Mem!Nodes : \E h \in 1..MaxHeight : DOMAIN next'[n] = Mem!Levels(h)
    BY <1>1, <1>6, <1>7 DEF MemTypeOK
  <2>4. UNCHANGED <<sequence, heights, iter>>
    BY <1>3
  <2>5. QED
    BY <1>1, <1>7, <2>1, <2>2, <2>3, <2>4 DEF MemTypeOK
<1>10. \A l \in Nat : LinkedAt(l) \subseteq Mem!Nodes /\ LinkedAt(l) \subseteq Places /\ \A n \in LinkedAt(l) : l \in DOMAIN next[n]
  BY <1>1, NodesAreKeys DEF LinkedAt
<1>11. ASSUME NEW l \in Mem!Levels(MaxHeight), NEW x \in LinkedAt(l)' \union {Mem!Head}
       PROVE  /\ next'[x][l] = Mem!NULL \/ (next'[x][l] \in LinkedAt(l)' /\ Passes(x, next'[x][l]))
              /\ \A n \in LinkedAt(l)' : Passes(x, n) => next'[x][l] # Mem!NULL /\ (n = next'[x][l] \/ Mem!Before(next'[x][l], n))
  <2>1. l \in Nat /\ Mem!Head \in DOMAIN next /\ l \in DOMAIN next[Mem!Head] /\ Mem!Head \in Places
    BY <1>1, LevelsAreNumbers, NodesAreKeys DEF MemTypeOK
  <2>2. CASE l # l0
    <3>1. x \in LinkedAt(l) \union {Mem!Head} /\ LinkedAt(l)' = LinkedAt(l)
      BY <1>8, <2>1, <2>2
    <3>2. x \in DOMAIN next /\ l \in DOMAIN next[x]
      BY <1>7, <1>10, <2>1, <3>1
    <3>3. next'[x][l] = next[x][l]
      BY <1>6, <2>2, <3>2
    <3>4. QED
      BY <1>1, <3>1, <3>3 DEF ListIsSorted
  <2>3. CASE l = l0
    <3> DEFINE After(y) == next[y][l0]
    <3>0. LinkedAt(l)' = LinkedAt(l0) \union {node}
      BY <1>8, <2>1, <2>3
    <3>1. \A y \in LinkedAt(l0) \union {Mem!Head} :
             /\ After(y) = Mem!NULL \/ (After(y) \in LinkedAt(l0) /\ Passes(y, After(y)))
             /\ \A n \in LinkedAt(l0) : Passes(y, n) => After(y) # Mem!NULL /\ (n = After(y) \/ Mem!Before(After(y), n))
      BY <1>1, <2>3 DEF ListIsSorted
    <3>2. LinkedAt(l0) \subseteq Places /\ LinkedAt(l0) \subseteq DOMAIN next
      BY <1>7, <1>10, <2>1, <2>3
    <3>3. next'[node][l0] = After(p) /\ next'[p][l0] = node
      BY <1>6
    <3>4. \A y \in LinkedAt(l0) \union {Mem!Head} : y # p => next'[y][l0] = After(y)
      <4>1. \A y \in LinkedAt(l0) \union {Mem!Head} : l0 \in DOMAIN next[y] /\ y \in DOMAIN next /\ y # node
        BY <1>5, <1>7, <1>8, <1>10, <2>1, <2>3
      <4>2. QED
        BY <1>6, <4>1
    <3> HIDE DEF After
    <3>5. CASE x = p
      <4>1. ASSUME NEW n \in LinkedAt(l0), Passes(p, n) PROVE Mem!Before(node, n)
        <5>1. ~Mem!Before(n, node) /\ n # node /\ n \in Places
          BY <1>2, <1>8, <3>2, <4>1
        <5>2. QED
          BY <1>5, <5>1, OrderIsTotal
      <4>2. QED
        BY <1>2, <1>5, <2>3, <3>0, <3>3, <3>5, <4>1
    <3>6. CASE x = node
      <4>1. After(p) # Mem!NULL => Mem!Before(node, After(p)) /\ After(p) \in LinkedAt(l0)
        <5>1. SUFFICES ASSUME After(p) # Mem!NULL PROVE Mem!Before(node, After(p)) /\ After(p) \in LinkedAt(l0)
          OBVIOUS
        <5>2. After(p) \in LinkedAt(l0) /\ Passes(p, After(p))
          BY <1>2, <3>1, <5>1
        <5>3. ~Mem!Before(After(p), node) /\ After(p) # node /\ After(p) \in Places
          BY <1>2, <1>8, <3>2, <5>2
        <5>4. QED
          BY <1>5, <5>2, <5>3, OrderIsTotal
      <4>2. ASSUME NEW n \in LinkedAt(l0) \union {node}, Passes(node, n)
            PROVE  After(p) # Mem!NULL /\ (n = After(p) \/ Mem!Before(After(p), n))
        <5>1. Mem!Before(node, n) /\ n # node /\ n \in Places /\ n \in LinkedAt(l0)
          BY <1>5, <3>2, <4>2, OrderIsTotal DEF Passes
        <5>2. Passes(p, n)
          BY <1>2, <1>5, <5>1, OrderIsTotal DEF Passes
        <5>3. QED
          BY <1>2, <3>1, <5>1, <5>2
      <4>3. QED
        BY <2>3, <3>0, <3>3, <3>6, <4>1, <4>2 DEF Passes
    <3>7. CASE x # p /\ x # node
      <4>1. x \in LinkedAt(l0) \union {Mem!Head} /\ next'[x][l0] = After(x) /\ x \in Places
        BY <2>1, <3>0, <3>2, <3>4, <3>7
      <4>2. ASSUME Passes(x, node) PROVE After(x) # Mem!NULL /\ Mem!Before(After(x), node)
        <5>1. p \in LinkedAt(l0) /\ Passes(x, p)
          <6>1. CASE x = Mem!Head
            BY <1>2, <3>7, <6>1 DEF Passes
          <6>2. CASE x # Mem!Head
            <7>1. x \in LinkedAt(l0) /\ Mem!Before(x, node)
              BY <4>1, <4>2, <6>2 DEF Passes
            <7>2. ~Passes(p, x)
              BY <1>2, <7>1
            <7>3. QED
              BY <1>2, <1>5, <3>7, <4>1, <7>2, OrderIsTotal DEF Passes
          <6>3. QED
            BY <6>1, <6>2
        <5>2. After(x) # Mem!NULL /\ (p = After(x) \/ Mem!Before(After(x), p)) /\ After(x) \in LinkedAt(l0)
          BY <3>1, <4>1, <5>1
        <5>3. Mem!Before(p, node)
          BY <1>2, <1>5, <5>1, <2>1, <1>10, <1>1, NodesAreKeys DEF Passes
        <5>4. QED
          BY <1>5, <3>2, <5>2, <5>3, OrderIsTotal
      <4>3. QED
        BY <2>3, <3>0, <3>1, <4>1, <4>2
    <3>8. QED
      BY <3>5, <3>6, <3>7
  <2>4. QED
    BY <2>2, <2>3
<1>12. ListIsSorted'
  BY <1>11 DEF ListIsSorted, Passes
<1>13. InsertInOrder'
  <2>1. ASSUME NEW l \in DOMAIN prev, l >= l0 + 1
        PROVE  /\ prev[l] \in LinkedAt(l) \union {Mem!Head} /\ Passes(prev[l], node) /\ LinkedAt(l)' = LinkedAt(l)
               /\ \A n \in LinkedAt(l) : ~(Passes(prev[l], n) /\ Mem!Before(n, node))
    <3>1. l \in Nat /\ l >= l0 /\ l # l0
      <4>1. DOMAIN prev \subseteq Mem!Levels(MaxHeight)
        BY <1>1, <1>2, LevelsAreNumbers DEF MemTypeOK
      <4>2. l \in Nat
        BY <4>1, LevelsAreNumbers
      <4>3. QED
        BY <1>2, <2>1, <4>2
    <3>2. QED
      BY <1>1, <1>8, <3>1 DEF InsertInOrder, node, prev, l0
  <2>2. l0 + 1 \in Nat /\ sequence' = sequence /\ DOMAIN next'[node] = DOMAIN next[node]
    BY <1>2, <1>3, <1>5, <1>6
  <2>3. QED
    BY <1>2, <1>4, <1>7, <2>1, <2>2 DEF InsertInOrder, Passes
<1>14. SearchersAreRight'
  <2>1. ASSUME NEW r \in Searchers PROVE RightSearch(iter[r])' /\ (iter[r].done => NothingPassed(iter[r]))'
    <3>1. iter' = iter /\ sequence' = sequence
      BY <1>3
    <3>2. RightSearch(iter[r]) /\ (iter[r].done => NothingPassed(iter[r])) /\ iter[r] \in Searches
      BY <1>1 DEF SearchersAreRight, MemTypeOK
    <3>3. \A l \in Nat : LinkedAt(l) \subseteq LinkedAt(l)'
      BY <1>8
    <3>4. iter[r].level \in Nat /\ 0 \in Nat
      BY <3>2 DEF Searches
    <3>6. RightSearch(iter[r])'
      BY <1>7, <3>1, <3>2, <3>3, <3>4 DEF RightSearch, Passes
    <3>7. (iter[r].done => NothingPassed(iter[r]))'
      BY <3>1, <3>2 DEF NothingPassed, Passes
    <3>8. QED
      BY <3>6, <3>7
  <2>2. QED
    BY <2>1 DEF SearchersAreRight
<1>15. QED
  BY <1>9, <1>12, <1>13, <1>14 DEF MemInv

LEMMA AddReturnsKeeps ==
  ASSUME MemInv, Mem!AddReturns
  PROVE  MemInv'
<1>1. MemTypeOK /\ ListIsSorted /\ InsertInOrder /\ SearchersAreRight /\ inserting # Mem!None /\ sequence \in Nat
  BY DEF MemInv, Mem!AddReturns, MemTypeOK
<1>2. /\ inserting.node \in Mem!Nodes /\ inserting.node[2] = sequence + 1 /\ inserting.level \in Nat
      /\ inserting.level \notin DOMAIN next[inserting.node]
  BY <1>1 DEF InsertInOrder, Mem!AddReturns
<1>3. sequence' = sequence + 1 /\ inserting' = Mem!None /\ UNCHANGED <<next, heights, types, iter>>
  BY <1>2 DEF Mem!AddReturns
<1>4. Mem!Nodes' = Mem!Nodes
  BY <1>3 DEF Mem!Nodes
<1>5. \A l \in Nat : LinkedAt(l)' = LinkedAt(l)
  <2>1. PICK h \in 1..MaxHeight : DOMAIN next[inserting.node] = Mem!Levels(h)
    BY <1>1, <1>2 DEF MemTypeOK
  <2>2. h \in Nat \ {0}
    BY <2>1, LevelsAreNumbers
  <2>3. \A l \in Nat : l \in DOMAIN next[inserting.node] => inserting.level > l
    <3>1. ASSUME NEW k \in Nat, k \notin Mem!Levels(h), NEW l \in Mem!Levels(h) PROVE k > l
      BY <2>2, <3>1 DEF Mem!Levels
    <3>2. QED
      BY <1>2, <2>1, <3>1
  <2>4. \A l \in Nat : LinkedAt(l) = {n \in Mem!Nodes : l \in DOMAIN next[n]}
    BY <2>3 DEF LinkedAt
  <2>5. Mem!None.node \notin Mem!Nodes
    BY <1>1, NodesAreKeys DEF Mem!None
  <2>6. \A l \in Nat : LinkedAt(l)' = {n \in Mem!Nodes : l \in DOMAIN next[n]}
    BY <1>3, <1>4, <2>5 DEF LinkedAt
  <2>7. QED
    BY <2>4, <2>6
<1>6. \A s \in Nat : s <= sequence => s <= sequence + 1
  BY <1>1
<1>7. MemTypeOK'
  <2>1. ASSUME NEW n \in Mem!Nodes PROVE n[2] <= sequence + 1
    <3>1. n[2] \in Nat
      BY <1>1, NodesAreKeys
    <3>2. n[2] <= sequence \/ n[2] = sequence + 1
      BY <1>1, <1>2 DEF MemTypeOK
    <3>3. QED
      BY <1>1, <3>1, <3>2
  <2>2. sequence' \in Nat
    BY <1>1, <1>3
  <2>3. QED
    BY <1>1, <1>3, <1>4, <2>1, <2>2 DEF MemTypeOK
<1>8. ListIsSorted'
  BY <1>1, <1>3, <1>5, LevelsAreNumbers DEF ListIsSorted, Passes
<1>9. InsertInOrder'
  BY <1>3 DEF InsertInOrder
<1>10. SearchersAreRight'
  <2>1. ASSUME NEW r \in Searchers PROVE RightSearch(iter[r])' /\ (iter[r].done => NothingPassed(iter[r]))'
    <3>1. RightSearch(iter[r]) /\ (iter[r].done => NothingPassed(iter[r])) /\ iter[r] \in Searches
      BY <1>1 DEF SearchersAreRight, MemTypeOK
    <3>2. iter[r].level \in Nat /\ 0 \in Nat
      BY <3>1 DEF Searches
    <3>3. iter[r].op = "greater or equal" => iter[r].target[2] <= sequence'
      <4>1. iter[r].op = "greater or equal" => iter[r].target[2] \in Nat /\ iter[r].target[2] <= sequence
        BY <3>1 DEF RightSearch, Targets
      <4>2. QED
        BY <1>3, <1>6, <4>1
    <3>4. RightSearch(iter[r])'
      BY <1>3, <1>4, <1>5, <3>1, <3>2, <3>3 DEF RightSearch, Passes
    <3>5. (iter[r].done => NothingPassed(iter[r]))'
      BY <1>3, <3>1 DEF NothingPassed, Passes
    <3>6. QED
      BY <3>4, <3>5
  <2>2. QED
    BY <2>1 DEF SearchersAreRight
<1>11. QED
  BY <1>7, <1>8, <1>9, <1>10 DEF MemInv

LEMMA MemKeeps ==
  ASSUME MemInv, [Mem!Next]_memVars
  PROVE  MemInv'
<1>1. CASE UNCHANGED memVars
  <2>1. UNCHANGED <<next, heights, types, inserting, sequence, iter>>
    BY <1>1 DEF memVars
  <2>2. Mem!Nodes' = Mem!Nodes /\ \A l : LinkedAt(l)' = LinkedAt(l)
    BY <2>1 DEF Mem!Nodes, LinkedAt
  <2>3. MemTypeOK' /\ ListIsSorted' /\ InsertInOrder'
    BY <2>1, <2>2 DEF MemInv, MemTypeOK, ListIsSorted, InsertInOrder
  <2>4. SearchersAreRight'
    BY <2>1, <2>2 DEF MemInv, SearchersAreRight, RightSearch, NothingPassed
  <2>5. QED
    BY <2>3, <2>4 DEF MemInv
<1>2. CASE \E u \in UserKeys, t \in {"value", "deletion"}, h \in 1..MaxHeight : Mem!Add(u, t, h)
  BY <1>2, AddKeeps
<1>3. CASE Mem!Link
  BY <1>3, LinkKeeps
<1>4. CASE Mem!AddReturns
  BY <1>4, AddReturnsKeeps
<1>5. ASSUME NEW r \in Searchers,
             Mem!Step(r) \/ Mem!Seek(r) \/ Mem!SeekToFirst(r) \/ Mem!SeekToLast(r) \/ Mem!Next_(r) \/ Mem!Prev(r)
      PROVE  MemInv'
  <2>1. /\ MemTypeOK /\ sequence \in Nat /\ Mem!Head \in Places /\ LinkedAt(0) \subseteq Places
        /\ iter[r].node # Mem!NULL => iter[r].node \in LinkedAt(0)
    BY NodesAreKeys DEF MemInv, MemTypeOK, SearchersAreRight, RightSearch
  <2>2. CASE Mem!Step(r)
    BY <2>2, StepKeeps
  <2>3. CASE Mem!Seek(r)
    <3>1. PICK u \in UserKeys, s \in 0..sequence : Mem!Begin(r, "greater or equal", <<u, s>>)
      BY <2>3 DEF Mem!Seek
    <3>2. u \in Nat /\ s \in Nat /\ s <= sequence
      BY <2>1, MemTableAssumptions DEF Mem!KeysAssumption
    <3>3. <<u, s>> \in Places /\ <<u, s>> \in Targets /\ <<u, s>>[2] = s
      BY <3>2 DEF Places, Targets
    <3>4. QED
      BY <3>1, <3>2, <3>3, BeginKeeps DEF Ops
  <2>4. CASE Mem!SeekToFirst(r)
    BY <2>4, LoadNextKeeps DEF Mem!SeekToFirst
  <2>5. CASE Mem!SeekToLast(r)
    BY <2>1, <2>5, BeginKeeps DEF Mem!SeekToLast, Ops
  <2>6. CASE Mem!Next_(r)
    BY <2>1, <2>6, LoadNextKeeps DEF Mem!Next_
  <2>7. CASE Mem!Prev(r)
    BY <2>1, <2>7, BeginKeeps DEF Mem!Prev, Ops
  <2>8. QED
    BY <1>5, <2>2, <2>3, <2>4, <2>5, <2>6, <2>7
<1>6. QED
  BY <1>1, <1>2, <1>3, <1>4, <1>5 DEF Mem!Next

LEMMA MemStarts ==
  ASSUME Mem!Init
  PROVE  MemInv
<1>1. /\ DOMAIN next = {Mem!Head} /\ next[Mem!Head] = [l \in Mem!Levels(MaxHeight) |-> Mem!NULL]
      /\ inserting = Mem!None /\ sequence = 0 /\ heights = {1}
  BY DEF Mem!Init
<1>2. Mem!Nodes = {} /\ \A l : LinkedAt(l) = {}
  BY <1>1 DEF Mem!Nodes, LinkedAt
<1>3. Mem!Head \in Places /\ Mem!NULL \in Places
  BY DEF Places, Mem!Head, Mem!NULL
<1>4. /\ iter \in [Searchers -> Searches]
      /\ \A r \in Searchers : /\ iter[r].op = "next" /\ iter[r].done /\ iter[r].at = Mem!Head /\ iter[r].node = Mem!NULL
                              /\ iter[r].before = {}
  BY <1>3 DEF Mem!Init, Searches, Ops
<1>5. MemTypeOK
  <2>1. IsFiniteSet(DOMAIN next)
    BY <1>1, FS_Singleton
  <2>2. heights \subseteq 1..MaxHeight
    BY <1>1, LevelsAreNumbers
  <2>3. QED
    BY <1>1, <1>2, <1>4, <2>1, <2>2 DEF MemTypeOK
<1>6. ListIsSorted
  BY <1>1, <1>2 DEF ListIsSorted
<1>7. InsertInOrder
  BY <1>1 DEF InsertInOrder
<1>8. SearchersAreRight
  BY <1>2, <1>4 DEF SearchersAreRight, RightSearch, NothingPassed
<1>9. QED
  BY <1>5, <1>6, <1>7, <1>8 DEF MemInv

-----------------------------------------------------------------------------
(* What a search that is done with nothing passed over says of Get.         *)
LEMMA SkippedIsPassed ==
  ASSUME MemTypeOK, NEW r \in Searchers, NothingPassed(iter[r])
  PROVE  Mem!Skipped(r) = {}
<1> DEFINE i == iter[r]
<1>1. i.op \in Ops
  BY DEF MemTypeOK, Searches
<1>2. CASE i.op = "greater or equal"
  BY <1>2 DEF NothingPassed, Mem!Skipped
<1>3. CASE i.op = "next"
  BY <1>3 DEF NothingPassed, Mem!Skipped, Passes
<1>4. CASE i.op = "less than"
  BY <1>4 DEF NothingPassed, Mem!Skipped
<1>5. CASE i.op = "last"
  BY <1>5 DEF NothingPassed, Mem!Skipped
<1>6. QED
  BY <1>1, <1>2, <1>3, <1>4, <1>5 DEF Ops

LEMMA BeforeSays ==
  ASSUME NEW a \in Places, NEW b \in Places
  PROVE  /\ ~Mem!Before(a, b) /\ a[1] = b[1] => a[2] <= b[2]
         /\ a[1] = b[1] /\ a[2] <= b[2] => ~Mem!Before(a, b)
         /\ ~Mem!Before(a, b) => b[1] <= a[1]
         /\ a[1] <= b[1] /\ b[1] <= a[1] => a[1] = b[1]
         /\ a[1] = b[1] /\ a[2] <= b[2] /\ b[2] <= a[2] => a = b
<1>1. a[1] \in Nat /\ b[1] \in Nat /\ a[2] \in Int /\ b[2] \in Int /\ a = <<a[1], a[2]>> /\ b = <<b[1], b[2]>>
  BY DEF Places
<1>2. a[2] <= b[2] /\ b[2] <= a[2] => a[2] = b[2]
  BY <1>1
<1>3. ~(a[1] < b[1]) => b[1] <= a[1]
  BY <1>1
<1>4. a[1] = b[1] => ~(a[1] < b[1])
  BY <1>1
<1>5. ~(a[2] > b[2]) <=> a[2] <= b[2]
  BY <1>1
<1>6. a[1] <= b[1] /\ b[1] <= a[1] => a[1] = b[1]
  BY <1>1
<1>7. QED
  BY <1>1, <1>2, <1>3, <1>4, <1>5, <1>6 DEF Mem!Before

LEMMA NewestIsFound ==
  ASSUME NEW seen, NEW node \in seen, seen \subseteq Places, \A m \in seen : m[1] = node[1] /\ ~Mem!Before(m, node)
  PROVE  node = CHOOSE n \in seen : \A m \in seen : m[2] <= n[2]
<1>1. \A m \in seen : m[2] <= node[2]
  BY BeforeSays
<1>2. \A n \in seen : (\A m \in seen : m[2] <= n[2]) => n = node
  BY <1>1, BeforeSays
<1>3. QED
  BY <1>1, <1>2

LEMMA GetHolds ==
  ASSUME MemInv, NEW r \in Searchers, iter[r].done, iter[r].op = "greater or equal"
  PROVE  LET seen == Mem!Visible(iter[r].target[1], iter[r].target[2])
         IN  Mem!Get(r) = IF seen = {} THEN "absent"
                          ELSE types[CHOOSE n \in seen : \A m \in seen : m[2] <= n[2]]
<1> DEFINE target == iter[r].target
           node == iter[r].node
           seen == Mem!Visible(target[1], target[2])
<1>1. MemTypeOK /\ RightSearch(iter[r]) /\ NothingPassed(iter[r]) /\ iter[r] \in Searches
  BY DEF MemInv, SearchersAreRight, MemTypeOK
<1>2. target \in Places
  BY <1>1 DEF Searches
<1>3. Mem!Nodes \subseteq Places /\ Mem!NULL \notin Mem!Nodes /\ LinkedAt(0) \subseteq Mem!Nodes
  BY <1>1, NodesAreKeys
<1>4. seen = {n \in Mem!Nodes : n[1] = target[1] /\ n[2] <= target[2]}
  BY DEF Mem!Visible
<1>5. \A n \in Mem!Nodes : n[2] <= target[2] => n \in iter[r].before
  BY <1>1 DEF RightSearch
<1>6. node \in Mem!Nodes \union {Mem!NULL} /\ (node # Mem!NULL => ~Mem!Before(node, target))
  BY <1>1, <1>3 DEF RightSearch
<1>7. \A m \in iter[r].before : ~Mem!Before(m, target) => node # Mem!NULL /\ ~Mem!Before(m, node)
  BY <1>1 DEF NothingPassed
<1>8. Mem!Get(r) = IF node # Mem!NULL /\ node[1] = target[1] THEN types[node] ELSE "absent"
  BY DEF Mem!Get
<1> HIDE DEF seen, node, target
<1>9. node # Mem!NULL /\ node[1] = target[1] => node \in seen
  BY <1>2, <1>3, <1>4, <1>6, BeforeSays
<1>10. ASSUME NEW m \in seen
       PROVE  node # Mem!NULL /\ ~Mem!Before(m, node) /\ node[1] = target[1] /\ m[1] = node[1]
  <2>1. m \in Mem!Nodes /\ m \in Places /\ m[1] = target[1] /\ m[2] <= target[2] /\ m \in iter[r].before
    BY <1>3, <1>4, <1>5
  <2>2. ~Mem!Before(m, target)
    BY <1>2, <2>1, BeforeSays
  <2>3. node # Mem!NULL /\ ~Mem!Before(m, node)
    BY <1>7, <2>1, <2>2
  <2>4. node \in Places /\ ~Mem!Before(node, target)
    BY <1>3, <1>6, <2>3
  <2>5. node[1] <= m[1]
    BY <2>1, <2>3, <2>4, BeforeSays
  <2>6. target[1] <= node[1]
    BY <1>2, <2>4, BeforeSays
  <2>7. node[1] = target[1]
    BY <1>2, <2>1, <2>4, <2>5, <2>6, BeforeSays
  <2>8. QED
    BY <2>1, <2>3, <2>7
<1>11. CASE seen = {}
  BY <1>8, <1>9, <1>11 DEF seen, target
<1>12. CASE seen # {}
  <2>1. node # Mem!NULL /\ node[1] = target[1] /\ node \in seen
    BY <1>9, <1>10, <1>12
  <2>2. seen \subseteq Places
    BY <1>3, <1>4
  <2>3. node = CHOOSE n \in seen : \A m \in seen : m[2] <= n[2]
    BY <1>10, <2>1, <2>2, NewestIsFound
  <2>4. Mem!Get(r) = types[CHOOSE n \in seen : \A m \in seen : m[2] <= n[2]]
    BY <1>8, <2>1, <2>3
  <2>5. QED
    BY <1>12, <2>4 DEF seen, target
<1>13. QED
  BY <1>11, <1>12

LEMMA SearchesHold ==
  ASSUME MemInv
  PROVE  Mem!SearchesAreRight
<1>1. MemTypeOK /\ SearchersAreRight
  BY DEF MemInv
<1>2. Mem!NothingSkipped
  <2>1. ASSUME NEW r \in Searchers
        PROVE  /\ iter[r].at # Mem!Junk /\ iter[r].node \in Mem!Nodes \union {Mem!NULL}
               /\ iter[r].done => Mem!Skipped(r) = {}
    <3>1. iter[r].at \in Mem!Nodes \union {Mem!Head} /\ iter[r].node \in Mem!Nodes \union {Mem!NULL}
      BY <1>1, NodesAreKeys DEF SearchersAreRight, RightSearch
    <3>2. Mem!Junk \notin Mem!Nodes \union {Mem!Head}
      <4>1. Mem!Junk[2] = -2 /\ Mem!Head[2] = 0
        BY DEF Mem!Junk, Mem!Head
      <4>2. \A n \in Mem!Nodes : n[2] \in Nat
        BY <1>1, NodesAreKeys
      <4>3. QED
        BY <4>1, <4>2
    <3>3. QED
      BY <1>1, <3>1, <3>2, SkippedIsPassed DEF SearchersAreRight
  <2>2. QED
    BY <2>1 DEF Mem!NothingSkipped
<1>3. Mem!GetIsRight
  BY GetHolds DEF Mem!GetIsRight
<1>4. QED
  BY <1>2, <1>3 DEF Mem!SearchesAreRight

-----------------------------------------------------------------------------
(* leveldb's skip list and arena, for every number of keys, heights,        *)
(* readers, sizes and allocations: no search passes over an entry that was  *)
(* in the list before it began, Get gives the newest entry that the         *)
(* sequence number may see, and the pieces handed out are apart, aligned    *)
(* and counted.                                                             *)
THEOREM SearchesAndPiecesAreRight == StructuresSpec => []MemTablesHold
<1>1. StructuresInit => MemInv /\ ArenaInv
  BY MemStarts, ArenaStarts DEF StructuresInit
<1>2. MemInv /\ ArenaInv /\ [StructuresNext]_structuresVars => (MemInv /\ ArenaInv)'
  BY InMemoryStep, MemKeeps, ArenaKeeps
<1>3. MemInv /\ ArenaInv => MemTablesHold
  BY SearchesHold, ArenaHolds DEF MemTablesHold
<1>4. QED
  BY <1>1, <1>2, <1>3, PTL DEF StructuresSpec


=============================================================================
