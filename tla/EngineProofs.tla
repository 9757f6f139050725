---------------------------- MODULE EngineProofs ----------------------------
(* The background thread (db_impl.cc), for any threads in CompactRange, any *)
(* triggers and any number of rounds: types, work that is not forgotten,    *)
(* sleepers that are woken, a destructor that frees nothing in use.  Then   *)
(* the writers (DBImpl::Write, MakeRoomForWrite), for any number of threads *)
(* and calls: the work that they make is scheduled, none of them sleeps     *)
(* with nobody left to signal it, and one at a time writes the log.         *)
EXTENDS WriteQueue, FiniteSetTheorems, SequenceTheorems, WellFoundedInduction, TLAPS

(* A request that is in the slot is of a thread in CompactRange that has    *)
(* not been answered, and without an error it stays while it is worked on,  *)
(* with something left to do.                                               *)
RequestInSlot ==
  /\ manual # None => request[manual].at = "loop" /\ ~request[manual].done
  /\ picked = "manual" /\ manual # None => request[manual].left > 0
  /\ picked = "manual" /\ ~bgError /\ ~shutting => manual # None

(* The thread is inside a call only while one is scheduled, and none is     *)
(* once the destructor is past its wait.                                    *)
CallIsScheduled ==
  /\ bg # "off" => scheduled
  /\ closed => shutting /\ ~scheduled

IInv(sleepers) ==
  /\ BackgroundTypeOK(sleepers)
  /\ RequestInSlot
  /\ CallIsScheduled
  /\ WorkIsScheduled
  /\ SleepersAreWoken

(* A new database has nothing to do.                                        *)
LEMMA InitIInv == ASSUME NEW CONSTANT S PROVE InitBackground => IInv(S)
<1> SUFFICES ASSUME InitBackground PROVE IInv(S)
  OBVIOUS
<1> USE TriggerAssumption, NoneAssumption, RoundsAssumption DEF InitBackground
<1>1. [at |-> "idle", done |-> FALSE, left |-> 0] \in Request
  BY DEF Request
<1>2. BackgroundTypeOK(S)
  BY <1>1 DEF BackgroundTypeOK
<1>3. ~WorkToDo
  BY DEF WorkToDo, NeedsCompaction
<1>4. QED
  BY <1>2, <1>3 DEF IInv, RequestInSlot, CallIsScheduled, WorkIsScheduled, SleepersAreWoken

(* The end of a background call looks for work again, and signals.          *)
LEMMA EndOfCallKeeps ==
  ASSUME EndOfCall, ~closed'
  PROVE  /\ bg' = "off" /\ picked' = None /\ scheduled' \in BOOLEAN /\ asleep' = {}
         /\ CallIsScheduled' /\ WorkIsScheduled' /\ SleepersAreWoken'
  BY DEF EndOfCall, MaybeScheduleCompaction, SignalAll, CallIsScheduled, WorkIsScheduled, SleepersAreWoken,
         WorkToDo, NeedsCompaction

USE NoneAssumption, TriggerAssumption DEF IInv, BackgroundTypeOK, Request

(* Every step of the background thread keeps the invariant.                 *)
LEMMA BackgroundKeeps == ASSUME NEW CONSTANT S, IInv(S), Background PROVE IInv(S)'
<1>1. CASE BackgroundCallIdle
  <2>1. ~closed'
    BY <1>1 DEF BackgroundCallIdle, CallIsScheduled, endVars
  <2>2. /\ manual' \in Compactors \union {None}
        /\ request' \in [Compactors -> Request]
        /\ manual' # None => request'[manual'].at = "loop" /\ ~request'[manual'].done
    BY <1>1 DEF BackgroundCallIdle, RequestInSlot
  <2>3. QED
    BY <1>1, <2>1, <2>2, EndOfCallKeeps DEF BackgroundCallIdle, RequestInSlot, lsmVars, endVars
<1>2. CASE BackgroundCall
  BY <1>2 DEF BackgroundCall, lsmVars, endVars, RequestInSlot, CallIsScheduled, WorkIsScheduled, SleepersAreWoken, WorkToDo, NeedsCompaction
<1>3. CASE TableBuilt
  BY <1>3 DEF TableBuilt, lsmVars, endVars, RequestInSlot, CallIsScheduled, WorkIsScheduled, SleepersAreWoken, WorkToDo, NeedsCompaction
<1>4. CASE FlushApplied
  <2>1. ~closed'
    BY <1>4 DEF FlushApplied, CallIsScheduled, endVars
  <2> l0' \in Nat /\ ~imm' /\ scheduled
    BY <1>4 DEF FlushApplied, CallIsScheduled
  <2>2. CASE picked # None
    BY <1>4, <2>1, <2>2 DEF FlushApplied, LeaveFlush, SignalAll, endVars, RequestInSlot, CallIsScheduled, WorkIsScheduled, SleepersAreWoken, WorkToDo, NeedsCompaction
  <2>3. CASE picked = None
    BY <1>4, <2>1, <2>3, EndOfCallKeeps DEF FlushApplied, LeaveFlush, endVars, RequestInSlot
  <2>4. QED
    BY <2>2, <2>3
<1>5. CASE FlushFailed
  <2>1. ~closed'
    BY <1>5 DEF FlushFailed, CallIsScheduled, endVars
  <2>2. CASE picked # None
    BY <1>5, <2>1, <2>2 DEF FlushFailed, LeaveFlush, SignalAll, lsmVars, endVars, RequestInSlot, CallIsScheduled, WorkIsScheduled, SleepersAreWoken, WorkToDo, NeedsCompaction
  <2>3. CASE picked = None
    BY <1>5, <2>1, <2>3, EndOfCallKeeps DEF FlushFailed, LeaveFlush, lsmVars, endVars, RequestInSlot
  <2>4. QED
    BY <2>2, <2>3
<1>6. CASE PrioritizeImm
  BY <1>6 DEF PrioritizeImm, lsmVars, endVars, RequestInSlot, CallIsScheduled, WorkIsScheduled, SleepersAreWoken, WorkToDo, NeedsCompaction
<1>7. CASE Merged
  BY <1>7 DEF Merged, lsmVars, endVars, RequestInSlot, CallIsScheduled, WorkIsScheduled, SleepersAreWoken, WorkToDo, NeedsCompaction
<1>8. ASSUME NEW ok \in BOOLEAN, ManualTail(ok), picked' = None
      PROVE  /\ RequestInSlot'
             /\ manual' \in Compactors \union {None}
             /\ request' \in [Compactors -> Request]
             /\ trapped' \in BOOLEAN
  <2>1. CASE picked # "manual"
    BY <1>8, <2>1 DEF ManualTail, RequestInSlot
  <2>2. CASE picked = "manual" /\ manual = None
    BY <1>8, <2>2 DEF ManualTail, RequestInSlot
  <2>3. CASE picked = "manual" /\ manual # None
    <3>1. manual \in Compactors /\ request[manual].left - 1 \in 0..MaxRounds
      BY <2>3, RoundsAssumption DEF RequestInSlot
    <3>2. request' = [request EXCEPT ![manual].done = ~ok, ![manual].left = @ - 1]
      BY <1>8, <2>3 DEF ManualTail
    <3>3. request' \in [Compactors -> Request]
      BY <3>1, <3>2
    <3>4. QED
      BY <1>8, <2>3, <3>3 DEF ManualTail, RequestInSlot
  <2>4. QED
    BY <2>1, <2>2, <2>3
<1>9. CASE CompactionInstalled
  <2>1. ~closed'
    BY <1>9 DEF CompactionInstalled, CallIsScheduled
  <2>2. picked' = None /\ EndOfCall /\ ManualTail(TRUE)
    BY <1>9 DEF CompactionInstalled, EndOfCall
  <2>3. /\ l0' \in 0..(IF picked = "l0" THEN l0 - 1 ELSE l0)
        /\ deep' \in BOOLEAN
        /\ UNCHANGED <<imm, bgError, shutting, closed>>
    BY <1>9 DEF CompactionInstalled
  <2> l0' \in Nat
    BY <2>3
  <2> deep' \in BOOLEAN
    BY <2>3
  <2>4. QED
    BY <2>1, <2>2, <2>3, <1>8, EndOfCallKeeps
<1>10. CASE CompactionFailed
  <2>1. ~closed'
    BY <1>10 DEF CompactionFailed, CallIsScheduled
  <2>2. picked' = None /\ EndOfCall /\ ManualTail(FALSE)
    BY <1>10 DEF CompactionFailed, EndOfCall
  <2>3. UNCHANGED <<lsmVars, shutting, closed>> /\ bgError' = TRUE
    BY <1>10 DEF CompactionFailed
  <2>4. QED
    BY <2>1, <2>2, <2>3, <1>8, EndOfCallKeeps DEF lsmVars
<1>11. QED
  BY <1>1, <1>2, <1>3, <1>4, <1>5, <1>6, <1>7, <1>9, <1>10 DEF Background

(* Every step of a thread in CompactRange keeps it.                         *)
LEMMA CompactorsKeep ==
  ASSUME NEW CONSTANT S, Compactors \subseteq S, IInv(S), NEW t \in Compactors,
         CompactRange(t) \/ CompactRangeWaits(t) \/ CompactRangeReturns(t)
  PROVE  IInv(S)'
<1> USE DEF WorkIsScheduled, SleepersAreWoken, WorkToDo, NeedsCompaction
<1>1. CASE CompactRange(t)
  <2>1. PICK n \in 0..MaxRounds : request' = [request EXCEPT ![t] = [at |-> "loop", done |-> FALSE, left |-> n]]
    BY <1>1 DEF CompactRange
  <2>2. request' \in [Compactors -> Request]
    BY <2>1
  <2>3. manual # t /\ UNCHANGED <<lsmVars, bgError, bgVars, manual, asleep, endVars>>
    BY <1>1 DEF CompactRange, RequestInSlot
  <2>4. RequestInSlot'
    BY <2>1, <2>3 DEF RequestInSlot, bgVars, endVars
  <2>5. QED
    BY <2>2, <2>3, <2>4 DEF CallIsScheduled, lsmVars, bgVars, endVars
<1>2. CASE CompactRangeWaits(t)
  <2>1. ~bgError /\ ~shutting /\ ~request[t].done /\ request[t].at = "loop"
    BY <1>2 DEF CompactRangeWaits, Awake, Leaves
  <2>2. UNCHANGED <<lsmVars, bgError, bg, picked, request, endVars>>
    BY <1>2 DEF CompactRangeWaits
  <2>3. CASE manual = None
    <3>1. manual' = t /\ asleep' = asleep \union {t}
      BY <1>2, <2>3 DEF CompactRangeWaits
    <3>2. scheduled' = TRUE
      BY <1>2, <2>1, <2>2, <2>3, <3>1 DEF CompactRangeWaits, MaybeScheduleCompaction, endVars
    <3>3. RequestInSlot'
      BY <2>1, <2>2, <2>3, <3>1 DEF RequestInSlot, endVars
    <3>4. QED
      BY <2>1, <2>2, <3>1, <3>2, <3>3 DEF CallIsScheduled, lsmVars, endVars
  <2>4. CASE manual # None
    BY <1>2, <2>1, <2>2, <2>4 DEF CompactRangeWaits, RequestInSlot, CallIsScheduled, lsmVars, endVars
  <2>5. QED
    BY <2>3, <2>4
<1>3. CASE CompactRangeReturns(t)
  <2>1. request' = [request EXCEPT ![t].at = "idle"] /\ Leaves(t)
    BY <1>3 DEF CompactRangeReturns
  <2>2. UNCHANGED <<lsmVars, bgError, bgVars, asleep, endVars>> /\ manual' = IF manual = t THEN None ELSE manual
    BY <1>3 DEF CompactRangeReturns
  <2>3. request' \in [Compactors -> Request]
    BY <2>1
  <2>4. RequestInSlot'
    BY <2>1, <2>2 DEF RequestInSlot, Leaves, bgVars, endVars
  <2>5. QED
    BY <2>2, <2>3, <2>4 DEF CallIsScheduled, lsmVars, bgVars, endVars
<1>4. QED
  BY <1>1, <1>2, <1>3

(* What the writers, the readers and the destructor do keeps it.            *)
LEMMA OthersKeep ==
  ASSUME NEW CONSTANT S, IInv(S), SwitchMemTable \/ SyncError \/ RecordReadSample \/ Destroy \/ Destroyed
  PROVE  IInv(S)'
<1> USE DEF WorkIsScheduled, SleepersAreWoken, WorkToDo, NeedsCompaction, RequestInSlot, CallIsScheduled
<1>1. CASE SwitchMemTable
  BY <1>1 DEF SwitchMemTable, MaybeScheduleCompaction, endVars
<1>2. CASE SyncError
  BY <1>2 DEF SyncError, RecordBackgroundError, lsmVars, bgVars, endVars
<1>3. CASE RecordReadSample
  BY <1>3 DEF RecordReadSample, MaybeScheduleCompaction, endVars
<1>4. CASE Destroy
  BY <1>4 DEF Destroy, lsmVars, bgVars
<1>5. CASE Destroyed
  BY <1>5 DEF Destroyed, lsmVars, bgVars
<1>6. QED
  BY <1>1, <1>2, <1>3, <1>4, <1>5

(* Whatever the threads of a database do, in any order and with any failure *)
(* of its files, keeps the invariant.                                       *)
THEOREM BackgroundInvariant == Spec => []IInv(Compactors)
<1>1. ASSUME IInv(Compactors), [Next]_backVars PROVE IInv(Compactors)'
  <2>1. CASE UNCHANGED backVars
    BY <1>1, <2>1 DEF backVars, lsmVars, bgVars, endVars, RequestInSlot, CallIsScheduled, WorkIsScheduled,
                      SleepersAreWoken, WorkToDo, NeedsCompaction
  <2>2. CASE Background
    BY <1>1, <2>2, BackgroundKeeps
  <2>3. CASE Callers
    BY <1>1, <2>3, CompactorsKeep, OthersKeep DEF Callers
  <2>4. CASE Writers
    BY <1>1, <2>4, OthersKeep DEF Writers
  <2>5. QED
    BY <1>1, <2>1, <2>2, <2>3, <2>4 DEF Next
<1>2. InitBackground => IInv(Compactors)
  BY InitIInv
<1>3. QED
  BY <1>1, <1>2, PTL DEF Spec

(* The variables of the background keep their types; what is left of a      *)
(* request does not fall below nothing.                                     *)
THEOREM TypeCorrect == Spec => []BackgroundTypeOK(Compactors)
<1>1. IInv(Compactors) => BackgroundTypeOK(Compactors)
  OBVIOUS
<1>2. QED
  BY BackgroundInvariant, <1>1, PTL

(* Work is never forgotten (MaybeScheduleCompaction): a flush, a request or *)
(* a compaction to do has the background thread scheduled, for any number   *)
(* of threads and any triggers.                                             *)
THEOREM NoWorkIsForgotten == Spec => []WorkIsScheduled
<1>1. IInv(Compactors) => WorkIsScheduled
  OBVIOUS
<1>2. QED
  BY BackgroundInvariant, <1>1, PTL

(* Once the destructor is past its wait nothing of the background is under  *)
(* way or to come.                                                          *)
THEOREM NothingRunsAfterDestruction == Spec => []QuietWhenDestroyed
<1>1. IInv(Compactors) => QuietWhenDestroyed
  BY DEF QuietWhenDestroyed, CallIsScheduled
<1>2. QED
  BY BackgroundInvariant, <1>1, PTL

(* A thread sleeps on bg_cv_ only while a background call is scheduled, and *)
(* the end of every call signals.                                           *)
THEOREM NoSleeperIsLeft == Spec => []SleepersAreWoken
<1>1. IInv(Compactors) => SleepersAreWoken
  OBVIOUS
<1>2. QED
  BY BackgroundInvariant, <1>1, PTL

-----------------------------------------------------------------------------
(* Writers never see the destructor, and the background keeps its invariant *)
(* with their threads among the sleepers.                                   *)
WriteIInv == IInv(Compactors \union Threads) /\ ~shutting

USE NoneAssumption, TriggerAssumption DEF IInv, BackgroundTypeOK, Request

(* What a step of a writer is for the background: nothing, a sleep while    *)
(* there is work, a switch of the memtable, or an error.                    *)
LEMMA StepForBackground ==
  ASSUME WriteIInv, NEW t \in Threads, Step(t)
  PROVE  \/ UNCHANGED backVars
         \/ /\ ~bgError /\ (imm \/ l0 >= StopTrigger)
            /\ asleep' = asleep \union {t}
            /\ UNCHANGED <<lsmVars, bgError, bgVars, manual, request, endVars>>
         \/ SwitchMemTable
         \/ SyncError
<1>1. CASE EndOfWrite(t)
  BY <1>1 DEF EndOfWrite, SyncError, WriteIInv
<1>2. CASE Woken(t) \/ RoomDenied(t) \/ RoomDelayed(t) \/ HasRoom(t) \/ SwitchFailed(t)
  BY <1>2 DEF Woken, RoomDenied, RoomDelayed, HasRoom, SwitchFailed
<1>3. CASE AddRecord(t) \/ Sync(t) \/ InsertEntry(t) \/ InsertDone(t) \/ FlushReturns(t)
  BY <1>3 DEF AddRecord, Sync, InsertEntry, InsertDone, FlushReturns
<1>4. CASE RoomAwaited(t) \/ FlushAwaited(t)
  BY <1>4 DEF RoomAwaited, FlushAwaited
<1>5. CASE RoomMade(t)
  BY <1>5 DEF RoomMade
<1>6. QED
  BY <1>1, <1>2, <1>3, <1>4, <1>5 DEF Step

(* Writers and the background thread keep the invariant; a writer sleeps    *)
(* for level 0 only when it is due for a compaction (StopAssumption).       *)
THEOREM WriteInvariant == WriteSpec => []WriteIInv
<1>1. WriteInit => WriteIInv
  BY InitIInv DEF WriteInit, InitBackground, WriteIInv
<1>2. ASSUME WriteIInv, [WriteNext]_writeAll PROVE WriteIInv'
  <2> DEFINE S == Compactors \union Threads
  <2>1. Compactors \subseteq S /\ IInv(S) /\ ~shutting
    BY <1>2 DEF WriteIInv
  <2>2. CASE UNCHANGED backVars
    BY <2>1, <2>2 DEF backVars, lsmVars, bgVars, endVars, WriteIInv, RequestInSlot, CallIsScheduled,
                      WorkIsScheduled, SleepersAreWoken, WorkToDo, NeedsCompaction
  <2>3. CASE Background
    <3>1. ~shutting'
      BY <2>1, <2>3 DEF Background, BackgroundCallIdle, BackgroundCall, TableBuilt, FlushApplied, FlushFailed,
                        PrioritizeImm, Merged, CompactionInstalled, CompactionFailed, endVars
    <3>2. QED
      BY <2>1, <2>3, <3>1, BackgroundKeeps DEF WriteIInv
  <2>4. ASSUME NEW t \in Threads, Step(t) PROVE WriteIInv'
    <3>1. CASE /\ ~bgError /\ (imm \/ l0 >= StopTrigger)
               /\ asleep' = asleep \union {t}
               /\ UNCHANGED <<lsmVars, bgError, bgVars, manual, request, endVars>>
      <4>1. scheduled
        BY <2>1, <3>1, StopAssumption DEF WorkIsScheduled, WorkToDo, NeedsCompaction
      <4>2. QED
        BY <2>1, <2>4, <3>1, <4>1 DEF WriteIInv, lsmVars, bgVars, endVars, RequestInSlot, CallIsScheduled,
                                      WorkIsScheduled, SleepersAreWoken, WorkToDo, NeedsCompaction
    <3>2. CASE SwitchMemTable \/ SyncError
      <4>1. ~shutting'
        BY <2>1, <3>2 DEF SwitchMemTable, SyncError, endVars
      <4>2. QED
        BY <2>1, <3>2, <4>1, OthersKeep DEF WriteIInv
    <3>3. QED
      BY <1>2, <2>2, <2>4, <3>1, <3>2, StepForBackground
  <2>5. ASSUME NEW t \in Threads, CallWrite(t) PROVE WriteIInv'
    BY <2>2, <2>5 DEF CallWrite, Write
  <2>6. QED
    BY <1>2, <2>2, <2>3, <2>4, <2>5 DEF WriteNext, writeAll
<1>3. QED
  BY <1>1, <1>2, PTL DEF WriteSpec

(* The work that writers make is never forgotten, for any number of them.   *)
THEOREM WritersWorkIsScheduled == WriteSpec => []WorkIsScheduled
<1>1. WriteIInv => WorkIsScheduled
  BY DEF WriteIInv
<1>2. QED
  BY WriteInvariant, <1>1, PTL

(* No writer waits for room, and no thread for a flush, while nothing of    *)
(* the background is scheduled that would signal it: with StopTrigger below *)
(* Trigger it would.                                                        *)
THEOREM NoWriterIsLeft == WriteSpec => []SleepersAreWoken
<1>1. WriteIInv => SleepersAreWoken
  BY DEF WriteIInv
<1>2. QED
  BY WriteInvariant, <1>1, PTL

-----------------------------------------------------------------------------
HIDE DEF IInv, BackgroundTypeOK, Request

Places == {"idle", "wait", "room", "log", "sync", "insert", "end", "immwait"}

(* A thread in Write or TEST_CompactMemTable is at a call of its own.       *)
OwnCall(t) ==
  at[t] # "idle" => call[t] \in 1..Len(ops) /\ ops[call[t]].thread = t

QueueIInv ==
  /\ ops \in Seq([thread : Threads, sync : BOOLEAN, null : BOOLEAN, count : Nat])
  /\ writers \in Seq(Nat)
  /\ group \in Nat
  /\ at \in [Threads -> Places]
  /\ call \in [Threads -> Nat]
  /\ \A t \in Threads : OwnCall(t) /\ (AtWork(t) => IsFirst(t))

(* A group is a number of writers.                                          *)
LEMMA GroupTaken ==
  ASSUME writers \in Seq(Nat)
  PROVE  BuildBatchGroup \in Nat
<1> DEFINE joins(j) == /\ ops[writers[j]].sync => ops[Head(writers)].sync
                       /\ ~ops[writers[j]].null => Entries({writers[i] : i \in 1..j}) <= MaxGroup
           Group    == {k \in 1..Len(writers) : \A j \in 2..k : joins(j)}
<1>1. Group \subseteq 1..Len(writers) /\ IsFiniteSet(1..Len(writers))
  BY FS_Interval
<1>2. Cardinality(Group) \in Nat
  BY <1>1, FS_Subset, FS_CardinalityType
<1>3. QED
  BY <1>2 DEF BuildBatchGroup

(* Two threads at work would both be at the first call of the queue.        *)
LEMMA AtWorkAlone ==
  ASSUME QueueIInv, NEW t \in Threads, NEW u \in Threads, AtWork(t), AtWork(u)
  PROVE  t = u
<1>1. at[t] # "idle" /\ at[u] # "idle"
  BY DEF AtWork
<1>2. call[t] = call[u]
  BY DEF QueueIInv, IsFirst
<1>3. ops[call[t]].thread = t /\ ops[call[u]].thread = u
  BY <1>1 DEF QueueIInv, OwnCall
<1>4. QED
  BY <1>2, <1>3

(* The end of a first writer's call leaves nobody at work.                  *)
LEMMA PopKeeps ==
  ASSUME QueueIInv, NEW t \in Threads, AtWork(t), NEW k \in Nat, NEW ok, Pop(t, k, ok)
  PROVE  QueueIInv'
<1>1. at' \in [Threads -> Places] /\ at'[t] \in {"idle", "immwait"} /\ UNCHANGED <<ops, call>>
  BY DEF Pop, QueueIInv, Places
<1>2. \A u \in Threads : OwnCall(u)'
  BY <1>1 DEF Pop, QueueIInv, OwnCall, AtWork
<1>3. \A u \in Threads : ~AtWork(u)'
  BY <1>1, AtWorkAlone DEF Pop, QueueIInv, AtWork
<1>4. writers' \in Seq(Nat)
  BY SubSeqProperties DEF Pop, QueueIInv
<1>5. group' \in Nat
  BY DEF Pop
<1>6. QED
  BY <1>1, <1>2, <1>3, <1>4, <1>5 DEF QueueIInv

(* A thread that joins an empty queue is the first.                         *)
LEMMA WriteKeeps ==
  ASSUME QueueIInv, NEW t \in Threads, CallWrite(t)
  PROVE  QueueIInv'
<1>1. PICK r \in Requests[t] : Write(t, r)
  BY DEF CallWrite
<1>2. r.sync \in BOOLEAN /\ r.null \in BOOLEAN /\ r.count \in Nat
  BY RequestsAssumption
<1> DEFINE c == [thread |-> t, sync |-> r.sync, null |-> r.null, count |-> r.count]
<1>3. /\ ops' = Append(ops, c) /\ Len(ops') = Len(ops) + 1 /\ Len(ops) \in Nat
      /\ \A n \in 1..Len(ops) : ops'[n] = ops[n]
      /\ ops'[Len(ops')] = c
  BY <1>1 DEF Write, QueueIInv
<1>4. ops' \in Seq([thread : Threads, sync : BOOLEAN, null : BOOLEAN, count : Nat])
  BY <1>2, <1>3 DEF QueueIInv
<1>5. writers' = Append(writers, Len(ops')) /\ writers' \in Seq(Nat)
  BY <1>1, <1>3 DEF Write, QueueIInv
<1>6. /\ call' = [call EXCEPT ![t] = Len(ops')] /\ call' \in [Threads -> Nat]
      /\ at[t] = "idle" /\ at' = [at EXCEPT ![t] = IF writers = << >> THEN "room" ELSE "wait"]
      /\ at' \in [Threads -> Places]
  BY <1>1, <1>3 DEF Write, QueueIInv, Places
<1>7. ASSUME NEW u \in Threads PROVE OwnCall(u)' /\ (AtWork(u)' => IsFirst(u)')
  <2>1. CASE u = t
    <3>1. call'[u] = Len(ops') /\ call'[u] \in 1..Len(ops') /\ ops'[call'[u]].thread = u
      BY <1>3, <1>6, <2>1 DEF QueueIInv
    <3>2. AtWork(u)' => writers = << >>
      BY <1>6, <2>1 DEF AtWork, QueueIInv
    <3>3. writers = << >> => writers' = << Len(ops') >>
      BY <1>5
    <3>4. QED
      BY <3>1, <3>2, <3>3 DEF OwnCall, IsFirst
  <2>2. CASE u # t
    <3>1. at'[u] = at[u] /\ call'[u] = call[u]
      BY <1>6, <2>2 DEF QueueIInv
    <3>2. OwnCall(u)'
      BY <1>3, <3>1 DEF QueueIInv, OwnCall
    <3>3. writers # << >> => writers' # << >> /\ Head(writers') = Head(writers)
      BY <1>3, <1>5 DEF QueueIInv
    <3>4. QED
      BY <3>1, <3>2, <3>3 DEF QueueIInv, AtWork, IsFirst
  <2>3. QED
    BY <2>1, <2>2
<1>8. group' \in Nat
  BY <1>1 DEF Write, QueueIInv
<1>9. QED
  BY <1>4, <1>5, <1>6, <1>7, <1>8 DEF QueueIInv

(* A step that leaves the queue alone keeps a first writer at work, or      *)
(* takes a thread to work only when it is the first.                        *)
LEMMA MoveKeeps ==
  ASSUME QueueIInv, NEW t \in Threads, UNCHANGED <<ops, call, writers>>, group' \in Nat,
         NEW to \in Places, at' = [at EXCEPT ![t] = to], at[t] # "idle",
         to \in {"room", "log", "sync", "insert", "end"} => IsFirst(t)
  PROVE  QueueIInv'
<1>1. at' \in [Threads -> Places] /\ at'[t] = to
      /\ \A u \in Threads \ {t} : at'[u] = at[u]
  BY DEF QueueIInv
<1>2. \A u \in Threads : OwnCall(u)'
  BY <1>1 DEF QueueIInv, OwnCall
<1>3. \A u \in Threads : AtWork(u)' => IsFirst(u)'
  BY <1>1 DEF QueueIInv, AtWork, IsFirst
<1>4. QED
  BY <1>1, <1>2, <1>3 DEF QueueIInv

LEMMA StepKeeps ==
  ASSUME QueueIInv, NEW t \in Threads, Step(t)
  PROVE  QueueIInv'
<1>0. /\ AtWork(t) => IsFirst(t)
      /\ at \in [Threads -> Places] /\ group \in Nat /\ BuildBatchGroup \in Nat
  BY GroupTaken DEF QueueIInv
<1>1. CASE Woken(t)
  <2> DEFINE to == IF outcome[call[t]] = "ok" /\ ops[call[t]].null THEN "immwait"
                   ELSE IF outcome[call[t]] # "none" THEN "idle"
                   ELSE IF IsFirst(t) THEN "room" ELSE "wait"
  <2>1. /\ to \in Places /\ at' = [at EXCEPT ![t] = to] /\ at[t] # "idle"
        /\ to \in {"room", "log", "sync", "insert", "end"} => IsFirst(t)
        /\ UNCHANGED <<ops, call, writers, group>>
    BY <1>1 DEF Woken, Places
  <2>2. QED
    BY <1>0, <2>1, MoveKeeps
<1>2. CASE RoomDenied(t) \/ SwitchFailed(t)
  <2>1. AtWork(t) /\ Pop(t, 1, FALSE)
    BY <1>2 DEF RoomDenied, SwitchFailed, InRoom, AtWork
  <2>2. QED
    BY <2>1, PopKeeps
<1>3. CASE \/ RoomDelayed(t) \/ RoomAwaited(t) \/ InsertEntry(t) \/ FlushAwaited(t)
  <2>1. UNCHANGED <<ops, at, call, writers, group>>
    BY <1>3 DEF RoomDelayed, RoomAwaited, InsertEntry, FlushAwaited, writeVars, queueVars
  <2>2. QED
    BY <2>1 DEF QueueIInv, OwnCall, AtWork, IsFirst
<1>4. ASSUME TakeGroup(t), InRoom(t) PROVE QueueIInv'
  BY <1>0, <1>4, MoveKeeps DEF TakeGroup, InRoom, AtWork, Places
<1>5. CASE HasRoom(t)
  BY <1>4, <1>5 DEF HasRoom
<1>6. CASE RoomMade(t)
  <2>1. CASE ops[call[t]].null
    <3>1. AtWork(t) /\ Pop(t, 1, TRUE)
      BY <1>6, <2>1 DEF RoomMade, InRoom, AtWork
    <3>2. QED
      BY <3>1, PopKeeps
  <2>2. CASE ~ops[call[t]].null
    BY <1>4, <1>6, <2>2 DEF RoomMade
  <2>3. QED
    BY <2>1, <2>2
<1>7. CASE AddRecord(t) \/ Sync(t) \/ InsertDone(t)
  <2>1. PICK to \in {"end", "sync", "insert"} : at' = [at EXCEPT ![t] = to]
    BY <1>7 DEF AddRecord, Sync, InsertDone
  <2>2. AtWork(t) /\ at[t] # "idle" /\ UNCHANGED <<ops, call, writers, group>>
    BY <1>7 DEF AddRecord, Sync, InsertDone, AtWork, dataVars
  <2>3. QED
    BY <1>0, <2>1, <2>2, MoveKeeps DEF Places
<1>8. CASE EndOfWrite(t)
  <2>1. AtWork(t) /\ Pop(t, group, pending)
    BY <1>8 DEF EndOfWrite, AtWork
  <2>2. QED
    BY <1>0, <2>1, PopKeeps
<1>9. CASE FlushReturns(t)
  <2>1. /\ at[t] # "idle" /\ at' = [at EXCEPT ![t] = "idle"]
        /\ UNCHANGED <<ops, call, writers, group>>
    BY <1>9 DEF FlushReturns
  <2>2. QED
    BY <1>0, <2>1, MoveKeeps DEF Places
<1>10. QED
  BY <1>1, <1>2, <1>3, <1>5, <1>6, <1>7, <1>8, <1>9 DEF Step

(* The log and the memtable have one writer at a time, though they are      *)
(* written without the mutex: only the first of the queue works, every      *)
(* thread stands in the queue with a call of its own, and nobody is at work *)
(* when the first leaves.                                                   *)
THEOREM LogHasOneWriter == WriteSpec => []OneLogger
<1>1. WriteInit => QueueIInv
  BY DEF WriteInit, InitWrites, QueueIInv, OwnCall, AtWork, Places
<1>2. ASSUME QueueIInv, [WriteNext]_writeAll PROVE QueueIInv'
  <2>1. CASE UNCHANGED writeVars
    BY <1>2, <2>1 DEF writeVars, queueVars, QueueIInv, OwnCall, AtWork, IsFirst
  <2>2. QED
    BY <1>2, <2>1, WriteKeeps, StepKeeps DEF WriteNext, writeAll
<1>3. QueueIInv => OneLogger
  BY AtWorkAlone DEF QueueIInv, OneLogger
<1>4. QED
  BY <1>1, <1>2, <1>3, PTL DEF WriteSpec

-----------------------------------------------------------------------------
(* What the queue and the data are to each other, for any number of threads *)
(* and of calls.                                                            *)

(* The queue is the calls not answered yet, in their order.                 *)
Answered == Len(ops) - Len(writers)

QueueIsTail ==
  /\ Len(writers) <= Len(ops)
  /\ \A i \in 1..Len(writers) : writers[i] = Answered + i
  /\ outcome \in Seq({"none", "ok", "error"}) /\ Len(outcome) = Len(ops)
  /\ \A n \in 1..Len(ops) : outcome[n] # "none" <=> n <= Answered

(* The calls of the group, none of which wants a sync that the first does   *)
(* not make.                                                                *)
Grouping(t) == at[t] \in {"log", "sync", "insert", "end"}

GroupInQueue ==
  /\ group \in 0..Len(writers)
  /\ \A t \in Threads : Grouping(t) =>
       /\ group > 0
       /\ \A j \in 1..group : ops[writers[j]].sync => ops[call[t]].sync

(* A set of naturals has a least one.  (The library's relation < is an      *)
(* operator; its set of pairs can be cited.)                                *)
NatBefore == {pair \in Nat \X Nat : pair[1] < pair[2]}

LEMMA LeastNumber ==
  ASSUME NEW T, T \subseteq Nat, T # {}
  PROVE  \E m \in T : \A n \in T : m <= n
<1>1. IsWellFoundedOn(NatBefore, Nat)
  BY NatLessThanWellFounded DEF OpToRel, NatBefore
<1>2. PICK m \in T : \A n \in T : <<n, m>> \notin NatBefore
  BY <1>1, WFMin
<1>3. ASSUME NEW n \in T PROVE m <= n
  <2>1. <<n, m>> \in Nat \X Nat /\ <<n, m>>[1] = n /\ <<n, m>>[2] = m
    OBVIOUS
  <2>2. ~(n < m)
    BY <1>2, <2>1 DEF NatBefore
  <2>3. QED
    BY <2>2
<1>4. QED
  BY <1>3

(* A set of the first numbers has as many elements as its greatest is.      *)
LEMMA PrefixSize ==
  ASSUME NEW n \in Nat, NEW G, G \subseteq 1..n, \A k \in G : \A j \in 1..k : j \in G
  PROVE  Cardinality(G) \in 0..n /\ G = 1..Cardinality(G)
<1>. DEFINE Out == {k \in 1..(n + 1) : k \notin G}
<1>1. PICK m \in Out : \A k \in Out : m <= k
  <2>1. Out \subseteq Nat /\ n + 1 \in Out
    OBVIOUS
  <2>. HIDE DEF Out
  <2>2. QED
    BY <2>1, LeastNumber
<1>2. \A k \in 1..(m - 1) : k \in G
  BY <1>1
<1>3. \A k \in G : k < m
  BY <1>1
<1>4. G = 1..(m - 1)
  <2>1. m \in Nat /\ \A k \in G : k \in 1..(m - 1)
    BY <1>1, <1>3
  <2>2. QED
    BY <1>2, <2>1
<1>5. Cardinality(1..(m - 1)) = m - 1
  BY <1>1, FS_Interval
<1>6. QED
  BY <1>1, <1>4, <1>5

(* The group is the first of the queue and those that may join it.          *)
LEMMA GroupOfWriters ==
  ASSUME writers \in Seq(Nat), writers # << >>
  PROVE  /\ BuildBatchGroup \in 1..Len(writers)
         /\ \A j \in 2..BuildBatchGroup : ops[writers[j]].sync => ops[Head(writers)].sync
<1>. DEFINE joins(j) == /\ ops[writers[j]].sync => ops[Head(writers)].sync
                        /\ ~ops[writers[j]].null => Entries({writers[i] : i \in 1..j}) <= MaxGroup
            G == {k \in 1..Len(writers) : \A j \in 2..k : joins(j)}
<1>. HIDE DEF joins
<1>1. Len(writers) \in Nat /\ 1 \in G
  OBVIOUS
<1>2. ASSUME NEW k \in G, NEW j \in 1..k PROVE j \in G
  OBVIOUS
<1>3. G \subseteq 1..Len(writers)
  OBVIOUS
<1>. HIDE DEF G
<1>4. Cardinality(G) \in 0..Len(writers) /\ G = 1..Cardinality(G)
  BY <1>1, <1>2, <1>3, PrefixSize
<1>5. Cardinality(G) \in G
  BY <1>1, <1>4
<1>6. BuildBatchGroup = Cardinality(G)
  BY DEF BuildBatchGroup, G, joins
<1>7. \A j \in 2..Cardinality(G) : joins(j)
  BY <1>5 DEF G
<1>8. QED
  BY <1>4, <1>5, <1>6, <1>7 DEF joins, G

(* What was logged and inserted, for the proofs of the data.                *)
EntryRecord == [call : Nat, entry : Nat, seq : Nat]
Pair(e) == <<e.call, e.entry>>
Logging(t) == at[t] \in {"sync", "insert", "end"}
Filling(t) == at[t] \in {"insert", "end"}

DataTypes ==
  /\ mem \in Seq(EntryRecord) /\ inserted \in Seq(EntryRecord)
  /\ lastSequence \in Nat
  /\ log \in Seq([first : Nat, calls : SUBSET (1..Len(ops))])
  /\ \A n \in 1..Len(ops) : ops[n].null => ops[n].count = 0

(* Records do not overlap, and only the one of the group at work is beyond  *)
(* the last sequence.                                                       *)
AfterRecord(i) == log[i].first + Entries(log[i].calls)

LogIsInOrder ==
  /\ \A i \in 1..(Len(log) - 1) : AfterRecord(i) <= log[i + 1].first
  /\ \A i \in 1..Len(log) :
       AfterRecord(i) <= lastSequence + 1 + (IF \E t \in Threads : Logging(t) THEN Entries(Batches(group)) ELSE 0)
  /\ (\E t \in Threads : at[t] \in {"sync", "insert"}) =>
       Len(log) > 0 /\ log[Len(log)] = [first |-> lastSequence + 1, calls |-> Batches(group)]

(* The memtable is beyond the last sequence by the first entries of the     *)
(* group at work: all of them in the end, or none after an error.           *)
Replayed(e, record) ==
  /\ Pair(e) \in EntriesOf(record.calls)
  /\ e.seq = record.first + Cardinality({f \in EntriesOf(record.calls) : Before(f, Pair(e))})

MemIsReplayed ==
  /\ \A i \in 1..(Len(mem) - 1) : mem[i].seq < mem[i + 1].seq
  /\ \A i \in 1..Len(mem) : \E j \in 1..Len(log) : Replayed(mem[i], log[j])
  /\ \A i \in 1..Len(mem) : mem[i].seq <= lastSequence + Cardinality(Progress)

ProgressOfGroup ==
  /\ Progress \subseteq EntriesOf(Batches(group))
  /\ \A e \in Progress : \A f \in Remaining : Before(e, f)
  /\ (\A t \in Threads : ~Filling(t)) => Progress = {}
  /\ \A t \in Threads : at[t] \in {"sync", "insert"} => pending
  /\ \A t \in Threads : at[t] = "end" => IF pending THEN Remaining = {} ELSE Progress = {}

(* Every entry was inserted once, and is in sight when its call was         *)
(* answered ok.                                                             *)
InsertedOnce ==
  /\ \A i \in 1..Len(inserted) :
       /\ inserted[i].call \in 1..Len(ops)
       /\ IF inserted[i].seq > lastSequence THEN \E j \in 1..Len(mem) : mem[j] = inserted[i]
                                            ELSE outcome[inserted[i].call] = "ok"
  /\ \A i, j \in 1..Len(inserted) : Pair(inserted[i]) = Pair(inserted[j]) => i = j
  /\ \A e \in Progress : \E i \in 1..Len(inserted) : Pair(inserted[i]) = e
  /\ \A n \in 1..Len(ops) : outcome[n] = "ok" =>
       \A e \in 1..ops[n].count : \E i \in 1..Len(inserted) : Pair(inserted[i]) = <<n, e>>

(* The group of a first writer that syncs is synced before it is answered,  *)
(* and after a failed Sync() nobody gets so far.                            *)
GroupIsSynced ==
  /\ SyncedWhenAcked
  /\ \A t \in Threads :
       (at[t] = "insert" \/ (at[t] = "end" /\ pending)) /\ ops[call[t]].sync => Batches(group) \subseteq durable
  /\ syncFailed =>
       /\ \A t \in Threads : at[t] \notin {"log", "sync", "insert"} /\ (at[t] = "end" => ~pending)
       /\ bgError \/ \E t \in Threads : at[t] = "end"

DataInv ==
  /\ QueueIsTail /\ GroupInQueue /\ DataTypes
  /\ LogIsInOrder /\ MemIsReplayed /\ ProgressOfGroup /\ InsertedOnce /\ GroupIsSynced

(* The entries of calls: pairs, finitely many.                              *)
LEMMA EntryPairs ==
  ASSUME NEW calls
  PROVE  /\ \A e \in EntriesOf(calls) : e = <<e[1], e[2]>> /\ e[1] \in calls /\ e[2] \in 1..ops[e[1]].count
         /\ \A n \in calls : \A k \in 1..ops[n].count : <<n, k>> \in EntriesOf(calls)
BY DEF EntriesOf

LEMMA OpTypes ==
  ASSUME QueueIInv
  PROVE  /\ Len(ops) \in Nat /\ Len(writers) \in Nat
         /\ \A n \in 1..Len(ops) : ops[n].count \in Nat
<1>. DEFINE Op == [thread : Threads, sync : BOOLEAN, null : BOOLEAN, count : Nat]
<1>1. ops \in Seq(Op) /\ writers \in Seq(Nat)
  BY DEF QueueIInv
<1>2. \A o \in Op : o.count \in Nat
  OBVIOUS
<1>. HIDE DEF Op
<1>3. Len(ops) \in Nat /\ Len(writers) \in Nat /\ \A n \in 1..Len(ops) : ops[n] \in Op
  BY <1>1
<1>4. QED
  BY <1>2, <1>3

LEMMA EntriesFinite ==
  ASSUME QueueIInv, NEW calls \in SUBSET (1..Len(ops))
  PROVE  IsFiniteSet(EntriesOf(calls)) /\ Entries(calls) \in Nat
<1>. DEFINE E(n) == {n} \X (1..ops[n].count)
            All == {E(n) : n \in calls}
<1>1. Len(ops) \in Nat /\ \A n \in calls : ops[n].count \in Nat
  BY OpTypes
<1>2. IsFiniteSet(calls)
  <2>1. IsFiniteSet(1..Len(ops))
    BY <1>1, FS_Interval
  <2>2. QED
    BY <2>1, FS_Subset
<1>3. ASSUME NEW n \in calls PROVE IsFiniteSet(E(n))
  <2>1. IsFiniteSet(1..ops[n].count)
    <3>1. ops[n].count \in Int /\ 1 \in Int
      BY <1>1
    <3>2. QED
      BY <3>1, FS_Interval
  <2>2. IsFiniteSet({n})
    BY FS_Singleton
  <2>3. QED
    BY <2>1, <2>2, FS_Product
<1>. HIDE DEF E
<1>4. IsFiniteSet(All)
  <2>. DEFINE f == [n \in calls |-> E(n)]
  <2>1. f \in Surjection(calls, All)
    BY DEF Surjection
  <2>2. QED
    BY <1>2, <2>1, FS_Surjection
<1>5. IsFiniteSet(UNION All)
  BY <1>3, <1>4, FS_UNION
<1>6. EntriesOf(calls) = UNION All
  BY DEF EntriesOf, E
<1>7. QED
  BY <1>5, <1>6, FS_CardinalityType DEF Entries

(* The calls of the group are those after the ones answered.                *)
LEMMA BatchesInQueue ==
  ASSUME QueueIInv, QueueIsTail, NEW k \in 0..Len(writers)
  PROVE  Batches(k) = {n \in (Answered + 1)..(Answered + k) : ~ops[n].null} /\ Batches(k) \subseteq 1..Len(ops)
<1>1. Len(ops) \in Nat /\ Len(writers) \in Nat /\ Answered \in Nat
  BY DEF QueueIInv, QueueIsTail, Answered
<1>2. {writers[i] : i \in 1..k} = (Answered + 1)..(Answered + k)
  <2>1. \A i \in 1..k : writers[i] = Answered + i
    BY <1>1 DEF QueueIsTail
  <2>2. \A n \in (Answered + 1)..(Answered + k) : n - Answered \in 1..k /\ writers[n - Answered] = n
    BY <1>1, <2>1
  <2>3. QED
    BY <1>1, <2>1, <2>2
<1>3. Batches(k) = {n \in (Answered + 1)..(Answered + k) : ~ops[n].null}
  BY <1>2 DEF Batches
<1>4. (Answered + 1)..(Answered + k) \subseteq 1..Len(ops)
  BY <1>1 DEF Answered
<1>5. QED
  BY <1>3, <1>4

(* A step that leaves the queue and the data alone, of threads that have    *)
(* taken no group.                                                          *)
LEMMA StillKeeps ==
  ASSUME DataInv, UNCHANGED <<ops, call, writers, group, pending, outcome, dataVars, historyVars>>,
         \A u \in Threads : at'[u] = at[u] \/ (~Grouping(u) /\ ~Grouping(u)'),
         bgError => bgError'
  PROVE  DataInv'
<1>0. /\ Batches(group)' = Batches(group) /\ Progress' = Progress
      /\ Remaining' = Remaining /\ EntriesOf(Batches(group))' = EntriesOf(Batches(group))
      /\ Entries(Batches(group))' = Entries(Batches(group))
  BY DEF Batches, Progress, Remaining, EntriesOf, Entries, dataVars
<1>1. /\ \A u \in Threads : Grouping(u)' <=> Grouping(u)
      /\ \A u \in Threads : Logging(u)' <=> Logging(u)
      /\ \A u \in Threads : Filling(u)' <=> Filling(u)
      /\ \A u \in Threads : \A p \in {"log", "sync", "insert", "end"} : at'[u] = p <=> at[u] = p
  BY DEF Grouping, Logging, Filling
<1>2. QueueIsTail' /\ GroupInQueue' /\ DataTypes'
  BY <1>1 DEF DataInv, QueueIsTail, Answered, GroupInQueue, DataTypes, dataVars, historyVars, EntryRecord
<1>3. LogIsInOrder'
  <2>1. \A i : AfterRecord(i)' = AfterRecord(i)
    BY DEF AfterRecord, Entries, EntriesOf, dataVars
  <2>2. QED
    BY <1>0, <1>1, <2>1 DEF DataInv, LogIsInOrder, dataVars
<1>4. MemIsReplayed'
  <2>1. \A i, j : Replayed(mem[i], log[j])' <=> Replayed(mem[i], log[j])
    BY DEF Replayed, Pair, EntriesOf, dataVars
  <2>2. QED
    BY <1>0, <2>1 DEF DataInv, MemIsReplayed, dataVars
<1>5. ProgressOfGroup'
  BY <1>0, <1>1 DEF DataInv, ProgressOfGroup
<1>6. InsertedOnce'
  BY <1>0 DEF DataInv, InsertedOnce, Pair, dataVars, historyVars
<1>7. GroupIsSynced'
  BY <1>0, <1>1 DEF DataInv, GroupIsSynced, SyncedWhenAcked, historyVars
<1>8. QED
  BY <1>2, <1>3, <1>4, <1>5, <1>6, <1>7 DEF DataInv

LEMMA LogTypes ==
  ASSUME DataInv
  PROVE  /\ Len(log) \in Nat
         /\ \A i \in 1..Len(log) : log[i].first \in Nat /\ log[i].calls \in SUBSET (1..Len(ops))
<1>. DEFINE R == [first : Nat, calls : SUBSET (1..Len(ops))]
<1>1. log \in Seq(R)
  BY DEF DataInv, DataTypes
<1>2. \A r \in R : r.first \in Nat /\ r.calls \in SUBSET (1..Len(ops))
  OBVIOUS
<1>. HIDE DEF R
<1>3. Len(log) \in Nat /\ \A i \in 1..Len(log) : log[i] \in R
  BY <1>1
<1>4. QED
  BY <1>2, <1>3

(* A call that is made changes nothing of the calls before it.              *)
LEMMA WriteKeepsData ==
  ASSUME QueueIInv, DataInv, NEW t \in Threads, CallWrite(t)
  PROVE  DataInv'
<1>1. PICK r \in Requests[t] : Write(t, r)
  BY DEF CallWrite
<1>2. r.sync \in BOOLEAN /\ r.null \in BOOLEAN /\ r.count \in Nat /\ (r.null => r.count = 0)
  BY RequestsAssumption
<1> DEFINE c == [thread |-> t, sync |-> r.sync, null |-> r.null, count |-> r.count]
<1>3. /\ Len(ops) \in Nat /\ Len(writers) \in Nat /\ Len(writers) <= Len(ops)
      /\ Len(ops') = Len(ops) + 1 /\ Len(writers') = Len(writers) + 1 /\ Len(outcome') = Len(ops')
      /\ \A n \in 1..Len(ops) : ops'[n] = ops[n] /\ outcome'[n] = outcome[n]
      /\ ops'[Len(ops) + 1] = c /\ outcome'[Len(ops) + 1] = "none" /\ writers'[Len(writers) + 1] = Len(ops) + 1
      /\ \A i \in 1..Len(writers) : writers'[i] = writers[i]
      /\ outcome' \in Seq({"none", "ok", "error"})
  BY <1>1 DEF Write, QueueIInv, DataInv, QueueIsTail
<1>4. /\ at \in [Threads -> Places] /\ at[t] = "idle" /\ at'[t] \in {"wait", "room"}
      /\ \A u \in Threads \ {t} : at'[u] = at[u] /\ call'[u] = call[u]
      /\ UNCHANGED <<group, pending, lastSequence, log, mem, durable, inserted, syncFailed, bgError>>
  BY <1>1 DEF Write, QueueIInv, dataVars, historyVars, backVars
<1>5. \A u \in Threads : /\ Grouping(u)' <=> Grouping(u)
                         /\ Logging(u)' <=> Logging(u)
                         /\ Filling(u)' <=> Filling(u)
                         /\ \A p \in {"log", "sync", "insert", "end"} : at'[u] = p <=> at[u] = p
                         /\ Grouping(u) => u # t
  BY <1>4 DEF Grouping, Logging, Filling
<1>6. QueueIsTail'
  <2>1. Answered' = Answered /\ Answered = Len(ops) - Len(writers)
    BY <1>3 DEF Answered
  <2>2. ASSUME NEW i \in 1..Len(writers') PROVE writers'[i] = Answered + i
    <3>1. CASE i \in 1..Len(writers)
      BY <1>3, <3>1 DEF DataInv, QueueIsTail
    <3>2. CASE i = Len(writers) + 1
      BY <1>3, <2>1, <3>2
    <3>3. QED
      BY <1>3, <3>1, <3>2
  <2>3. ASSUME NEW n \in 1..Len(ops') PROVE outcome'[n] # "none" <=> n <= Answered
    <3>1. CASE n \in 1..Len(ops)
      BY <1>3, <3>1 DEF DataInv, QueueIsTail
    <3>2. CASE n = Len(ops) + 1
      BY <1>3, <2>1, <3>2
    <3>3. QED
      BY <1>3, <3>1, <3>2
  <2>4. QED
    BY <1>3, <2>1, <2>2, <2>3 DEF QueueIsTail
<1>7. group \in 0..Len(writers) /\ Batches(group)' = Batches(group) /\ Batches(group) \subseteq 1..Len(ops)
  <2>1. group \in 0..Len(writers) /\ Batches(group) \subseteq 1..Len(ops)
    BY BatchesInQueue DEF DataInv, GroupInQueue
  <2>2. \A i \in 1..group : writers'[i] = writers[i] /\ writers[i] \in 1..Len(ops)
    <3>1. \A i \in 1..group : i \in 1..Len(writers)
      BY <1>3, <2>1
    <3>2. \A i \in 1..Len(writers) : writers[i] \in 1..Len(ops)
      BY <1>3 DEF DataInv, QueueIsTail, Answered
    <3>3. QED
      BY <1>3, <3>1, <3>2
  <2>3. {writers'[i] : i \in 1..group} = {writers[i] : i \in 1..group}
    BY <2>2
  <2>4. \A n \in {writers[i] : i \in 1..group} : n \in 1..Len(ops)
    BY <2>2
  <2>5. QED
    BY <1>3, <1>4, <2>1, <2>2, <2>3, <2>4 DEF Batches
<1>8. ASSUME NEW calls \in SUBSET (1..Len(ops))
      PROVE  UNION {{n} \X (1..ops'[n].count) : n \in calls} = EntriesOf(calls)
  BY <1>3 DEF EntriesOf
<1>9. /\ EntriesOf(Batches(group))' = EntriesOf(Batches(group)) /\ Entries(Batches(group))' = Entries(Batches(group))
      /\ Progress' = Progress /\ Remaining' = Remaining
  <2>1. EntriesOf(Batches(group))' = EntriesOf(Batches(group))
    BY <1>7, <1>8 DEF EntriesOf
  <2>2. Progress' = Progress
    BY <1>4 DEF Progress
  <2>3. QED
    BY <2>1, <2>2 DEF Entries, Remaining
<1>10. GroupInQueue'
  <2>1. \A u \in Threads : Grouping(u) =>
          call[u] \in 1..Len(ops) /\ call'[u] = call[u]
    BY <1>4, <1>5 DEF QueueIInv, OwnCall, Grouping
  <2>2. \A j \in 1..group : writers'[j] = writers[j] /\ writers[j] \in 1..Len(ops)
    <3>1. \A j \in 1..group : j \in 1..Len(writers)
      BY <1>3, <1>7
    <3>2. \A j \in 1..Len(writers) : writers[j] \in 1..Len(ops)
      BY <1>3 DEF DataInv, QueueIsTail, Answered
    <3>3. QED
      BY <1>3, <3>1, <3>2
  <2>3. group' \in 0..Len(writers')
    BY <1>3, <1>4, <1>7
  <2>4. ASSUME NEW u \in Threads, Grouping(u)'
        PROVE  group > 0 /\ \A j \in 1..group : ops'[writers'[j]].sync => ops'[call'[u]].sync
    <3>1. group > 0 /\ \A j \in 1..group : ops[writers[j]].sync => ops[call[u]].sync
      BY <1>5, <2>4 DEF DataInv, GroupInQueue
    <3>2. ops'[call'[u]] = ops[call[u]]
      BY <1>3, <1>5, <2>1, <2>4
    <3>3. \A j \in 1..group : ops'[writers'[j]] = ops[writers[j]]
      BY <1>3, <2>2
    <3>4. QED
      BY <3>1, <3>2, <3>3
  <2>5. QED
    BY <1>4, <2>3, <2>4 DEF GroupInQueue
<1>11. DataTypes'
  <2>1. ASSUME NEW n \in 1..Len(ops') PROVE ops'[n].null => ops'[n].count = 0
    <3>1. CASE n \in 1..Len(ops)
      BY <1>3, <3>1 DEF DataInv, DataTypes
    <3>2. CASE n = Len(ops) + 1
      BY <1>2, <1>3, <3>2
    <3>3. QED
      BY <1>3, <3>1, <3>2
  <2>2. log \in Seq([first : Nat, calls : SUBSET (1..Len(ops'))])
    <3>1. [first : Nat, calls : SUBSET (1..Len(ops))] \subseteq [first : Nat, calls : SUBSET (1..Len(ops'))]
      BY <1>3
    <3>2. log \in Seq([first : Nat, calls : SUBSET (1..Len(ops))])
      BY DEF DataInv, DataTypes
    <3>3. \A S, T, s : S \subseteq T /\ s \in Seq(S) => s \in Seq(T)
      OBVIOUS
    <3>4. QED
      BY <3>1, <3>2, <3>3
  <2>3. QED
    BY <1>4, <2>1, <2>2 DEF DataInv, DataTypes, EntryRecord
<1>12. \A i \in 1..Len(log) : log[i].calls \in SUBSET (1..Len(ops))
  BY LogTypes
<1>13. LogIsInOrder'
  <2>1. \A i \in 1..Len(log) : AfterRecord(i)' = AfterRecord(i)
    BY <1>4, <1>8, <1>12 DEF AfterRecord, Entries, EntriesOf
  <2>2. \A i \in 1..(Len(log) - 1) : i \in 1..Len(log)
    BY LogTypes
  <2>3. QED
    BY <1>4, <1>5, <1>7, <1>9, <2>1, <2>2 DEF DataInv, LogIsInOrder
<1>14. MemIsReplayed'
  <2>1. \A i, j : j \in 1..Len(log) => (Replayed(mem[i], log[j])' <=> Replayed(mem[i], log[j]))
    BY <1>4, <1>8, <1>12 DEF Replayed, Pair, EntriesOf
  <2>2. QED
    BY <1>4, <1>9, <2>1 DEF DataInv, MemIsReplayed
<1>15. ProgressOfGroup'
  BY <1>4, <1>5, <1>9 DEF DataInv, ProgressOfGroup
<1>16. InsertedOnce'
  <2>1. \A i \in 1..Len(inserted) :
          /\ inserted[i].call \in 1..Len(ops')
          /\ IF inserted[i].seq > lastSequence THEN \E j \in 1..Len(mem) : mem[j] = inserted[i]
                                               ELSE outcome'[inserted[i].call] = "ok"
    BY <1>3 DEF DataInv, InsertedOnce
  <2>2. ASSUME NEW n \in 1..Len(ops'), outcome'[n] = "ok", NEW e \in 1..ops'[n].count
        PROVE  \E i \in 1..Len(inserted) : Pair(inserted[i]) = <<n, e>>
    <3>1. n \in 1..Len(ops)
      BY <1>3, <2>2
    <3>2. QED
      BY <1>3, <2>2, <3>1 DEF DataInv, InsertedOnce
  <2>3. \A i : Pair(inserted[i])' = Pair(inserted[i])
    BY <1>4 DEF Pair
  <2>4. QED
    BY <1>4, <1>9, <2>1, <2>2, <2>3 DEF DataInv, InsertedOnce
<1>17. GroupIsSynced'
  <2>1. SyncedWhenAcked'
    BY <1>3, <1>4 DEF DataInv, GroupIsSynced, SyncedWhenAcked
  <2>2. \A u \in Threads : Grouping(u) => call[u] \in 1..Len(ops) /\ call'[u] = call[u]
    BY <1>4, <1>5 DEF QueueIInv, OwnCall, Grouping
  <2>3. QED
    BY <1>3, <1>4, <1>5, <1>7, <2>1, <2>2 DEF DataInv, GroupIsSynced, Grouping
<1>18. QED
  BY <1>6, <1>10, <1>11, <1>13, <1>14, <1>15, <1>16, <1>17 DEF DataInv


LEMMA EntryTypes ==
  ASSUME DataTypes
  PROVE  /\ lastSequence \in Nat /\ Len(mem) \in Nat /\ Len(inserted) \in Nat
         /\ \A i \in 1..Len(mem) : mem[i].seq \in Nat
         /\ \A i \in 1..Len(inserted) : inserted[i].seq \in Nat
<1>1. \A e \in EntryRecord : e.seq \in Nat
  BY DEF EntryRecord
<1>2. /\ lastSequence \in Nat /\ Len(mem) \in Nat /\ Len(inserted) \in Nat
      /\ \A i \in 1..Len(mem) : mem[i] \in EntryRecord
      /\ \A i \in 1..Len(inserted) : inserted[i] \in EntryRecord
  BY DEF DataTypes
<1>3. QED
  BY <1>1, <1>2

(* The group has so many entries in the memtable, and so many to come.      *)
LEMMA ProgressSize ==
  ASSUME QueueIInv, DataInv
  PROVE  /\ Batches(group) \in SUBSET (1..Len(ops)) /\ IsFiniteSet(Progress) /\ Cardinality(Progress) \in Nat
         /\ IsFiniteSet(EntriesOf(Batches(group))) /\ Entries(Batches(group)) \in Nat
         /\ Cardinality(Progress) <= Entries(Batches(group))
<1>1. group \in 0..Len(writers)
  BY DEF DataInv, GroupInQueue
<1>2. Batches(group) \in SUBSET (1..Len(ops))
  BY <1>1, BatchesInQueue DEF DataInv
<1>3. IsFiniteSet(EntriesOf(Batches(group))) /\ Entries(Batches(group)) \in Nat
  BY <1>2, EntriesFinite
<1>4. Progress \subseteq EntriesOf(Batches(group))
  BY DEF DataInv, ProgressOfGroup
<1>5. IsFiniteSet(Progress) /\ Cardinality(Progress) <= Cardinality(EntriesOf(Batches(group)))
  BY <1>3, <1>4, FS_Subset
<1>6. QED
  BY <1>2, <1>3, <1>5, FS_CardinalityType DEF Entries

(* The first k calls leave the queue with the status; nobody is at work.    *)
LEMMA PopQueue ==
  ASSUME QueueIInv, QueueIsTail, NEW t \in Threads, AtWork(t),
         NEW k \in 1..Len(writers), NEW ok, Pop(t, k, ok)
  PROVE  /\ QueueIsTail' /\ group' = 0 /\ pending' /\ UNCHANGED <<ops, call>>
         /\ \A n \in 1..Len(ops) : outcome'[n] =
              IF n \in (Answered + 1)..(Answered + k) THEN IF ok THEN "ok" ELSE "error" ELSE outcome[n]
         /\ \A u \in Threads : ~Grouping(u)' /\ ~Logging(u)' /\ ~Filling(u)'
<1>1. Len(ops) \in Nat /\ Len(writers) \in Nat /\ Len(writers) <= Len(ops) /\ Answered = Len(ops) - Len(writers)
  BY OpTypes DEF QueueIsTail, Answered
<1>2. group' = 0 /\ pending' /\ UNCHANGED <<ops, call>>
  BY DEF Pop
<1>3. /\ writers' \in Seq(Nat) /\ Len(writers') = Len(writers) - k
      /\ \A i \in 1..Len(writers') : writers'[i] = Answered + k + i
  <2>1. writers \in Seq(Nat) /\ writers' = SubSeq(writers, k + 1, Len(writers))
    BY DEF Pop, QueueIInv
  <2>2. Len(writers') = Len(writers) - k /\ \A i \in 1..(Len(writers) - k) : writers'[i] = writers[k + i]
    BY <1>1, <2>1
  <2>3. \A i \in 1..(Len(writers) - k) : writers[k + i] = Answered + k + i
    BY <1>1 DEF QueueIsTail
  <2>4. QED
    BY <2>1, <2>2, <2>3, SubSeqProperties
<1>4. \A n \in 1..Len(ops) : (\E i \in 1..k : writers[i] = n) <=> n \in (Answered + 1)..(Answered + k)
  <2>1. \A i \in 1..k : writers[i] = Answered + i
    BY <1>1 DEF QueueIsTail
  <2>2. \A n \in (Answered + 1)..(Answered + k) : n - Answered \in 1..k /\ writers[n - Answered] = n
    BY <1>1, <2>1
  <2>3. QED
    BY <1>1, <2>1, <2>2
<1>5. \A n \in 1..Len(ops) : outcome'[n] =
        IF n \in (Answered + 1)..(Answered + k) THEN IF ok THEN "ok" ELSE "error" ELSE outcome[n]
  BY <1>4 DEF Pop
<1>6. outcome' \in Seq({"none", "ok", "error"}) /\ Len(outcome') = Len(ops)
  <2>1. \A n \in 1..Len(ops) : outcome[n] \in {"none", "ok", "error"}
    BY DEF QueueIsTail
  <2>2. outcome' = [n \in 1..Len(ops) |-> outcome'[n]]
    BY DEF Pop
  <2>3. outcome' \in [1..Len(ops) -> {"none", "ok", "error"}]
    BY <1>5, <2>1, <2>2
  <2>4. QED
    BY <1>1, <2>3
<1>7. QueueIsTail'
  <2>1. Answered' = Answered + k
    BY <1>1, <1>2, <1>3 DEF Answered
  <2>2. ASSUME NEW n \in 1..Len(ops) PROVE outcome'[n] # "none" <=> n <= Answered + k
    <3>1. outcome[n] # "none" <=> n <= Answered
      BY DEF QueueIsTail
    <3>2. n \in Nat /\ Answered \in Nat /\ k \in Nat
      BY <1>1
    <3>3. CASE n \in (Answered + 1)..(Answered + k)
      BY <1>5, <3>2, <3>3
    <3>4. CASE n \notin (Answered + 1)..(Answered + k)
      BY <1>5, <3>1, <3>2, <3>4
    <3>5. QED
      BY <3>3, <3>4
  <2>3. QED
    BY <1>1, <1>2, <1>3, <1>6, <2>1, <2>2 DEF QueueIsTail
<1>8. ASSUME NEW u \in Threads PROVE ~Grouping(u)' /\ ~Logging(u)' /\ ~Filling(u)'
  <2>1. at'[u] \notin {"log", "sync", "insert", "end"}
    BY AtWorkAlone DEF Pop, QueueIInv, AtWork
  <2>2. QED
    BY <2>1 DEF Grouping, Logging, Filling
<1>9. QED
  BY <1>2, <1>5, <1>7, <1>8

(* A call leaves with all of its group: in sight at once when it was        *)
(* inserted whole, and never when nothing of it was inserted.               *)
LEMMA PopKeepsData ==
  ASSUME QueueIInv, DataInv, NEW t \in Threads, AtWork(t),
         NEW k \in 1..Len(writers), NEW ok, Pop(t, k, ok),
         UNCHANGED <<inserted, durable, syncFailed>>,
         lastSequence' \in Nat, lastSequence + Cardinality(Progress) <= lastSequence',
         \/ UNCHANGED <<log, mem>> /\ \A i \in 1..Len(log) : AfterRecord(i) <= lastSequence' + 1
         \/ log' = << >> /\ mem' = << >>,
         IF ok THEN EntriesOf(Batches(k)) = Progress ELSE Progress = {},
         ok => \A n \in Batches(k) : ops[n].sync => n \in durable,
         syncFailed => bgError'
  PROVE  DataInv'
<1>1. /\ QueueIsTail' /\ group' = 0 /\ UNCHANGED <<ops, call>>
      /\ \A n \in 1..Len(ops) : outcome'[n] =
           IF n \in (Answered + 1)..(Answered + k) THEN IF ok THEN "ok" ELSE "error" ELSE outcome[n]
      /\ \A u \in Threads : ~Grouping(u)' /\ ~Logging(u)' /\ ~Filling(u)'
      /\ \A u \in Threads : at'[u] \notin {"log", "sync", "insert", "end"}
  BY PopQueue DEF DataInv, Grouping
<1>2. /\ Len(ops) \in Nat /\ Len(writers) \in Nat /\ Answered \in Nat
      /\ \A n \in 1..Len(ops) : outcome[n] # "none" <=> n <= Answered
  BY OpTypes DEF DataInv, QueueIsTail, Answered
<1>3. /\ Batches(k) = {n \in (Answered + 1)..(Answered + k) : ~ops[n].null} /\ Batches(k) \subseteq 1..Len(ops)
      /\ \A n \in (Answered + 1)..(Answered + k) : n \in 1..Len(ops)
  BY <1>2, BatchesInQueue DEF DataInv, Answered
<1>4. /\ lastSequence \in Nat
      /\ Len(mem) \in Nat /\ Len(inserted) \in Nat
      /\ \A i \in 1..Len(mem) : mem[i].seq \in Nat
      /\ \A i \in 1..Len(inserted) : inserted[i].seq \in Nat
  BY EntryTypes DEF DataInv
<1>15. Cardinality(Progress) \in Nat
  BY ProgressSize
<1>5. \A i \in 1..Len(mem) : mem[i].seq <= lastSequence'
  <2>2. \A i \in 1..Len(mem) : mem[i].seq <= lastSequence + Cardinality(Progress)
    BY DEF DataInv, MemIsReplayed
  <2>3. QED
    BY <1>4, <1>15, <2>2
<1>6. Progress' = {}
  <2>1. \A i \in 1..Len(mem') : ~(mem'[i].seq > lastSequence')
    BY <1>4, <1>5
  <2>2. QED
    BY <2>1 DEF Progress
<1>7. GroupInQueue'
  <2>1. Len(writers') \in Nat
    BY SubSeqProperties DEF Pop, QueueIInv
  <2>2. QED
    BY <1>1, <2>1 DEF GroupInQueue
<1>8. DataTypes'
  <2>1. /\ inserted \in Seq(EntryRecord) /\ \A n \in 1..Len(ops) : ops[n].null => ops[n].count = 0
        /\ mem' \in Seq(EntryRecord) /\ log' \in Seq([first : Nat, calls : SUBSET (1..Len(ops))])
    <3>1. \A S : << >> \in Seq(S)
      OBVIOUS
    <3>2. /\ inserted \in Seq(EntryRecord) /\ \A n \in 1..Len(ops) : ops[n].null => ops[n].count = 0
          /\ mem \in Seq(EntryRecord) /\ log \in Seq([first : Nat, calls : SUBSET (1..Len(ops))])
      BY DEF DataInv, DataTypes
    <3>3. CASE log' = << >> /\ mem' = << >>
      BY <3>1, <3>2, <3>3, Zenon
    <3>4. CASE UNCHANGED <<log, mem>>
      BY <3>2, <3>4
    <3>5. QED
      BY <3>3, <3>4
  <2>2. QED
    BY <1>1, <2>1 DEF DataTypes, EntryRecord
<1>9. LogIsInOrder'
  <2>1. CASE log' = << >>
    BY <1>1, <2>1 DEF LogIsInOrder
  <2>2. CASE log' = log /\ \A i \in 1..Len(log) : AfterRecord(i) <= lastSequence' + 1
    <3>1. \A i : AfterRecord(i)' = AfterRecord(i)
      BY <1>1, <2>2 DEF AfterRecord, Entries, EntriesOf
    <3>2. QED
      BY <1>1, <2>2, <3>1 DEF DataInv, LogIsInOrder
  <2>3. QED
    BY <2>1, <2>2
<1>10. MemIsReplayed'
  <2>1. CASE mem' = << >>
    BY <2>1 DEF MemIsReplayed
  <2>2. CASE mem' = mem /\ log' = log
    <3>1. \A i, j : Replayed(mem[i], log[j])' <=> Replayed(mem[i], log[j])
      BY <1>1, <2>2 DEF Replayed, Pair, EntriesOf
    <3>2. Cardinality(Progress') = 0
      BY <1>6, FS_EmptySet
    <3>3. \A i \in 1..Len(mem) : mem[i].seq <= lastSequence' + Cardinality(Progress')
      BY <1>4, <1>5, <3>2
    <3>4. QED
      BY <2>2, <3>1, <3>3 DEF DataInv, MemIsReplayed
  <2>3. QED
    BY <2>1, <2>2
<1>11. ProgressOfGroup'
  BY <1>1, <1>6 DEF ProgressOfGroup
<1>12. InsertedOnce'
  <2>1. ASSUME NEW i \in 1..Len(inserted)
        PROVE  /\ inserted[i].call \in 1..Len(ops)
               /\ ~(inserted[i].seq > lastSequence') /\ outcome'[inserted[i].call] = "ok"
    <3>1. inserted[i].call \in 1..Len(ops) /\ inserted[i].seq \in Nat
      BY <1>4 DEF DataInv, InsertedOnce
    <3>2. CASE inserted[i].seq > lastSequence
      <4>1. PICK j \in 1..Len(mem) : mem[j] = inserted[i]
        BY <3>2 DEF DataInv, InsertedOnce
      <4>2. Pair(inserted[i]) \in Progress
        BY <3>2, <4>1 DEF Progress, Pair
      <4>3. ok /\ inserted[i].call \in Batches(k)
        BY <4>2, EntryPairs DEF Pair
      <4>4. outcome'[inserted[i].call] = "ok"
        BY <1>1, <1>3, <3>1, <4>3
      <4>5. QED
        BY <1>4, <1>5, <3>1, <4>1, <4>4
    <3>3. CASE ~(inserted[i].seq > lastSequence)
      <4>1. outcome[inserted[i].call] = "ok"
        BY <3>3 DEF DataInv, InsertedOnce
      <4>2. inserted[i].call \notin (Answered + 1)..(Answered + k)
        BY <1>2, <3>1, <4>1
      <4>3. lastSequence <= lastSequence'
        BY <1>4, <1>15
      <4>4. ~(inserted[i].seq > lastSequence')
        BY <1>4, <3>1, <3>3, <4>3
      <4>5. QED
        BY <1>1, <3>1, <4>1, <4>2, <4>4
    <3>4. QED
      BY <3>2, <3>3
  <2>2. ASSUME NEW n \in 1..Len(ops), outcome'[n] = "ok", NEW e \in 1..ops[n].count
        PROVE  \E i \in 1..Len(inserted) : Pair(inserted[i]) = <<n, e>>
    <3>1. CASE n \in (Answered + 1)..(Answered + k)
      <4>1. ok
        BY <1>1, <2>2, <3>1
      <4>2. ~ops[n].null
        BY <2>2 DEF DataInv, DataTypes
      <4>3. <<n, e>> \in Progress
        BY <1>3, <3>1, <4>1, <4>2, EntryPairs
      <4>4. QED
        BY <4>3 DEF DataInv, InsertedOnce
    <3>2. CASE n \notin (Answered + 1)..(Answered + k)
      BY <1>1, <2>2, <3>2 DEF DataInv, InsertedOnce
    <3>3. QED
      BY <3>1, <3>2
  <2>3. \A i : Pair(inserted[i])' = Pair(inserted[i])
    BY DEF Pair
  <2>4. QED
    BY <1>1, <1>6, <2>1, <2>2, <2>3 DEF DataInv, InsertedOnce
<1>13. GroupIsSynced'
  <2>1. ASSUME NEW n \in 1..Len(ops), outcome'[n] = "ok", ops[n].sync, ~ops[n].null
        PROVE  n \in durable
    <3>1. CASE n \in (Answered + 1)..(Answered + k)
      BY <1>1, <1>3, <2>1, <3>1
    <3>2. CASE n \notin (Answered + 1)..(Answered + k)
      BY <1>1, <2>1, <3>2 DEF DataInv, GroupIsSynced, SyncedWhenAcked
    <3>3. QED
      BY <3>1, <3>2
  <2>2. SyncedWhenAcked'
    BY <1>1, <2>1 DEF SyncedWhenAcked
  <2>3. QED
    BY <1>1, <2>2 DEF GroupIsSynced
<1>14. QED
  BY <1>1, <1>7, <1>8, <1>9, <1>10, <1>11, <1>12, <1>13 DEF DataInv

(* While a thread makes room nothing of a group is under way.               *)
LEMMA NothingUnderWay ==
  ASSUME QueueIInv, DataInv, NEW t \in Threads, at[t] \in {"room", "log"}
  PROVE  /\ \A u \in Threads : at[u] \notin {"sync", "insert", "end"} /\ (at[t] = "room" => at[u] # "log")
         /\ \A u \in Threads : ~Logging(u) /\ ~Filling(u)
         /\ Progress = {} /\ Cardinality(Progress) = 0 /\ (syncFailed => bgError)
         /\ \A i \in 1..Len(log) : AfterRecord(i) <= lastSequence + 1
         /\ \A i \in 1..Len(inserted) : ~(inserted[i].seq > lastSequence)
         /\ writers # << >> /\ writers[1] = call[t] /\ call[t] \in 1..Len(ops)
<1>1. ASSUME NEW u \in Threads PROVE at[u] \notin {"sync", "insert", "end"} /\ (at[t] = "room" => at[u] # "log")
  BY AtWorkAlone DEF AtWork
<1>2. \A u \in Threads : ~Logging(u) /\ ~Filling(u)
  BY <1>1 DEF Logging, Filling
<1>3. Progress = {} /\ Cardinality(Progress) = 0
  BY <1>2, FS_EmptySet DEF DataInv, ProgressOfGroup
<1>4. syncFailed => bgError
  BY <1>1 DEF DataInv, GroupIsSynced
<1>5. \A i \in 1..Len(log) : AfterRecord(i) <= lastSequence + 1
  <2>1. \A i \in 1..Len(log) : AfterRecord(i) <= lastSequence + 1 + 0
    BY <1>2 DEF DataInv, LogIsInOrder
  <2>2. lastSequence + 1 + 0 = lastSequence + 1
    BY EntryTypes DEF DataInv
  <2>3. QED
    BY <2>1, <2>2
<1>6. ASSUME NEW i \in 1..Len(inserted), inserted[i].seq > lastSequence PROVE FALSE
  <2>1. PICK j \in 1..Len(mem) : mem[j] = inserted[i]
    BY <1>6 DEF DataInv, InsertedOnce
  <2>2. Pair(inserted[i]) \in Progress
    BY <1>6, <2>1 DEF Progress, Pair
  <2>3. QED
    BY <1>3, <2>2
<1>7. IsFirst(t) /\ at[t] # "idle"
  BY DEF QueueIInv, AtWork
<1>8. writers # << >> /\ writers[1] = call[t] /\ call[t] \in 1..Len(ops)
  BY <1>7 DEF QueueIInv, OwnCall, IsFirst
<1>9. QED
  BY <1>1, <1>2, <1>3, <1>4, <1>5, <1>6, <1>8

(* A writer that has room takes its group; what a full memtable held is in  *)
(* sight by then.                                                           *)
LEMMA TakeKeepsData ==
  ASSUME QueueIInv, DataInv, NEW t \in Threads, at[t] = "room", TakeGroup(t),
         UNCHANGED <<lastSequence, historyVars>>, ~bgError,
         UNCHANGED <<log, mem>> \/ (log' = << >> /\ mem' = << >>)
  PROVE  DataInv'
<1>1. /\ UNCHANGED <<ops, call, writers, pending, outcome, lastSequence, durable, inserted, syncFailed>>
      /\ group' = BuildBatchGroup /\ at' = [at EXCEPT ![t] = "log"] /\ at \in [Threads -> Places]
  BY DEF TakeGroup, historyVars, QueueIInv
<1>2. /\ \A u \in Threads : at[u] \notin {"log", "sync", "insert", "end"}
      /\ \A u \in Threads : ~Logging(u) /\ ~Filling(u)
      /\ Progress = {} /\ Cardinality(Progress) = 0 /\ ~syncFailed
      /\ \A i \in 1..Len(log) : AfterRecord(i) <= lastSequence + 1
      /\ \A i \in 1..Len(inserted) : ~(inserted[i].seq > lastSequence)
      /\ writers # << >> /\ writers[1] = call[t]
  BY NothingUnderWay
<1>3. /\ \A u \in Threads : at'[u] \notin {"sync", "insert", "end"} /\ (u # t => at'[u] # "log")
      /\ \A u \in Threads : ~Logging(u)' /\ ~Filling(u)'
  BY <1>1, <1>2 DEF Logging, Filling
<1>4. Progress' = {} /\ Cardinality(Progress') = 0
  <2>1. CASE UNCHANGED <<log, mem>>
    BY <1>1, <1>2, <2>1 DEF Progress
  <2>2. CASE mem' = << >>
    <3>1. \A i : i \notin 1..Len(mem')
      BY <2>2
    <3>2. Progress' = {}
      BY <3>1 DEF Progress
    <3>3. QED
      BY <3>2, FS_EmptySet
  <2>3. QED
    BY <2>1, <2>2
<1>5. QueueIsTail'
  BY <1>1 DEF DataInv, QueueIsTail, Answered
<1>6. GroupInQueue'
  <2>1. /\ writers \in Seq(Nat) /\ Len(writers) \in Nat /\ BuildBatchGroup \in 1..Len(writers)
        /\ \A j \in 2..BuildBatchGroup : ops[writers[j]].sync => ops[Head(writers)].sync
    BY <1>2, GroupOfWriters DEF QueueIInv
  <2>2. \A j \in 1..BuildBatchGroup : ops[writers[j]].sync => ops[call[t]].sync
    <3>1. Head(writers) = writers[1]
      BY <2>1
    <3>2. \A j \in 1..BuildBatchGroup : j = 1 \/ j \in 2..BuildBatchGroup
      BY <2>1
    <3>3. QED
      BY <1>2, <2>1, <3>1, <3>2
  <2>3. \A u \in Threads : Grouping(u)' => u = t
    BY <1>3 DEF Grouping
  <2>. HIDE DEF Grouping
  <2>4. QED
    BY <1>1, <2>1, <2>2, <2>3 DEF GroupInQueue
<1>7. DataTypes'
  <2>1. \A S : << >> \in Seq(S)
    OBVIOUS
  <2>2. /\ inserted \in Seq(EntryRecord) /\ \A n \in 1..Len(ops) : ops[n].null => ops[n].count = 0
        /\ mem \in Seq(EntryRecord) /\ log \in Seq([first : Nat, calls : SUBSET (1..Len(ops))])
        /\ lastSequence \in Nat
    BY DEF DataInv, DataTypes
  <2>3. mem' \in Seq(EntryRecord) /\ log' \in Seq([first : Nat, calls : SUBSET (1..Len(ops))])
    <3>1. CASE log' = << >> /\ mem' = << >>
      BY <2>1, <2>2, <3>1, Zenon
    <3>2. CASE UNCHANGED <<log, mem>>
      BY <2>2, <3>2
    <3>3. QED
      BY <3>1, <3>2
  <2>4. QED
    BY <1>1, <2>2, <2>3 DEF DataTypes, EntryRecord
<1>8. LogIsInOrder'
  <2>1. CASE log' = << >>
    BY <1>3, <2>1 DEF LogIsInOrder
  <2>2. CASE log' = log
    <3>1. \A i : AfterRecord(i)' = AfterRecord(i)
      BY <1>1, <2>2 DEF AfterRecord, Entries, EntriesOf
    <3>2. lastSequence + 1 + 0 = lastSequence + 1
      BY EntryTypes DEF DataInv
    <3>3. QED
      BY <1>1, <1>2, <1>3, <2>2, <3>1, <3>2 DEF DataInv, LogIsInOrder
  <2>3. QED
    BY <2>1, <2>2
<1>9. MemIsReplayed'
  <2>1. CASE mem' = << >>
    BY <2>1 DEF MemIsReplayed
  <2>2. CASE mem' = mem /\ log' = log
    <3>1. \A i, j : Replayed(mem[i], log[j])' <=> Replayed(mem[i], log[j])
      BY <1>1, <2>2 DEF Replayed, Pair, EntriesOf
    <3>2. QED
      BY <1>1, <1>2, <1>4, <2>2, <3>1 DEF DataInv, MemIsReplayed
  <2>3. QED
    BY <2>1, <2>2
<1>10. ProgressOfGroup'
  BY <1>3, <1>4 DEF ProgressOfGroup
<1>11. InsertedOnce'
  <2>1. \A i : Pair(inserted[i])' = Pair(inserted[i])
    BY <1>1 DEF Pair
  <2>2. \A i \in 1..Len(inserted) : inserted[i].call \in 1..Len(ops) /\ outcome[inserted[i].call] = "ok"
    BY <1>2 DEF DataInv, InsertedOnce
  <2>3. QED
    BY <1>1, <1>2, <1>4, <2>1, <2>2 DEF DataInv, InsertedOnce
<1>12. GroupIsSynced'
  <2>1. SyncedWhenAcked'
    BY <1>1 DEF DataInv, GroupIsSynced, SyncedWhenAcked
  <2>2. QED
    BY <1>1, <1>2, <1>3, <2>1 DEF GroupIsSynced
<1>13. QED
  BY <1>5, <1>6, <1>7, <1>8, <1>9, <1>10, <1>11, <1>12 DEF DataInv

(* A step of t alone that leaves the queue as it is, from one place of a    *)
(* group's work to the next.                                                *)
LEMMA Steps ==
  ASSUME QueueIInv, DataInv, NEW t \in Threads, at[t] \in {"log", "sync", "insert"},
         NEW to \in {"sync", "insert", "end"}, at' = [at EXCEPT ![t] = to],
         UNCHANGED <<ops, call, writers, group, outcome, lastSequence>>
  PROVE  /\ at'[t] = to /\ \A u \in Threads : u # t => at'[u] = at[u] /\ ~Grouping(u) /\ ~Grouping(u)'
         /\ QueueIsTail' /\ GroupInQueue' /\ Batches(group)' = Batches(group)
         /\ \A c : EntriesOf(c)' = EntriesOf(c) /\ Entries(c)' = Entries(c)
         /\ ~syncFailed
<1>1. at'[t] = to /\ \A u \in Threads : u # t => at'[u] = at[u]
  BY DEF QueueIInv
<1>2. ASSUME NEW u \in Threads, u # t PROVE ~Grouping(u) /\ ~Grouping(u)'
  <2>1. ~AtWork(u)
    BY <1>2, AtWorkAlone DEF AtWork
  <2>2. QED
    BY <1>1, <1>2, <2>1 DEF Grouping, AtWork
<1>3. QueueIsTail'
  BY DEF DataInv, QueueIsTail, Answered
<1>4. GroupInQueue'
  <2>1. \A u \in Threads : Grouping(u)' <=> Grouping(u)
    BY <1>1, <1>2 DEF Grouping
  <2>. HIDE DEF Grouping
  <2>2. QED
    BY <2>1 DEF DataInv, GroupInQueue
<1>5. Batches(group)' = Batches(group) /\ \A c : EntriesOf(c)' = EntriesOf(c) /\ Entries(c)' = Entries(c)
  BY DEF Batches, EntriesOf, Entries
<1>6. ~syncFailed
  BY DEF DataInv, GroupIsSynced
<1>7. QED
  BY <1>1, <1>2, <1>3, <1>4, <1>5, <1>6

(* The record of the group goes to the log, or fails and may be there.      *)
LEMMA RecordKeepsData ==
  ASSUME QueueIInv, DataInv, NEW t \in Threads, AddRecord(t)
  PROVE  DataInv'
<1>. DEFINE rec == [first |-> lastSequence + 1, calls |-> Batches(group)]
            R   == [first : Nat, calls : SUBSET (1..Len(ops))]
<1>1. PICK ok, there \in BOOLEAN :
        /\ ok => there
        /\ pending' = ok
        /\ log' = IF there THEN Append(log, rec) ELSE log
        /\ at' = [at EXCEPT ![t] = IF ~ok THEN "end" ELSE IF ops[call[t]].sync THEN "sync" ELSE "insert"]
  BY DEF AddRecord
<1>2. /\ at[t] = "log"
      /\ UNCHANGED <<backVars, ops, call, writers, group, outcome, lastSequence, mem, durable, inserted, syncFailed>>
  BY DEF AddRecord, historyVars
<1>3. /\ at'[t] = IF ~ok THEN "end" ELSE IF ops[call[t]].sync THEN "sync" ELSE "insert"
      /\ \A u \in Threads : u # t => at'[u] = at[u] /\ ~Grouping(u) /\ ~Grouping(u)'
      /\ QueueIsTail' /\ GroupInQueue' /\ Batches(group)' = Batches(group)
      /\ \A c : EntriesOf(c)' = EntriesOf(c) /\ Entries(c)' = Entries(c)
      /\ ~syncFailed
  BY <1>1, <1>2, Steps
<1>4. /\ Progress = {} /\ Cardinality(Progress) = 0
      /\ \A i \in 1..Len(log) : AfterRecord(i) <= lastSequence + 1
      /\ \A i \in 1..Len(inserted) : ~(inserted[i].seq > lastSequence)
  BY <1>2, NothingUnderWay
<1>5. Progress' = Progress /\ Remaining' = Remaining
  BY <1>2, <1>3 DEF Progress, Remaining
<1>6. /\ Entries(Batches(group)) \in Nat /\ Batches(group) \in SUBSET (1..Len(ops))
      /\ lastSequence \in Nat
  BY ProgressSize, EntryTypes DEF DataInv
<1>7. log \in Seq(R) /\ rec \in R
  BY <1>6 DEF DataInv, DataTypes
<1>8. \A i \in 1..Len(log) : log[i].first \in Nat /\ log[i].calls \in SUBSET (1..Len(ops)) /\ AfterRecord(i) \in Int
  BY LogTypes, EntriesFinite DEF AfterRecord
<1>. HIDE DEF R
<1>9. /\ log' \in Seq(R) /\ Len(log) \in Nat
      /\ \A i \in 1..Len(log) : log'[i] = log[i]
      /\ IF there THEN Len(log') = Len(log) + 1 /\ log'[Len(log) + 1] = rec ELSE Len(log') = Len(log)
  BY <1>1, <1>7
<1>10. DataTypes'
  BY <1>2, <1>9 DEF DataInv, DataTypes, EntryRecord, R
<1>11. LogIsInOrder'
  <2>1. \A i \in 1..Len(log) : AfterRecord(i)' = AfterRecord(i)
    BY <1>3, <1>9 DEF AfterRecord
  <2>2. \A i : there /\ i = Len(log) + 1 => AfterRecord(i)' = lastSequence + 1 + Entries(Batches(group))
    BY <1>3, <1>9 DEF AfterRecord
  <2>3. Logging(t)' /\ (IF \E u \in Threads : Logging(u)' THEN Entries(Batches(group))' ELSE 0) = Entries(Batches(group))
    BY <1>3 DEF Logging
  <2>4. ASSUME NEW i \in 1..Len(log') PROVE AfterRecord(i)' <= lastSequence + 1 + Entries(Batches(group))
    <3>1. CASE i \in 1..Len(log)
      BY <1>4, <1>6, <1>8, <2>1, <3>1
    <3>2. CASE i = Len(log) + 1 /\ there
      BY <1>6, <2>2, <3>2
    <3>3. QED
      BY <1>9, <3>1, <3>2
  <2>5. ASSUME NEW i \in 1..(Len(log') - 1) PROVE AfterRecord(i)' <= log'[i + 1].first
    <3>1. i \in 1..Len(log)
      BY <1>9
    <3>2. CASE i + 1 \in 1..Len(log)
      BY <1>9, <2>1, <3>1, <3>2 DEF DataInv, LogIsInOrder
    <3>3. CASE i + 1 = Len(log) + 1 /\ there
      BY <1>4, <1>9, <2>1, <3>1, <3>3
    <3>4. QED
      BY <1>9, <3>1, <3>2, <3>3
  <2>6. (\E u \in Threads : at'[u] \in {"sync", "insert"}) => Len(log') > 0 /\ log'[Len(log')] = rec
    BY <1>1, <1>3, <1>9 DEF Grouping
  <2>7. QED
    BY <1>2, <1>3, <2>3, <2>4, <2>5, <2>6 DEF LogIsInOrder
<1>12. MemIsReplayed'
  <2>1. \A i : \A j \in 1..Len(log) : Replayed(mem[i], log[j])' <=> Replayed(mem[i], log[j])
    BY <1>2, <1>3, <1>9 DEF Replayed, Pair
  <2>2. \A j \in 1..Len(log) : j \in 1..Len(log')
    BY <1>9
  <2>3. QED
    BY <1>2, <1>5, <2>1, <2>2 DEF DataInv, MemIsReplayed
<1>13. ProgressOfGroup'
  <2>1. Progress' = {} /\ Remaining' = Remaining
    BY <1>4, <1>5
  <2>2. \A u \in Threads : (at'[u] \in {"sync", "insert"} => pending') /\ (at'[u] = "end" => ~pending')
    BY <1>1, <1>3 DEF Grouping
  <2>3. QED
    BY <2>1, <2>2 DEF ProgressOfGroup
<1>14. InsertedOnce'
  <2>1. \A i : Pair(inserted[i])' = Pair(inserted[i])
    BY <1>2 DEF Pair
  <2>2. QED
    BY <1>2, <1>5, <2>1 DEF DataInv, InsertedOnce
<1>15. GroupIsSynced'
  <2>1. SyncedWhenAcked'
    BY <1>2 DEF DataInv, GroupIsSynced, SyncedWhenAcked
  <2>2. \A u \in Threads : (at'[u] = "insert" \/ (at'[u] = "end" /\ pending')) => ~ops[call[u]].sync
    BY <1>1, <1>3 DEF Grouping
  <2>3. QED
    BY <1>2, <1>3, <2>1, <2>2 DEF GroupIsSynced
<1>16. QED
  BY <1>3, <1>10, <1>11, <1>12, <1>13, <1>14, <1>15 DEF DataInv

(* The record is synced, or whether it is cannot be known.                  *)
LEMMA SyncKeepsData ==
  ASSUME QueueIInv, DataInv, NEW t \in Threads, Sync(t)
  PROVE  DataInv'
<1>1. PICK to \in {"insert", "end"} : at' = [at EXCEPT ![t] = to]
  BY DEF Sync
<1>2. /\ at[t] = "sync"
      /\ UNCHANGED <<backVars, ops, call, writers, group, outcome, lastSequence, log, mem, inserted>>
  BY DEF Sync, dataVars
<1>3. /\ at'[t] = to
      /\ \A u \in Threads : u # t => at'[u] = at[u] /\ ~Grouping(u) /\ ~Grouping(u)'
      /\ QueueIsTail' /\ GroupInQueue' /\ Batches(group)' = Batches(group)
      /\ \A c : EntriesOf(c)' = EntriesOf(c) /\ Entries(c)' = Entries(c)
      /\ ~syncFailed
  BY <1>1, <1>2, Steps
<1>4. /\ durable \subseteq durable'
      /\ to = "insert" => Batches(group) \subseteq durable' /\ ~syncFailed' /\ pending'
      /\ to = "end" => ~pending'
  <2>1. pending /\ Len(log) > 0 /\ log[Len(log)].calls = Batches(group)
    BY <1>2 DEF DataInv, ProgressOfGroup, LogIsInOrder
  <2>2. Len(log) \in DOMAIN log
    BY <2>1, LogTypes DEF DataInv, DataTypes
  <2>3. CASE durable' = durable \union UNION {log[i].calls : i \in DOMAIN log} /\ at' = [at EXCEPT ![t] = "insert"]
             /\ UNCHANGED <<pending, syncFailed>>
    BY <1>2, <1>3, <2>1, <2>2, <2>3 DEF QueueIInv
  <2>4. CASE at' = [at EXCEPT ![t] = "end"] /\ ~pending' /\ UNCHANGED durable
    BY <1>2, <1>3, <2>4 DEF QueueIInv
  <2>5. QED
    BY <2>3, <2>4 DEF Sync
<1>5. Progress' = {} /\ Progress = {} /\ Remaining' = Remaining /\ Progress' = Progress
  <2>1. \A u \in Threads : ~Filling(u)
    BY <1>2, <1>3 DEF Filling, Grouping
  <2>2. Progress = {} /\ Progress' = Progress
    BY <1>2, <2>1 DEF DataInv, ProgressOfGroup, Progress
  <2>3. QED
    BY <1>3, <2>2 DEF Remaining
<1>6. DataTypes'
  BY <1>2 DEF DataInv, DataTypes, EntryRecord
<1>7. LogIsInOrder'
  <2>1. \A i : AfterRecord(i)' = AfterRecord(i)
    BY <1>2, <1>3 DEF AfterRecord
  <2>2. \A u \in Threads : Logging(u)' <=> Logging(u)
    BY <1>2, <1>3 DEF Logging, Grouping
  <2>3. (\E u \in Threads : at'[u] \in {"sync", "insert"}) => \E u \in Threads : at[u] \in {"sync", "insert"}
    BY <1>2
  <2>4. QED
    BY <1>2, <1>3, <2>1, <2>2, <2>3 DEF DataInv, LogIsInOrder
<1>8. MemIsReplayed'
  <2>1. \A i, j : Replayed(mem[i], log[j])' <=> Replayed(mem[i], log[j])
    BY <1>2, <1>3 DEF Replayed, Pair
  <2>2. QED
    BY <1>2, <1>5, <2>1 DEF DataInv, MemIsReplayed
<1>9. ProgressOfGroup'
  <2>1. \A u \in Threads : (at'[u] \in {"sync", "insert"} => pending') /\ (at'[u] = "end" => ~pending')
    BY <1>1, <1>3, <1>4 DEF Grouping
  <2>2. QED
    BY <1>5, <2>1 DEF ProgressOfGroup
<1>10. InsertedOnce'
  <2>1. \A i : Pair(inserted[i])' = Pair(inserted[i])
    BY <1>2 DEF Pair
  <2>2. QED
    BY <1>2, <1>5, <2>1 DEF DataInv, InsertedOnce
<1>11. GroupIsSynced'
  <2>1. SyncedWhenAcked'
    BY <1>2, <1>4 DEF DataInv, GroupIsSynced, SyncedWhenAcked
  <2>2. \A u \in Threads : (at'[u] = "insert" \/ (at'[u] = "end" /\ pending')) => Batches(group) \subseteq durable'
    BY <1>1, <1>3, <1>4 DEF Grouping
  <2>3. syncFailed' => at'[t] = "end" /\ ~pending'
    BY <1>1, <1>3, <1>4
  <2>4. QED
    BY <1>2, <1>3, <2>1, <2>2, <2>3 DEF GroupIsSynced, Grouping
<1>12. QED
  BY <1>3, <1>6, <1>7, <1>8, <1>9, <1>10, <1>11 DEF DataInv

(* The places of entries are numbers: of two, one is first.                 *)
LEMMA EntryOrder ==
  ASSUME QueueIInv, NEW calls \in SUBSET (1..Len(ops)), NEW e \in EntriesOf(calls), NEW f \in EntriesOf(calls)
  PROVE  /\ ~(Before(e, f) /\ Before(f, e)) /\ ~Before(e, e)
         /\ e[1] \in 1..Len(ops) /\ e[2] \in Nat /\ e = <<e[1], e[2]>>
<1>1. /\ e = <<e[1], e[2]>> /\ e[1] \in calls /\ e[2] \in 1..ops[e[1]].count
      /\ f[1] \in calls /\ f[2] \in 1..ops[f[1]].count
  BY EntryPairs
<1>2. Len(ops) \in Nat /\ ops[e[1]].count \in Nat /\ ops[f[1]].count \in Nat
  BY <1>1, OpTypes
<1>3. e[1] \in Int /\ e[2] \in Nat /\ f[1] \in Int /\ f[2] \in Nat
  BY <1>1, <1>2
<1>4. QED
  BY <1>1, <1>3 DEF Before

(* The next entry of the group gets the number that a replay of its record  *)
(* gives it, and was never inserted.                                        *)
LEMMA InsertKeepsData ==
  ASSUME QueueIInv, DataInv, NEW t \in Threads, InsertEntry(t)
  PROVE  DataInv'
<1>. DEFINE all == EntriesOf(Batches(group))
<1>1. PICK e \in Remaining :
        /\ \A f \in Remaining : f = e \/ Before(e, f)
        /\ mem' = Append(mem, [call |-> e[1], entry |-> e[2], seq |-> lastSequence + Cardinality(Progress) + 1])
        /\ inserted' = Append(inserted, mem'[Len(mem')])
  BY DEF InsertEntry
<1>. DEFINE new == [call |-> e[1], entry |-> e[2], seq |-> lastSequence + Cardinality(Progress) + 1]
<1>2. /\ at[t] = "insert"
      /\ UNCHANGED <<backVars, ops, at, call, writers, group, pending, outcome, lastSequence, log, durable, syncFailed>>
  BY DEF InsertEntry, queueVars
<1>3. /\ Batches(group) \in SUBSET (1..Len(ops)) /\ IsFiniteSet(Progress) /\ Cardinality(Progress) \in Nat
      /\ Progress \subseteq all /\ e \in all /\ e \notin Progress
      /\ lastSequence \in Nat
  BY ProgressSize, EntryTypes DEF DataInv, ProgressOfGroup, Remaining
<1>4. /\ e[1] \in 1..Len(ops) /\ e[2] \in Nat /\ e = <<e[1], e[2]>> /\ Pair(new) = e
      /\ e[1] \in Batches(group)
  BY <1>3, EntryOrder, EntryPairs DEF Pair
<1>5. /\ mem \in Seq(EntryRecord) /\ inserted \in Seq(EntryRecord) /\ new \in EntryRecord
  BY <1>3, <1>4, OpTypes DEF DataInv, DataTypes, EntryRecord
<1>. HIDE DEF EntryRecord, new
<1>6. /\ mem' \in Seq(EntryRecord) /\ inserted' \in Seq(EntryRecord) /\ Len(mem) \in Nat /\ Len(inserted) \in Nat
      /\ Len(mem') = Len(mem) + 1 /\ mem'[Len(mem) + 1] = new /\ \A i \in 1..Len(mem) : mem'[i] = mem[i]
      /\ Len(inserted') = Len(inserted) + 1 /\ inserted'[Len(inserted) + 1] = new
      /\ \A i \in 1..Len(inserted) : inserted'[i] = inserted[i]
  <2>1. mem' = Append(mem, new) /\ inserted' = Append(inserted, mem'[Len(mem')])
    BY <1>1 DEF new
  <2>2. /\ mem' \in Seq(EntryRecord) /\ Len(mem) \in Nat
        /\ Len(mem') = Len(mem) + 1 /\ mem'[Len(mem) + 1] = new /\ \A i \in 1..Len(mem) : mem'[i] = mem[i]
    BY <1>5, <2>1
  <2>3. inserted' = Append(inserted, new)
    BY <2>1, <2>2
  <2>4. QED
    BY <1>5, <2>2, <2>3
<1>7. new.seq = lastSequence + Cardinality(Progress) + 1 /\ new.seq > lastSequence /\ new.call = e[1]
  BY <1>3 DEF new
<1>8. Batches(group)' = Batches(group) /\ \A c : EntriesOf(c)' = EntriesOf(c) /\ Entries(c)' = Entries(c)
  BY <1>2 DEF Batches, EntriesOf, Entries
<1>9. Progress' = Progress \union {e} /\ Remaining' = Remaining \ {e}
  <2>1. Progress = {Pair(mem[i]) : i \in {k \in 1..Len(mem) : mem[k].seq > lastSequence}}
    BY DEF Progress, Pair
  <2>2. Progress' = {Pair(mem'[i]) : i \in {k \in 1..(Len(mem) + 1) : mem'[k].seq > lastSequence}}
    BY <1>2, <1>6 DEF Progress, Pair
  <2>3. 1..(Len(mem) + 1) = (1..Len(mem)) \union {Len(mem) + 1}
    BY <1>6
  <2>. HIDE DEF Pair
  <2>4. Progress' = Progress \union {e}
    BY <1>4, <1>6, <1>7, <2>1, <2>2, <2>3
  <2>5. QED
    BY <1>8, <2>4 DEF Remaining
<1>10. Cardinality(Progress') = Cardinality(Progress) + 1
  BY <1>3, <1>9, FS_AddElement
<1>11. {f \in all : Before(f, e)} = Progress
  <2>1. \A f \in Progress : Before(f, e)
    BY <1>1 DEF DataInv, ProgressOfGroup
  <2>2. ASSUME NEW f \in all, f \notin Progress PROVE ~Before(f, e)
    <3>1. f = e \/ Before(e, f)
      BY <1>1, <2>2 DEF Remaining
    <3>2. QED
      BY <1>3, <3>1, EntryOrder
  <2>3. QED
    BY <1>3, <2>1, <2>2
<1>12. QueueIsTail' /\ GroupInQueue'
  BY <1>2 DEF DataInv, QueueIsTail, Answered, GroupInQueue, Grouping
<1>13. DataTypes'
  BY <1>2, <1>6 DEF DataInv, DataTypes, EntryRecord
<1>14. LogIsInOrder'
  <2>1. \A i : AfterRecord(i)' = AfterRecord(i)
    BY <1>2, <1>8 DEF AfterRecord
  <2>2. QED
    BY <1>2, <1>8, <2>1 DEF DataInv, LogIsInOrder, Logging
<1>15. MemIsReplayed'
  <2>1. Len(log) > 0 /\ log[Len(log)] = [first |-> lastSequence + 1, calls |-> Batches(group)] /\ Len(log) \in Nat
    BY <1>2, LogTypes DEF DataInv, LogIsInOrder
  <2>2. Replayed(new, log[Len(log)])
    <3>1. Pair(new) \in all /\ new.seq = lastSequence + 1 + Cardinality(Progress)
      BY <1>3, <1>4, <1>7
    <3>2. log[Len(log)].first = lastSequence + 1 /\ log[Len(log)].calls = Batches(group)
      BY <2>1
    <3>3. {f \in EntriesOf(log[Len(log)].calls) : Before(f, Pair(new))} = Progress
      BY <1>4, <1>11, <3>2
    <3>4. QED
      BY <3>1, <3>2, <3>3 DEF Replayed
  <2>3. \A i, j : Replayed(mem[i], log[j])' <=> Replayed(mem'[i], log'[j])
    BY <1>2 DEF Replayed, Pair, EntriesOf
  <2>4. ASSUME NEW i \in 1..Len(mem') PROVE \E j \in 1..Len(log') : Replayed(mem'[i], log'[j])
    <3>1. CASE i \in 1..Len(mem)
      BY <1>2, <1>6, <3>1 DEF DataInv, MemIsReplayed
    <3>2. CASE i = Len(mem) + 1
      BY <1>2, <1>6, <2>1, <2>2, <3>2
    <3>3. QED
      BY <1>6, <3>1, <3>2
  <2>5. \A i \in 1..Len(mem) : mem[i].seq \in Nat /\ mem[i].seq <= lastSequence + Cardinality(Progress)
    BY EntryTypes DEF DataInv, MemIsReplayed
  <2>6. ASSUME NEW i \in 1..Len(mem') PROVE mem'[i].seq <= lastSequence + Cardinality(Progress')
    <3>1. CASE i \in 1..Len(mem)
      BY <1>3, <1>6, <1>10, <2>5, <3>1
    <3>2. CASE i = Len(mem) + 1
      BY <1>3, <1>6, <1>7, <1>10, <3>2
    <3>3. QED
      BY <1>6, <3>1, <3>2
  <2>7. ASSUME NEW i \in 1..(Len(mem') - 1) PROVE mem'[i].seq < mem'[i + 1].seq
    <3>1. i \in 1..Len(mem)
      BY <1>6
    <3>2. CASE i = Len(mem)
      BY <1>3, <1>6, <1>7, <2>5, <3>1, <3>2
    <3>3. CASE i \in 1..(Len(mem) - 1)
      <4>1. i + 1 \in 1..Len(mem)
        BY <1>6, <3>3
      <4>2. QED
        BY <1>6, <3>1, <3>3, <4>1 DEF DataInv, MemIsReplayed
    <3>4. QED
      BY <1>6, <3>1, <3>2, <3>3
  <2>8. QED
    BY <1>2, <2>3, <2>4, <2>6, <2>7 DEF MemIsReplayed
<1>16. ProgressOfGroup'
  <2>1. Progress' \subseteq EntriesOf(Batches(group))'
    BY <1>3, <1>8, <1>9
  <2>2. ASSUME NEW p \in Progress', NEW f \in Remaining' PROVE Before(p, f)
    BY <1>1, <1>9, <2>2 DEF DataInv, ProgressOfGroup
  <2>3. pending /\ Filling(t)'
    BY <1>2 DEF DataInv, ProgressOfGroup, Filling
  <2>4. \A u \in Threads : at'[u] # "end"
    <3>1. \A u \in Threads : at[u] = "end" => u = t
      BY <1>2, AtWorkAlone DEF AtWork
    <3>2. QED
      BY <1>2, <3>1
  <2>5. QED
    BY <1>2, <2>1, <2>2, <2>3, <2>4 DEF ProgressOfGroup
<1>17. ASSUME NEW i \in 1..Len(inserted) PROVE Pair(inserted[i]) # e
  <2>1. SUFFICES ASSUME Pair(inserted[i]) = e PROVE FALSE
    OBVIOUS
  <2>2. inserted[i].call = e[1]
    BY <2>1 DEF Pair
  <2>3. CASE inserted[i].seq > lastSequence
    <3>1. PICK j \in 1..Len(mem) : mem[j] = inserted[i]
      BY <2>3 DEF DataInv, InsertedOnce
    <3>2. e \in Progress
      BY <2>1, <2>3, <3>1 DEF Progress, Pair
    <3>3. QED
      BY <1>3, <3>2
  <2>4. CASE ~(inserted[i].seq > lastSequence)
    <3>1. outcome[e[1]] = "ok"
      BY <2>2, <2>4 DEF DataInv, InsertedOnce
    <3>2. e[1] <= Answered
      BY <1>4, <3>1 DEF DataInv, QueueIsTail
    <3>3. e[1] \in (Answered + 1)..(Answered + group)
      BY <1>4, BatchesInQueue DEF DataInv, GroupInQueue
    <3>4. Answered \in Int
      BY OpTypes DEF Answered
    <3>5. QED
      BY <1>4, <3>2, <3>3, <3>4
  <2>5. QED
    BY <2>3, <2>4
<1>18. InsertedOnce'
  <2>1. \A i : Pair(inserted[i])' = Pair(inserted'[i])
    BY DEF Pair
  <2>. HIDE DEF Pair
  <2>2. ASSUME NEW i \in 1..Len(inserted')
        PROVE  /\ inserted'[i].call \in 1..Len(ops)
               /\ IF inserted'[i].seq > lastSequence THEN \E j \in 1..Len(mem') : mem'[j] = inserted'[i]
                                                     ELSE outcome[inserted'[i].call] = "ok"
    <3>1. CASE i \in 1..Len(inserted)
      <4>1. inserted'[i] = inserted[i] /\ \A j \in 1..Len(mem) : j \in 1..Len(mem') /\ mem'[j] = mem[j]
        BY <1>6, <3>1
      <4>2. QED
        BY <3>1, <4>1 DEF DataInv, InsertedOnce
    <3>2. CASE i = Len(inserted) + 1
      BY <1>4, <1>6, <1>7, <3>2
    <3>3. QED
      BY <1>6, <3>1, <3>2
  <2>3. ASSUME NEW i \in 1..Len(inserted'), NEW j \in 1..Len(inserted'), Pair(inserted'[i]) = Pair(inserted'[j])
        PROVE  i = j
    <3>1. CASE i \in 1..Len(inserted) /\ j \in 1..Len(inserted)
      BY <1>6, <2>3, <3>1 DEF DataInv, InsertedOnce
    <3>2. CASE i = Len(inserted) + 1 /\ j \in 1..Len(inserted)
      BY <1>4, <1>6, <1>17, <2>3, <3>2
    <3>3. CASE i \in 1..Len(inserted) /\ j = Len(inserted) + 1
      BY <1>4, <1>6, <1>17, <2>3, <3>3
    <3>4. QED
      BY <1>6, <3>1, <3>2, <3>3
  <2>4. ASSUME NEW p \in Progress' PROVE \E i \in 1..Len(inserted') : Pair(inserted'[i]) = p
    <3>1. CASE p = e
      BY <1>4, <1>6, <3>1
    <3>2. CASE p \in Progress
      <4>1. PICK i \in 1..Len(inserted) : Pair(inserted[i]) = p
        BY <3>2 DEF DataInv, InsertedOnce
      <4>2. i \in 1..Len(inserted') /\ inserted'[i] = inserted[i]
        BY <1>6
      <4>3. QED
        BY <4>1, <4>2
    <3>3. QED
      BY <1>9, <2>4, <3>1, <3>2
  <2>5. ASSUME NEW n \in 1..Len(ops), outcome[n] = "ok", NEW k \in 1..ops[n].count
        PROVE  \E i \in 1..Len(inserted') : Pair(inserted'[i]) = <<n, k>>
    <3>1. PICK i \in 1..Len(inserted) : Pair(inserted[i]) = <<n, k>>
      BY <2>5 DEF DataInv, InsertedOnce
    <3>2. i \in 1..Len(inserted') /\ inserted'[i] = inserted[i]
      BY <1>6
    <3>3. QED
      BY <3>1, <3>2
  <2>6. QED
    BY <1>2, <2>1, <2>2, <2>3, <2>4, <2>5 DEF InsertedOnce
<1>19. GroupIsSynced'
  BY <1>2, <1>8 DEF DataInv, GroupIsSynced, SyncedWhenAcked
<1>20. QED
  BY <1>12, <1>13, <1>14, <1>15, <1>16, <1>18, <1>19 DEF DataInv

LEMMA DoneKeepsData ==
  ASSUME QueueIInv, DataInv, NEW t \in Threads, InsertDone(t)
  PROVE  DataInv'
<1>1. /\ at[t] = "insert" /\ Remaining = {} /\ at' = [at EXCEPT ![t] = "end"]
      /\ UNCHANGED <<backVars, ops, call, writers, group, pending, outcome, lastSequence, log, mem, durable,
                     inserted, syncFailed>>
  BY DEF InsertDone, dataVars, historyVars
<1>2. /\ at'[t] = "end"
      /\ \A u \in Threads : u # t => at'[u] = at[u] /\ ~Grouping(u) /\ ~Grouping(u)'
      /\ QueueIsTail' /\ GroupInQueue' /\ Batches(group)' = Batches(group)
      /\ \A c : EntriesOf(c)' = EntriesOf(c) /\ Entries(c)' = Entries(c)
      /\ ~syncFailed
  BY <1>1, Steps
<1>3. Progress' = Progress /\ Remaining' = Remaining
  BY <1>1, <1>2 DEF Progress, Remaining
<1>4. pending
  BY <1>1 DEF DataInv, ProgressOfGroup
<1>5. DataTypes'
  BY <1>1 DEF DataInv, DataTypes, EntryRecord
<1>6. LogIsInOrder'
  <2>1. \A i : AfterRecord(i)' = AfterRecord(i)
    BY <1>1, <1>2 DEF AfterRecord
  <2>2. \A u \in Threads : Logging(u)' <=> Logging(u)
    BY <1>1, <1>2 DEF Logging, Grouping
  <2>3. \A u \in Threads : at'[u] \notin {"sync", "insert"}
    BY <1>2 DEF Grouping
  <2>4. QED
    BY <1>1, <1>2, <2>1, <2>2, <2>3 DEF DataInv, LogIsInOrder
<1>7. MemIsReplayed'
  <2>1. \A i, j : Replayed(mem[i], log[j])' <=> Replayed(mem[i], log[j])
    BY <1>1, <1>2 DEF Replayed, Pair
  <2>2. QED
    BY <1>1, <1>3, <2>1 DEF DataInv, MemIsReplayed
<1>8. ProgressOfGroup'
  <2>1. Filling(t)' /\ pending' /\ Remaining' = {}
    BY <1>1, <1>2, <1>3, <1>4 DEF Filling
  <2>2. QED
    BY <1>1, <1>2, <1>3, <2>1 DEF DataInv, ProgressOfGroup
<1>9. InsertedOnce'
  <2>1. \A i : Pair(inserted[i])' = Pair(inserted[i])
    BY <1>1 DEF Pair
  <2>2. QED
    BY <1>1, <1>3, <2>1 DEF DataInv, InsertedOnce
<1>10. GroupIsSynced'
  <2>1. SyncedWhenAcked'
    BY <1>1 DEF DataInv, GroupIsSynced, SyncedWhenAcked
  <2>2. \A u \in Threads : (at'[u] = "insert" \/ (at'[u] = "end" /\ pending')) /\ ops[call[u]].sync =>
          Batches(group) \subseteq durable
    BY <1>1, <1>2 DEF DataInv, GroupIsSynced, Grouping
  <2>3. QED
    BY <1>1, <1>2, <2>1, <2>2 DEF GroupIsSynced
<1>11. QED
  BY <1>2, <1>5, <1>6, <1>7, <1>8, <1>9, <1>10 DEF DataInv

(* A first writer leaves alone, denied room, or with an empty batch when    *)
(* room was made.                                                           *)
LEMMA LeaveAloneKeepsData ==
  ASSUME QueueIInv, DataInv, NEW t \in Threads, at[t] = "room", NEW ok, Pop(t, 1, ok),
         ok => ops[call[t]].null, bgError => bgError', UNCHANGED <<lastSequence, historyVars>>,
         UNCHANGED <<log, mem>> \/ (log' = << >> /\ mem' = << >>)
  PROVE  DataInv'
<1>1. /\ Progress = {} /\ Cardinality(Progress) = 0 /\ (syncFailed => bgError)
      /\ \A i \in 1..Len(log) : AfterRecord(i) <= lastSequence + 1
      /\ writers # << >> /\ writers[1] = call[t] /\ AtWork(t)
  BY NothingUnderWay DEF AtWork
<1>2. 1 \in 1..Len(writers)
  BY <1>1 DEF QueueIInv
<1>3. lastSequence \in Nat /\ lastSequence' = lastSequence /\ lastSequence + Cardinality(Progress) <= lastSequence'
  BY <1>1, EntryTypes DEF DataInv
<1>4. ok => Batches(1) = {} /\ EntriesOf(Batches(1)) = Progress
  <2>1. SUFFICES ASSUME ok PROVE Batches(1) = {} /\ EntriesOf(Batches(1)) = Progress
    OBVIOUS
  <2>2. Batches(1) = {}
    <3>1. {writers[i] : i \in 1..1} = {call[t]}
      BY <1>1
    <3>2. QED
      BY <2>1, <3>1 DEF Batches
  <2>3. QED
    BY <1>1, <2>2 DEF EntriesOf
<1>5. UNCHANGED <<inserted, durable, syncFailed>>
  BY DEF historyVars
<1>6. QED
  BY <1>1, <1>2, <1>3, <1>4, <1>5, PopKeepsData

(* The group leaves: all of it is in the memtable, or nothing.              *)
LEMMA EndKeepsData ==
  ASSUME QueueIInv, DataInv, NEW t \in Threads, EndOfWrite(t)
  PROVE  DataInv'
<1>1. /\ at[t] = "end" /\ AtWork(t) /\ Pop(t, group, pending) /\ lastSequence' = lastSequence + Entries(Batches(group))
      /\ UNCHANGED <<log, mem, inserted, durable, syncFailed>>
  BY DEF EndOfWrite, AtWork, historyVars
<1>2. /\ IsFiniteSet(EntriesOf(Batches(group))) /\ Entries(Batches(group)) \in Nat
      /\ Cardinality(Progress) \in Nat /\ Cardinality(Progress) <= Entries(Batches(group)) /\ lastSequence \in Nat
  BY ProgressSize, EntryTypes DEF DataInv
<1>3. lastSequence' \in Nat /\ lastSequence + Cardinality(Progress) <= lastSequence'
  BY <1>1, <1>2
<1>4. group \in 1..Len(writers)
  BY <1>1, OpTypes DEF DataInv, GroupInQueue, Grouping
<1>5. ASSUME NEW i \in 1..Len(log) PROVE AfterRecord(i) <= lastSequence' + 1
  <2>1. AfterRecord(i) <= lastSequence + 1 + Entries(Batches(group))
    BY <1>1 DEF DataInv, LogIsInOrder, Logging
  <2>2. lastSequence + 1 + Entries(Batches(group)) = lastSequence' + 1
    BY <1>1, <1>2
  <2>3. QED
    BY <2>1, <2>2
<1>6. IF pending THEN EntriesOf(Batches(group)) = Progress ELSE Progress = {}
  BY <1>1 DEF DataInv, ProgressOfGroup, Remaining
<1>7. pending => \A n \in Batches(group) : ops[n].sync => n \in durable
  <2>1. ASSUME pending, NEW n \in Batches(group), ops[n].sync PROVE n \in durable
    <3>1. PICK j \in 1..group : writers[j] = n
      BY <2>1 DEF Batches
    <3>2. ops[call[t]].sync
      BY <1>1, <2>1, <3>1 DEF DataInv, GroupInQueue, Grouping
    <3>3. QED
      BY <1>1, <2>1, <3>2 DEF DataInv, GroupIsSynced
  <2>2. QED
    BY <2>1
<1>8. syncFailed => bgError'
  <2>1. syncFailed => ~pending
    BY <1>1 DEF DataInv, GroupIsSynced
  <2>2. QED
    BY <2>1 DEF EndOfWrite, RecordBackgroundError
<1>10. QED
  BY <1>1, <1>3, <1>4, <1>5, <1>6, <1>7, <1>8, PopKeepsData

LEMMA StepKeepsData ==
  ASSUME QueueIInv, DataInv, NEW t \in Threads, Step(t)
  PROVE  DataInv'
<1>1. CASE RoomDenied(t) \/ SwitchFailed(t)
  <2>1. /\ at[t] = "room" /\ Pop(t, 1, FALSE) /\ UNCHANGED <<bgError, lastSequence, historyVars, log, mem>>
    BY <1>1 DEF RoomDenied, SwitchFailed, InRoom, backVars, dataVars
  <2>2. QED
    BY <2>1, LeaveAloneKeepsData
<1>2. CASE RoomMade(t)
  <2>1. /\ at[t] = "room" /\ ~bgError /\ UNCHANGED <<bgError, lastSequence, historyVars>> /\ log' = << >> /\ mem' = << >>
        /\ IF ops[call[t]].null THEN Pop(t, 1, TRUE) ELSE TakeGroup(t)
    BY <1>2 DEF RoomMade, InRoom, SwitchMemTable
  <2>2. CASE ops[call[t]].null
    BY <2>1, <2>2, LeaveAloneKeepsData
  <2>3. CASE ~ops[call[t]].null
    BY <2>1, <2>3, TakeKeepsData
  <2>4. QED
    BY <2>2, <2>3
<1>3. CASE HasRoom(t)
  <2>1. at[t] = "room" /\ ~bgError /\ TakeGroup(t) /\ UNCHANGED <<lastSequence, historyVars, log, mem>>
    BY <1>3 DEF HasRoom, InRoom, dataVars
  <2>2. QED
    BY <2>1, TakeKeepsData
<1>4. CASE Woken(t) \/ FlushReturns(t)
  <2>1. UNCHANGED <<bgError, ops, call, writers, group, pending, outcome, dataVars, historyVars>>
    BY <1>4 DEF Woken, FlushReturns, backVars, historyVars
  <2>2. at[t] \in {"wait", "immwait"} /\ \E to \in {"immwait", "idle", "room", "wait"} : at' = [at EXCEPT ![t] = to]
    BY <1>4 DEF Woken, FlushReturns
  <2>3. \A u \in Threads : at'[u] = at[u] \/ (~Grouping(u) /\ ~Grouping(u)')
    BY <2>2 DEF QueueIInv, Grouping
  <2>4. QED
    BY <2>1, <2>3, StillKeeps
<1>5. CASE RoomDelayed(t) \/ RoomAwaited(t) \/ FlushAwaited(t)
  <2>1. UNCHANGED <<bgError, at, ops, call, writers, group, pending, outcome, dataVars, historyVars>>
    BY <1>5 DEF RoomDelayed, RoomAwaited, FlushAwaited, backVars, writeVars, queueVars
  <2>2. QED
    BY <2>1, StillKeeps
<1>6. QED
  BY <1>1, <1>2, <1>3, <1>4, <1>5, RecordKeepsData, SyncKeepsData, InsertKeepsData, DoneKeepsData, EndKeepsData DEF Step

(* Whatever writers and the background do keeps queue and data in step.     *)
LEMMA DataAlways == WriteSpec => [](QueueIInv /\ DataInv)
<1>1. WriteInit => QueueIInv
  BY DEF WriteInit, InitWrites, QueueIInv, OwnCall, AtWork, Places
<1>2. WriteInit => DataInv
  <2>1. SUFFICES ASSUME WriteInit PROVE DataInv
    OBVIOUS
  <2>2. /\ ops = << >> /\ outcome = << >> /\ writers = << >> /\ log = << >> /\ mem = << >> /\ inserted = << >>
        /\ group = 0 /\ pending = TRUE /\ lastSequence = 0 /\ syncFailed = FALSE
        /\ \A t \in Threads : at[t] = "idle"
    BY <2>1 DEF WriteInit, InitWrites
  <2>3. /\ Len(ops) = 0 /\ Len(outcome) = 0 /\ Len(writers) = 0 /\ Len(log) = 0 /\ Len(mem) = 0 /\ Len(inserted) = 0
    BY <2>2
  <2>4. \A S : << >> \in Seq(S)
    OBVIOUS
  <2>5. QueueIsTail
    BY <2>2, <2>3, <2>4 DEF QueueIsTail, Answered
  <2>6. GroupInQueue
    BY <2>2, <2>3 DEF GroupInQueue, Grouping
  <2>7. DataTypes
    <3>1. mem \in Seq(EntryRecord) /\ inserted \in Seq(EntryRecord) /\ log \in Seq([first : Nat, calls : SUBSET (1..Len(ops))])
      BY <2>2, <2>4, Zenon
    <3>2. lastSequence \in Nat /\ \A n \in 1..Len(ops) : FALSE
      BY <2>2, <2>3
    <3>3. QED
      BY <3>1, <3>2 DEF DataTypes
  <2>8. LogIsInOrder /\ MemIsReplayed
    BY <2>2, <2>3 DEF LogIsInOrder, MemIsReplayed
  <2>9. Progress = {}
    BY <2>2, <2>3 DEF Progress
  <2>10. ProgressOfGroup
    BY <2>2, <2>9 DEF ProgressOfGroup
  <2>11. InsertedOnce
    BY <2>2, <2>3, <2>9 DEF InsertedOnce
  <2>12. GroupIsSynced
    BY <2>2, <2>3 DEF GroupIsSynced, SyncedWhenAcked
  <2>13. QED
    BY <2>5, <2>6, <2>7, <2>8, <2>10, <2>11, <2>12 DEF DataInv
<1>3. ASSUME QueueIInv, DataInv, [WriteNext]_writeAll PROVE (QueueIInv /\ DataInv)'
  <2>1. CASE UNCHANGED writeAll
    <3>1. UNCHANGED <<writeVars, at, bgError, ops, call, writers, group, pending, outcome, dataVars, historyVars>>
      BY <2>1 DEF writeAll, backVars, writeVars, queueVars
    <3>2. QueueIInv'
      BY <1>3, <3>1 DEF QueueIInv, OwnCall, AtWork, IsFirst
    <3>3. QED
      BY <1>3, <3>1, <3>2, StillKeeps
  <2>2. CASE Background /\ UNCHANGED writeVars
    <3>1. UNCHANGED <<at, ops, call, writers, group, pending, outcome, dataVars, historyVars>>
      BY <2>2 DEF writeVars, queueVars
    <3>2. bgError => bgError'
      BY <2>2 DEF Background, BackgroundCallIdle, BackgroundCall, TableBuilt, FlushApplied, FlushFailed,
                  PrioritizeImm, Merged, CompactionInstalled, CompactionFailed, RecordBackgroundError
    <3>3. QueueIInv'
      BY <1>3, <3>1 DEF QueueIInv, OwnCall, AtWork, IsFirst
    <3>4. QED
      BY <1>3, <3>1, <3>2, <3>3, StillKeeps
  <2>3. ASSUME NEW t \in Threads, CallWrite(t) PROVE (QueueIInv /\ DataInv)'
    BY <1>3, <2>3, WriteKeeps, WriteKeepsData
  <2>4. ASSUME NEW t \in Threads, Step(t) PROVE (QueueIInv /\ DataInv)'
    BY <1>3, <2>4, StepKeeps, StepKeepsData
  <2>5. QED
    BY <1>3, <2>1, <2>2, <2>3, <2>4 DEF WriteNext
<1>4. QED
  BY <1>1, <1>2, <1>3, PTL DEF WriteSpec

(* Calls are answered in order, and a write that returned ok is in the      *)
(* database once, whole, while one that failed is not there: nobody else    *)
(* inserts, and an entry inserted twice would be of two groups.             *)
THEOREM AnswersInTurn == WriteSpec => []AnsweredInTurn
<1>1. ASSUME QueueIInv, DataInv PROVE AnsweredInTurn
  <2>. DEFINE places(n, e) == {i \in 1..Len(inserted) : inserted[i].call = n /\ inserted[i].entry = e}
  <2>1. ASSUME NEW m \in 1..Len(ops), NEW n \in 1..Len(ops), m < n, outcome[n] # "none" PROVE outcome[m] # "none"
    <3>1. n <= Answered
      BY <1>1, <2>1 DEF DataInv, QueueIsTail
    <3>2. m <= Answered
      BY <1>1, <2>1, <3>1, OpTypes DEF Answered
    <3>3. QED
      BY <1>1, <3>2 DEF DataInv, QueueIsTail
  <2>2. ASSUME NEW n \in 1..Len(ops), outcome[n] = "ok", NEW e \in 1..ops[n].count
        PROVE  Cardinality(places(n, e)) = 1
    <3>1. PICK i \in 1..Len(inserted) : Pair(inserted[i]) = <<n, e>>
      BY <1>1, <2>2 DEF DataInv, InsertedOnce
    <3>2. i \in places(n, e)
      BY <3>1 DEF Pair
    <3>3. \A j \in places(n, e) : j = i
      BY <1>1, <3>1 DEF DataInv, InsertedOnce, Pair
    <3>4. places(n, e) = {i}
      BY <3>2, <3>3
    <3>5. QED
      BY <3>4, FS_Singleton
  <2>3. ASSUME NEW n \in 1..Len(ops), outcome[n] = "error", NEW i \in 1..Len(inserted), inserted[i].call = n
        PROVE  FALSE
    <3>1. CASE inserted[i].seq > lastSequence
      <4>1. PICK j \in 1..Len(mem) : mem[j] = inserted[i]
        BY <1>1, <3>1 DEF DataInv, InsertedOnce
      <4>2. Pair(inserted[i]) \in Progress
        BY <3>1, <4>1 DEF Progress, Pair
      <4>3. n \in Batches(group)
        BY <1>1, <2>3, <4>2, EntryPairs DEF DataInv, ProgressOfGroup, Pair
      <4>4. n \in (Answered + 1)..(Answered + group)
        BY <1>1, <4>3, BatchesInQueue DEF DataInv, GroupInQueue
      <4>5. n <= Answered
        BY <1>1, <2>3 DEF DataInv, QueueIsTail
      <4>6. QED
        BY <1>1, <4>4, <4>5, OpTypes DEF Answered
    <3>2. CASE ~(inserted[i].seq > lastSequence)
      BY <1>1, <2>3, <3>2 DEF DataInv, InsertedOnce
    <3>3. QED
      BY <3>1, <3>2
  <2>4. QED
    BY <2>1, <2>2, <2>3 DEF AnsweredInTurn
<1>2. QED
  BY <1>1, DataAlways, PTL

(* The entries of a group come in sight together, and only of calls that    *)
(* returned ok.                                                             *)
THEOREM BatchesComeWhole == WriteSpec => []BatchesAreAtomic
<1>1. ASSUME QueueIInv, DataInv PROVE BatchesAreAtomic
  <2>1. ASSUME NEW i \in 1..Len(inserted) PROVE inserted[i].seq <= lastSequence <=> outcome[inserted[i].call] = "ok"
    <3>1. inserted[i].seq \in Nat /\ lastSequence \in Nat /\ inserted[i].call \in 1..Len(ops)
      BY <1>1, EntryTypes DEF DataInv, InsertedOnce
    <3>2. CASE inserted[i].seq > lastSequence
      <4>1. PICK j \in 1..Len(mem) : mem[j] = inserted[i]
        BY <1>1, <3>2 DEF DataInv, InsertedOnce
      <4>2. Pair(inserted[i]) \in Progress
        BY <3>2, <4>1 DEF Progress, Pair
      <4>3. inserted[i].call \in Batches(group)
        BY <1>1, <4>2, EntryPairs DEF DataInv, ProgressOfGroup, Pair
      <4>4. inserted[i].call \in (Answered + 1)..(Answered + group)
        BY <1>1, <4>3, BatchesInQueue DEF DataInv, GroupInQueue
      <4>5. ~(inserted[i].call <= Answered)
        BY <1>1, <3>1, <4>4, OpTypes DEF Answered
      <4>6. outcome[inserted[i].call] = "none"
        BY <1>1, <3>1, <4>5 DEF DataInv, QueueIsTail
      <4>7. QED
        BY <3>1, <3>2, <4>6
    <3>3. CASE ~(inserted[i].seq > lastSequence)
      BY <1>1, <3>1, <3>3 DEF DataInv, InsertedOnce
    <3>4. QED
      BY <3>2, <3>3
  <2>2. QED
    BY <2>1 DEF BatchesAreAtomic
<1>2. QED
  BY <1>1, DataAlways, PTL

(* Replaying the log gives the memtable, entry by entry and number by       *)
(* number, whatever failed in between.                                      *)
THEOREM ReplayGivesMemtable == WriteSpec => []LogGivesMemtable
<1>1. ASSUME QueueIInv, DataInv PROVE LogGivesMemtable
  <2>1. \A i \in 1..(Len(log) - 1) : log[i].first + Entries(log[i].calls) <= log[i + 1].first
    BY <1>1 DEF DataInv, LogIsInOrder, AfterRecord
  <2>2. QED
    BY <1>1, <2>1 DEF DataInv, MemIsReplayed, Replayed, Pair, LogGivesMemtable
<1>2. QED
  BY <1>1, DataAlways, PTL

(* What was acknowledged as synced is, also when another writer synced it;  *)
(* and when a Sync() has failed no write returns ok any more.               *)
THEOREM SyncedAcks == WriteSpec => AcksAreHonest
<1>1. QueueIInv /\ DataInv => SyncedWhenAcked
  BY DEF DataInv, GroupIsSynced
<1>2. ASSUME QueueIInv, DataInv, [WriteNext]_writeAll, syncFailed, NEW n \in 1..Len(ops), outcome[n] = "none",
             outcome'[n] = "ok"
      PROVE  FALSE
  <2>1. \A t \in Threads : at[t] = "end" => ~pending
    BY <1>2 DEF DataInv, GroupIsSynced
  <2>2. \A t \in Threads : \A k : ~Pop(t, k, FALSE)
    BY <1>2 DEF Pop
  <2>3. ASSUME NEW t \in Threads, CallWrite(t) PROVE FALSE
    <3>1. PICK r \in Requests[t] : Write(t, r)
      BY <2>3 DEF CallWrite
    <3>2. outcome' = Append(outcome, "none")
      BY <3>1 DEF Write
    <3>3. QED
      BY <1>2, <3>2 DEF DataInv, QueueIsTail
  <2>4. ASSUME NEW t \in Threads, EndOfWrite(t) PROVE FALSE
    BY <1>2, <2>1, <2>4 DEF EndOfWrite, Pop
  <2>5. ASSUME NEW t \in Threads, RoomMade(t) PROVE FALSE
    <3>1. at[t] = "room" /\ ~bgError
      BY <2>5 DEF RoomMade, InRoom, SwitchMemTable
    <3>2. QED
      BY <1>2, <3>1, NothingUnderWay
  <2>6. ASSUME NEW t \in Threads, RoomDenied(t) \/ SwitchFailed(t) PROVE FALSE
    BY <2>2, <2>6 DEF RoomDenied, SwitchFailed
  <2>7. CASE UNCHANGED outcome
    BY <1>2, <2>7
  <2>8. ASSUME NEW t \in Threads,
               \/ Woken(t) \/ RoomDelayed(t) \/ HasRoom(t) \/ RoomAwaited(t) \/ AddRecord(t) \/ Sync(t)
               \/ InsertEntry(t) \/ InsertDone(t) \/ FlushAwaited(t) \/ FlushReturns(t)
        PROVE  UNCHANGED outcome
    BY <2>8 DEF Woken, RoomDelayed, HasRoom, TakeGroup, RoomAwaited, AddRecord, Sync, InsertEntry, InsertDone,
                FlushAwaited, FlushReturns, writeVars, queueVars
  <2>9. UNCHANGED writeVars => UNCHANGED outcome
    BY DEF writeVars, queueVars
  <2>10. QED
    BY <1>2, <2>3, <2>4, <2>5, <2>6, <2>7, <2>8, <2>9 DEF WriteNext, Step, writeAll
<1>3. QueueIInv /\ DataInv /\ [WriteNext]_writeAll =>
        \A n \in 1..Len(ops) : syncFailed /\ outcome[n] = "none" => outcome'[n] # "ok"
  BY <1>2
<1>4. WriteSpec => NoAckAfterSyncError
  BY <1>3, DataAlways, PTL DEF WriteSpec, NoAckAfterSyncError
<1>5. WriteSpec => []SyncedWhenAcked
  BY <1>1, DataAlways, PTL
<1>6. QED
  BY <1>4, <1>5 DEF AcksAreHonest
=============================================================================
