----------------------------- MODULE WriteQueue -----------------------------
(***************************************************************************)
(* DBImpl::Write (db_impl.cc): the queue of writers, of which the first    *)
(* logs and inserts for itself and for those it takes into its group, and  *)
(* MakeRoomForWrite, which waits for the background thread.                *)
(*                                                                         *)
(* A write is known by its place in ops, the order of the calls.  The      *)
(* first writer releases mutex_ while it writes the log and the memtable:  *)
(* nothing but its place in the queue keeps the others out.                *)
(***************************************************************************)
EXTENDS BackgroundWork, Sequences

CONSTANTS
  Threads,         (* the threads that write                               *)
  Requests,        (* what each of them asks: [sync, null, count]; a null  *)
                   (* batch of no entries comes from TEST_CompactMemTable  *)
  MaxWrites,       (* bound: calls of Write in one behaviour               *)
  MaxGroup,        (* entries a group may have: the max_size of            *)
                   (* BuildBatchGroup                                      *)
  BufferSize,      (* entries of a memtable with room: write_buffer_size   *)
  SlowdownTrigger  (* config::kL0_SlowdownWritesTrigger                    *)

ASSUME RequestsAssumption ==
  Requests \in [Threads -> SUBSET {r \in [sync : BOOLEAN, null : BOOLEAN, count : Nat] : r.null => r.count = 0}]
ASSUME WriteBoundsAssumption ==
  /\ MaxWrites \in Nat /\ MaxGroup \in Nat /\ BufferSize \in Nat
  /\ SlowdownTrigger \in Nat
ASSUME ThreadsAssumption == None \notin Threads /\ Threads \intersect Compactors = {}

VARIABLES
  ops,          (* the calls of Write: [thread, sync, null, count]         *)
  at,           (* at[t]: where thread t is                                *)
  call,         (* call[t]: its last call                                  *)
  writers,      (* writers_, as calls                                      *)
  signalled,    (* calls whose condition variable was signalled            *)
  slept,        (* the first writer was delayed already: ~allow_delay      *)
  group,        (* the length of the group that the first writer logs for  *)
  pending,      (* the status of the group so far is ok                    *)
  lastSequence, (* versions_->LastSequence()                               *)
  log,          (* records of the log file: [first, calls]                 *)
  mem,          (* entries of mem_ in the order of insertion:              *)
                (* [call, entry, seq]                                      *)
  outcome,      (* status of each call: "none", "ok" or "error"            *)
  durable,      (* history: calls whose record was synced                  *)
  inserted,     (* history: all entries ever inserted                      *)
  syncFailed    (* history: a Sync() failed                                *)

queueVars   == <<ops, at, call, writers, signalled, slept, group, pending, outcome>>
dataVars    == <<lastSequence, log, mem>>
historyVars == <<durable, inserted, syncFailed>>
writeVars   == <<queueVars, dataVars, historyVars>>
writeAll    == <<backVars, writeVars>>

-----------------------------------------------------------------------------
InitWrites ==
  /\ ops = << >>
  /\ at = [t \in Threads |-> "idle"]
  /\ call = [t \in Threads |-> 0]
  /\ writers = << >>
  /\ signalled = {}
  /\ slept = FALSE
  /\ group = 0
  /\ pending = TRUE
  /\ outcome = << >>
  /\ lastSequence = 0
  /\ log = << >>
  /\ mem = << >>
  /\ durable = {}
  /\ inserted = << >>
  /\ syncFailed = FALSE

(* The entries of some calls, each known by its call and its place in the  *)
(* batch, and their order in a group.                                       *)
EntriesOf(calls) == UNION {{n} \X (1..ops[n].count) : n \in calls}
Entries(calls) == Cardinality(EntriesOf(calls))
Before(e, f) == e[1] < f[1] \/ (e[1] = f[1] /\ e[2] < f[2])

IsFirst(t) == writers # << >> /\ Head(writers) = call[t]

(* Slip: a synced write may join the group of one that is not.              *)
GroupOfAll ==
  LET joins(j) == Entries({writers[i] : i \in 1..j}) <= MaxGroup
  IN  Cardinality({k \in 1..Len(writers) : \A j \in 2..k : joins(j)})

(* BuildBatchGroup(_): how many writers from the first on, up to one that   *)
(* wants a sync the first does not make, or makes the group too large.      *)
BuildBatchGroup ==
  LET joins(j) == /\ ops[writers[j]].sync => ops[Head(writers)].sync
                  /\ ~ops[writers[j]].null => Entries({writers[i] : i \in 1..j}) <= MaxGroup
  IN  Cardinality({k \in 1..Len(writers) : \A j \in 2..k : joins(j)})

(* Slip: only the batch of the first writer is taken.                       *)
BatchesOfFirst(k) == {n \in {writers[1]} : ~ops[n].null}

(* The calls among the first k writers that have a batch.                   *)
Batches(k) == {n \in {writers[i] : i \in 1..k} : ~ops[n].null}

(* Slip: the new head of the queue is not signalled.                        *)
PopNoSignal(t, k, ok) ==
  /\ writers' = SubSeq(writers, k + 1, Len(writers))
  /\ outcome' = [n \in 1..Len(ops) |->
                   IF \E i \in 1..k : writers[i] = n
                     THEN IF ok THEN "ok" ELSE "error" ELSE outcome[n]]
  /\ signalled' = signalled \union {writers[i] : i \in 2..k}
  /\ at' = [at EXCEPT ![t] = IF ok /\ ops[call[t]].null THEN "immwait" ELSE "idle"]
  /\ slept' = FALSE
  /\ group' = 0
  /\ pending' = TRUE
  /\ UNCHANGED <<ops, call>>

(* The end of Write for the first writer: the first k writers get the       *)
(* status, all but itself are signalled, and so is the new head.            *)
Pop(t, k, ok) ==
  /\ writers' = SubSeq(writers, k + 1, Len(writers))
  /\ outcome' = [n \in 1..Len(ops) |->
                   IF \E i \in 1..k : writers[i] = n
                     THEN IF ok THEN "ok" ELSE "error" ELSE outcome[n]]
  /\ signalled' = signalled \union {writers[i] : i \in 2..Len(writers) \intersect 2..(k + 1)}
  /\ at' = [at EXCEPT ![t] = IF ok /\ ops[call[t]].null THEN "immwait" ELSE "idle"]
  /\ slept' = FALSE
  /\ group' = 0
  /\ pending' = TRUE
  /\ UNCHANGED <<ops, call>>

-----------------------------------------------------------------------------
(* Write is called: the writer joins the queue, and waits unless it is the  *)
(* first.                                                                   *)
Write(t, r) ==
  /\ at[t] = "idle"
  /\ ~shutting
  /\ Len(ops) < MaxWrites
  /\ ops' = Append(ops, [thread |-> t, sync |-> r.sync, null |-> r.null, count |-> r.count])
  /\ outcome' = Append(outcome, "none")
  /\ call' = [call EXCEPT ![t] = Len(ops')]
  /\ writers' = Append(writers, Len(ops'))
  /\ at' = [at EXCEPT ![t] = IF writers = << >> THEN "room" ELSE "wait"]
  /\ UNCHANGED <<backVars, signalled, slept, group, pending, dataVars, historyVars>>

(* A waiting writer is woken: it was done for, is the first, or waits again.*)
Woken(t) ==
  /\ at[t] = "wait" /\ call[t] \in signalled
  /\ signalled' = signalled \ {call[t]}
  /\ at' = [at EXCEPT ![t] =
       IF outcome[call[t]] = "ok" /\ ops[call[t]].null THEN "immwait"
       ELSE IF outcome[call[t]] # "none" THEN "idle"
       ELSE IF IsFirst(t) THEN "room" ELSE "wait"]
  /\ UNCHANGED <<backVars, ops, call, writers, slept, group, pending, outcome,
                 dataVars, historyVars>>

InRoom(t) == at[t] = "room" /\ t \notin asleep

(* MakeRoomForWrite yields the background error.                            *)
RoomDenied(t) ==
  /\ InRoom(t) /\ bgError
  /\ Pop(t, 1, FALSE)
  /\ UNCHANGED <<backVars, dataVars, historyVars>>

Slowdown(t) == ~ops[call[t]].null /\ ~slept /\ l0 >= SlowdownTrigger

(* It sleeps a millisecond without the mutex, once.                         *)
RoomDelayed(t) ==
  /\ InRoom(t) /\ ~bgError /\ Slowdown(t)
  /\ slept' = TRUE
  /\ UNCHANGED <<backVars, ops, at, call, writers, signalled, group, pending,
                 outcome, dataVars, historyVars>>

(* The writer has room: it takes its group and releases the mutex, or is    *)
(* through when there is no batch.                                          *)
TakeGroup(t) ==
  /\ group' = BuildBatchGroup
  /\ at' = [at EXCEPT ![t] = "log"]
  /\ UNCHANGED <<ops, call, writers, signalled, slept, pending, outcome>>

Crowded(t) == ops[call[t]].null \/ Len(mem) > BufferSize

HasRoom(t) ==
  /\ InRoom(t) /\ ~bgError /\ ~Slowdown(t) /\ ~Crowded(t)
  /\ TakeGroup(t)
  /\ UNCHANGED <<backVars, dataVars, historyVars>>

(* It waits on bg_cv_ for the flush of imm_, or for fewer level-0 files.    *)
RoomAwaited(t) ==
  /\ InRoom(t) /\ ~bgError /\ ~Slowdown(t) /\ Crowded(t)
  /\ imm \/ l0 >= StopTrigger
  /\ asleep' = asleep \union {t}
  /\ UNCHANGED <<lsmVars, bgError, bgVars, manual, request, endVars, writeVars>>

(* The new log file cannot be made.                                         *)
SwitchFailed(t) ==
  /\ InRoom(t) /\ ~bgError /\ ~Slowdown(t) /\ Crowded(t)
  /\ ~imm /\ l0 < StopTrigger
  /\ Pop(t, 1, FALSE)
  /\ UNCHANGED <<backVars, dataVars, historyVars>>

(* A new log and memtable; then there is room.                              *)
RoomMade(t) ==
  /\ InRoom(t) /\ ~Slowdown(t) /\ Crowded(t)
  /\ SwitchMemTable
  /\ mem' = << >>
  /\ log' = << >>
  /\ IF ops[call[t]].null THEN Pop(t, 1, TRUE) ELSE TakeGroup(t)
  /\ UNCHANGED <<lastSequence, historyVars>>

(* log_->AddRecord, without the mutex.  A record whose AddRecord failed may *)
(* be in the file.                                                          *)
AddRecord(t) ==
  /\ at[t] = "log"
  /\ \E ok, there \in BOOLEAN :
       /\ ok => there
       /\ pending' = ok
       /\ log' = IF there
                   THEN Append(log, [first |-> lastSequence + 1, calls |-> Batches(group)])
                   ELSE log
       /\ at' = [at EXCEPT ![t] = IF ~ok THEN "end"
                                  ELSE IF ops[call[t]].sync THEN "sync" ELSE "insert"]
  /\ UNCHANGED <<backVars, ops, call, writers, signalled, slept, group, outcome,
                 lastSequence, mem, historyVars>>

(* logfile_->Sync().                                                        *)
Sync(t) ==
  /\ at[t] = "sync"
  /\ \/ /\ at' = [at EXCEPT ![t] = "insert"]
        /\ durable' = durable \union UNION {log[i].calls : i \in DOMAIN log}
        /\ UNCHANGED <<pending, syncFailed>>
     \/ /\ at' = [at EXCEPT ![t] = "end"]
        /\ pending' = FALSE
        /\ syncFailed' = TRUE
        /\ UNCHANGED durable
  /\ UNCHANGED <<backVars, ops, call, writers, signalled, slept, group, outcome,
                 dataVars, inserted>>

(* The entries of the group that are in the memtable already, and those to  *)
(* come.                                                                    *)
Progress == {<<mem[i].call, mem[i].entry>> : i \in {k \in 1..Len(mem) : mem[k].seq > lastSequence}}
Remaining == EntriesOf(Batches(group)) \ Progress

(* WriteBatchInternal::InsertInto, one entry: the next of the group.        *)
InsertEntry(t) ==
  /\ at[t] = "insert"
  /\ \E e \in Remaining :
       /\ \A f \in Remaining : f = e \/ Before(e, f)
       /\ mem' = Append(mem, [call |-> e[1], entry |-> e[2], seq |-> lastSequence + Cardinality(Progress) + 1])
       /\ inserted' = Append(inserted, mem'[Len(mem')])
  /\ UNCHANGED <<backVars, queueVars, lastSequence, log, durable, syncFailed>>

(* It ends.  It fails for a batch that is no sequence of entries, which     *)
(* WriteBatch makes none of.                                                *)
InsertDone(t) ==
  /\ at[t] = "insert"
  /\ Remaining = {}
  /\ at' = [at EXCEPT ![t] = "end"]
  /\ UNCHANGED <<backVars, ops, call, writers, signalled, slept, group, pending,
                 outcome, dataVars, historyVars>>

(* Slip: the sequence numbers of a failed write are used again.             *)
EndOfWriteReuses(t) ==
  /\ at[t] = "end"
  /\ lastSequence' = IF pending THEN lastSequence + Entries(Batches(group)) ELSE lastSequence
  /\ IF ~pending /\ syncFailed
       THEN RecordBackgroundError /\ UNCHANGED <<lsmVars, bgVars, manual, request, endVars>>
       ELSE UNCHANGED backVars
  /\ Pop(t, group, pending)
  /\ UNCHANGED <<log, mem, historyVars>>

(* Slip: the sequence moves by the batches of the group, not their entries. *)
EndOfWriteShort(t) ==
  /\ at[t] = "end"
  /\ lastSequence' = lastSequence + Cardinality(Batches(group))
  /\ IF ~pending /\ syncFailed
       THEN RecordBackgroundError /\ UNCHANGED <<lsmVars, bgVars, manual, request, endVars>>
       ELSE UNCHANGED backVars
  /\ Pop(t, group, pending)
  /\ UNCHANGED <<log, mem, historyVars>>

(* Slip: a failed Sync() is an error of this write only.                    *)
EndOfWriteForgets(t) ==
  /\ at[t] = "end"
  /\ lastSequence' = lastSequence + Entries(Batches(group))
  /\ UNCHANGED backVars
  /\ Pop(t, group, pending)
  /\ UNCHANGED <<log, mem, historyVars>>

(* Back under the mutex: a failed Sync() is a background error, the last    *)
(* sequence moves on whatever the status, and the group is done.            *)
EndOfWrite(t) ==
  /\ at[t] = "end"
  /\ lastSequence' = lastSequence + Entries(Batches(group))
  /\ IF ~pending /\ syncFailed
       THEN RecordBackgroundError /\ UNCHANGED <<lsmVars, bgVars, manual, request, endVars>>
       ELSE UNCHANGED backVars
  /\ Pop(t, group, pending)
  /\ UNCHANGED <<log, mem, historyVars>>

(* TEST_CompactMemTable after its Write: wait until the flush completes.    *)
FlushAwaited(t) ==
  /\ at[t] = "immwait" /\ t \notin asleep
  /\ imm /\ ~bgError
  /\ asleep' = asleep \union {t}
  /\ UNCHANGED <<lsmVars, bgError, bgVars, manual, request, endVars, writeVars>>

FlushReturns(t) ==
  /\ at[t] = "immwait" /\ t \notin asleep
  /\ ~imm \/ bgError
  /\ at' = [at EXCEPT ![t] = "idle"]
  /\ UNCHANGED <<backVars, ops, call, writers, signalled, slept, group, pending,
                 outcome, dataVars, durable, inserted, syncFailed>>

Step(t) ==
  \/ Woken(t)
  \/ RoomDenied(t) \/ RoomDelayed(t) \/ HasRoom(t) \/ RoomAwaited(t)
  \/ SwitchFailed(t) \/ RoomMade(t)
  \/ AddRecord(t) \/ Sync(t) \/ InsertEntry(t) \/ InsertDone(t) \/ EndOfWrite(t)
  \/ FlushAwaited(t) \/ FlushReturns(t)

CallWrite(t) == \E r \in Requests[t] : Write(t, r)

WriteNext ==
  \/ \E t \in Threads : CallWrite(t) \/ Step(t)
  \/ Background /\ UNCHANGED writeVars

WriteInit == InitBackground /\ InitWrites

(* A thread in a call runs when it is not asleep: the locks are fair enough *)
(* to let it in, and files answer.  Each compaction takes data to a deeper  *)
(* level: with what the calls have written no level is too large for ever.  *)
LevelsRunOut == CompactionInstalled /\ ~deep' /\ UNCHANGED writeVars

WriteSpec ==
  /\ WriteInit /\ [][WriteNext]_writeAll
  /\ WF_writeAll(Background /\ UNCHANGED writeVars)
  /\ \A t \in Threads : WF_writeAll(Step(t))
  /\ SF_writeAll(LevelsRunOut)

-----------------------------------------------------------------------------
(* Log and memtable are written without the mutex, by one thread at a time, *)
(* the first of the queue ("&w is currently responsible for logging and     *)
(* protects against concurrent loggers and concurrent writes into mem_").   *)
AtWork(t) == at[t] \in {"room", "log", "sync", "insert", "end"}
OneLogger ==
  \A t \in Threads :
    AtWork(t) => IsFirst(t) /\ \A u \in Threads \ {t} : ~AtWork(u)

(* Calls are answered in the order in which they were made, and a write     *)
(* that returned ok is in the database once, whole, while one that failed   *)
(* is not there, whatever group carried it.                                 *)
AnsweredInTurn ==
  /\ \A m, n \in 1..Len(ops) : m < n /\ outcome[n] # "none" => outcome[m] # "none"
  /\ \A n \in 1..Len(ops) :
       LET places(e) == {i \in 1..Len(inserted) : inserted[i].call = n /\ inserted[i].entry = e}
       IN  /\ outcome[n] = "ok" => \A e \in 1..ops[n].count : Cardinality(places(e)) = 1
           /\ outcome[n] = "error" => \A e \in 1..ops[n].count : places(e) = {}

(* Nobody reads half a batch: a reader sees the entries up to LastSequence, *)
(* and those of a group come in sight together.                             *)
BatchesAreAtomic ==
  \A i \in 1..Len(inserted) :
    inserted[i].seq <= lastSequence <=> outcome[inserted[i].call] = "ok"

(* Replaying the log gives the memtable: no two records share a number      *)
(* (those of a failed write are not used again), numbers grow along the     *)
(* memtable, and every entry of it has the number that a replay of its      *)
(* record gives it.                                                         *)
LogGivesMemtable ==
  /\ \A i \in 1..(Len(log) - 1) : log[i].first + Entries(log[i].calls) <= log[i + 1].first
  /\ \A i \in 1..(Len(mem) - 1) : mem[i].seq < mem[i + 1].seq
  /\ \A i \in 1..Len(mem) : \E j \in 1..Len(log) :
       LET e        == <<mem[i].call, mem[i].entry>>
           replayed == EntriesOf(log[j].calls)
       IN  e \in replayed /\ mem[i].seq = log[j].first + Cardinality({f \in replayed : Before(f, e)})

(* A write that asked for a sync and returned ok was synced, also when      *)
(* another writer logged it.                                                *)
SyncedWhenAcked ==
  \A n \in 1..Len(ops) :
    outcome[n] = "ok" /\ ops[n].sync /\ ~ops[n].null => n \in durable

(* After a failed Sync() the log is in doubt: no write returns ok any more  *)
(* ("we force the DB into a mode where all future writes fail").            *)
NoAckAfterSyncError ==
  [][\A n \in 1..Len(ops) :
       syncFailed /\ outcome[n] = "none" => outcome'[n] # "ok"]_writeAll

(* Both: ok means what it says, and the doubt is never acknowledged away.   *)
AcksAreHonest == []SyncedWhenAcked /\ NoAckAfterSyncError

(* Every call of Write returns: no signal is lost between writers, and one  *)
(* that waits for room gets it or an error.                                 *)
EveryWriteReturns == \A t \in Threads : at[t] # "idle" ~> at[t] = "idle"

=============================================================================
