--------------------------- MODULE BackgroundWork ---------------------------
(***************************************************************************)
(* The background thread of a leveldb database and what wakes it           *)
(* (db_impl.cc): flushes of the immutable memtable, compactions picked by  *)
(* the version set, compactions asked for by CompactRange, the background  *)
(* error, and the destructor.                                              *)
(*                                                                         *)
(* mutex_ protects all of this state, so that one action is the code from  *)
(* one acquisition to the next release or wait.  The mutex is released     *)
(* while a table is built, while the manifest is written and while a       *)
(* compaction merges: each of those has an action for what comes after it. *)
(***************************************************************************)
EXTENDS Integers, FiniteSets

CONSTANTS
  Compactors,   (* the threads that call CompactRange                      *)
  Trigger,      (* config::kL0_CompactionTrigger                           *)
  StopTrigger,  (* config::kL0_StopWritesTrigger                           *)
  MaxRounds,    (* bound: compactions that one CompactRange level takes    *)
  None          (* NULL                                                    *)

ASSUME TriggerAssumption == Trigger \in Nat \ {0}
ASSUME StopAssumption == StopTrigger \in Nat /\ StopTrigger >= Trigger
ASSUME RoundsAssumption == MaxRounds \in Nat
ASSUME NoneAssumption == None \notin Compactors \union {"manual", "deep", "l0"}

VARIABLES
  imm,        (* imm_ is there                                             *)
  l0,         (* versions_->NumLevelFiles(0)                               *)
  deep,       (* a deeper level is too large, or a file was sought too     *)
              (* often: the other reasons of NeedsCompaction               *)
  bgError,    (* bg_error_ is not ok                                       *)
  scheduled,  (* bg_compaction_scheduled_                                  *)
  bg,         (* where the background thread is                            *)
  picked,     (* the compaction it works on, or None                       *)
  manual,     (* manual_compaction_: the thread whose request it is        *)
  request,    (* request[t]: the ManualCompaction of t                     *)
  asleep,     (* the threads waiting on bg_cv_ and not signalled           *)
  shutting,   (* shutting_down_                                            *)
  closed,     (* the destructor is past its wait                           *)
  trapped     (* manual_compaction_ was used after it was reset            *)

bgVars   == <<scheduled, bg, picked>>
lsmVars  == <<imm, l0, deep>>
endVars  == <<shutting, closed, trapped>>
backVars == <<lsmVars, bgError, bgVars, manual, request, asleep, endVars>>

-----------------------------------------------------------------------------
NeedsCompaction == deep \/ l0 >= Trigger

WorkToDo == imm \/ manual # None \/ NeedsCompaction

(* Slip: a request of CompactRange is no work.                              *)
ScheduleForDataOnly(already) ==
  scheduled' = (already \/ (~shutting' /\ ~bgError' /\ (imm' \/ NeedsCompaction')))

(* MaybeScheduleCompaction(), as the last thing of an action.               *)
MaybeScheduleCompaction(already) ==
  scheduled' = (already \/ (~shutting' /\ ~bgError' /\ WorkToDo'))

SignalAll == asleep' = {}

(* RecordBackgroundError: the first error wakes everybody.                  *)
RecordBackgroundError ==
  /\ bgError' = TRUE
  /\ asleep' = IF bgError THEN asleep ELSE {}

InitBackground ==
  /\ imm = FALSE
  /\ l0 = 0
  /\ deep = FALSE
  /\ bgError = FALSE
  /\ scheduled = FALSE
  /\ bg = "off"
  /\ picked = None
  /\ manual = None
  /\ request = [t \in Compactors |-> [at |-> "idle", done |-> FALSE, left |-> 0]]
  /\ asleep = {}
  /\ shutting = FALSE
  /\ closed = FALSE
  /\ trapped = FALSE

-----------------------------------------------------------------------------
(* The background thread.                                                   *)

(* The end of BackgroundCall.                                               *)
EndOfCall ==
  /\ bg' = "off"
  /\ picked' = None
  /\ MaybeScheduleCompaction(FALSE)
  /\ SignalAll

(* BackgroundCall with nothing to do: an error, a shutdown, no compaction   *)
(* picked, or a range with no file left in it.                              *)
BackgroundCallIdle ==
  /\ scheduled /\ bg = "off"
  /\ \/ /\ shutting \/ bgError \/ (~imm /\ manual = None /\ ~NeedsCompaction)
        /\ UNCHANGED <<manual, request>>
     \/ /\ ~shutting /\ ~bgError /\ ~imm /\ manual # None
        /\ request[manual].left = 0
        /\ request' = [request EXCEPT ![manual].done = TRUE]
        /\ manual' = None
  /\ UNCHANGED <<lsmVars, bgError, endVars>>
  /\ EndOfCall

(* Slip: a compaction may go before the flush.                              *)
BackgroundCallUnordered ==
  /\ scheduled /\ bg = "off"
  /\ ~shutting /\ ~bgError
  /\ \/ imm /\ l0 < Trigger /\ bg' = "building" /\ UNCHANGED picked
     \/ /\ manual # None /\ request[manual].left > 0
        /\ bg' = "merging" /\ picked' = "manual"
     \/ /\ manual = None
        /\ \/ deep /\ picked' = "deep"
           \/ l0 >= Trigger /\ picked' = "l0"
        /\ bg' = "installing"
  /\ UNCHANGED <<lsmVars, bgError, scheduled, manual, request, asleep, endVars>>

(* BackgroundCall with work: a flush goes before any compaction, a request  *)
(* before what the version set picks.                                       *)
BackgroundCall ==
  /\ scheduled /\ bg = "off"
  /\ ~shutting /\ ~bgError
  /\ \/ imm /\ bg' = "building" /\ UNCHANGED picked
     \/ /\ ~imm /\ manual # None /\ request[manual].left > 0
        /\ bg' = "merging" /\ picked' = "manual"
     \/ /\ ~imm /\ manual = None
        /\ \/ deep /\ picked' = "deep"
           \/ l0 >= Trigger /\ picked' = "l0"
        /\ bg' \in {"merging", "installing"}     (* a trivial move merges nothing *)
  /\ UNCHANGED <<lsmVars, bgError, scheduled, manual, request, asleep, endVars>>

(* CompactMemTable() returns: to the loop of a compaction, which signals,   *)
(* or to the end of the call.                                               *)
LeaveFlush ==
  IF picked # None
    THEN bg' = "merging" /\ SignalAll /\ UNCHANGED <<scheduled, picked>>
    ELSE EndOfCall

(* CompactMemTable() after BuildTable.                                      *)
TableBuilt ==
  /\ bg = "building"
  /\ ~shutting
  /\ bg' = "applying"
  /\ UNCHANGED <<lsmVars, bgError, scheduled, picked, manual, request, asleep,
                 endVars>>

(* CompactMemTable() after LogAndApply: the table is in level 0 or below.   *)
(* Finalize looks at the levels of the new version, in which no file was    *)
(* sought.                                                                  *)
FlushApplied ==
  /\ bg = "applying"
  /\ imm' = FALSE
  /\ l0' \in {l0, l0 + 1}
  /\ deep' \in BOOLEAN
  /\ UNCHANGED <<bgError, manual, request, endVars>>
  /\ LeaveFlush

(* CompactMemTable() when the table, the manifest or a shutdown fails it.   *)
FlushFailed ==
  /\ bg \in {"building", "applying"}
  /\ bgError' = TRUE
  /\ UNCHANGED <<lsmVars, manual, request, endVars>>
  /\ LeaveFlush

(* DoCompactionWork sees has_imm_ in its loop.                              *)
PrioritizeImm ==
  /\ bg = "merging" /\ imm /\ ~shutting
  /\ bg' = "building"
  /\ UNCHANGED <<lsmVars, bgError, scheduled, picked, manual, request, asleep,
                 endVars>>

(* DoCompactionWork has merged its input.                                   *)
Merged ==
  /\ bg = "merging" /\ ~shutting
  /\ bg' = "installing"
  /\ UNCHANGED <<lsmVars, bgError, scheduled, picked, manual, request, asleep,
                 endVars>>

(* The tail of BackgroundCompaction for a request, which is read again: m   *)
(* is done after an error, and otherwise has less left.                     *)
ManualTail(ok) ==
  IF picked # "manual"
    THEN UNCHANGED <<manual, request, trapped>>
    ELSE /\ trapped' = (manual = None)
         /\ request' = IF manual = None THEN request
                       ELSE [request EXCEPT ![manual].done = ~ok,
                                            ![manual].left = @ - 1]
         /\ manual' = None

(* LogAndApply of the compaction: fewer files in its level, and the level   *)
(* below may be too large now.  A request may be for level 0, and a file of *)
(* level 0 may have been sought too often.                                  *)
CompactionInstalled ==
  /\ bg = "installing"
  /\ l0' \in 0..(IF picked = "l0" THEN l0 - 1 ELSE l0)
  /\ deep' \in BOOLEAN
  /\ UNCHANGED <<imm, bgError, shutting, closed>>
  /\ ManualTail(TRUE)
  /\ EndOfCall

(* Merging, finishing an output or writing the manifest fails, or the       *)
(* database is shutting down.                                               *)
CompactionFailed ==
  /\ bg \in {"merging", "installing"}
  /\ bgError' = TRUE
  /\ UNCHANGED <<lsmVars, shutting, closed>>
  /\ ManualTail(FALSE)
  /\ EndOfCall

Background ==
  \/ BackgroundCallIdle
  \/ BackgroundCall
  \/ TableBuilt
  \/ FlushApplied
  \/ FlushFailed
  \/ PrioritizeImm
  \/ Merged
  \/ CompactionInstalled
  \/ CompactionFailed

-----------------------------------------------------------------------------
(* The callers.                                                             *)

(* TEST_CompactRange(level, begin, end) is called: left is the number of    *)
(* compactions that the files of the range will take.                       *)
CompactRange(t) ==
  /\ request[t].at = "idle"
  /\ ~shutting
  /\ \E n \in 0..MaxRounds :
       request' = [request EXCEPT ![t] = [at |-> "loop", done |-> FALSE, left |-> n]]
  /\ UNCHANGED <<lsmVars, bgError, bgVars, manual, asleep, endVars>>

Awake(t) == request[t].at = "loop" /\ t \notin asleep

Leaves(t) == request[t].done \/ shutting \/ bgError

(* Its loop, until it waits.                                                *)
CompactRangeWaits(t) ==
  /\ Awake(t) /\ ~Leaves(t)
  /\ manual' = IF manual = None THEN t ELSE manual
  /\ asleep' = asleep \union {t}
  /\ UNCHANGED <<lsmVars, bgError, bg, picked, request, endVars>>
  /\ IF manual = None THEN MaybeScheduleCompaction(scheduled) ELSE UNCHANGED scheduled

(* It returns, and cancels its request when it aborted early.               *)
CompactRangeReturns(t) ==
  /\ Awake(t) /\ Leaves(t)
  /\ request' = [request EXCEPT ![t].at = "idle"]
  /\ manual' = IF manual = t THEN None ELSE manual
  /\ UNCHANGED <<lsmVars, bgError, bgVars, asleep, endVars>>

(* RecordReadSample and Get: a file was sought too often.                   *)
RecordReadSample ==
  /\ ~shutting
  /\ deep' = TRUE
  /\ UNCHANGED <<imm, l0, bgError, bg, picked, manual, request, asleep, endVars>>
  /\ MaybeScheduleCompaction(scheduled)

(* A writer makes the memtable immutable: the end of MakeRoomForWrite.      *)
SwitchMemTable ==
  /\ ~bgError /\ ~imm /\ l0 < StopTrigger
  /\ imm' = TRUE
  /\ UNCHANGED <<l0, deep, bgError, bg, picked, manual, request, asleep, endVars>>
  /\ MaybeScheduleCompaction(scheduled)

(* A writer's Sync() fails.                                                 *)
SyncError ==
  /\ ~shutting
  /\ RecordBackgroundError
  /\ UNCHANGED <<lsmVars, bgVars, manual, request, endVars>>

NobodyInside == \A t \in Compactors : request[t].at = "idle"

(* ~DBImpl(), once no thread is in a call.                                  *)
Destroy ==
  /\ ~shutting /\ NobodyInside
  /\ shutting' = TRUE
  /\ UNCHANGED <<lsmVars, bgError, bgVars, manual, request, asleep, closed, trapped>>

(* Slip: the destructor does not wait for the background thread.            *)
DestroyedAtOnce ==
  /\ shutting /\ ~closed
  /\ closed' = TRUE
  /\ UNCHANGED <<lsmVars, bgError, bgVars, manual, request, asleep, shutting, trapped>>

(* Its wait is over, and it deletes the database.                           *)
Destroyed ==
  /\ shutting /\ ~closed
  /\ ~scheduled
  /\ closed' = TRUE
  /\ UNCHANGED <<lsmVars, bgError, bgVars, manual, request, asleep, shutting, trapped>>

(* What the writers do to the background: WriteQueue has them in full.      *)
Writers == ~shutting /\ (SwitchMemTable \/ SyncError)

Callers ==
  \/ \E t \in Compactors :
       CompactRange(t) \/ CompactRangeWaits(t) \/ CompactRangeReturns(t)
  \/ RecordReadSample
  \/ Destroy
  \/ Destroyed

Next == ~trapped /\ (Background \/ Callers \/ Writers)

(* The background thread runs when it is scheduled, its file operations end *)
(* in success or failure, and an awakened thread gets the mutex.            *)
BackgroundFairness == WF_backVars(~trapped /\ Background)

Spec ==
  /\ InitBackground /\ [][Next]_backVars
  /\ BackgroundFairness
  /\ \A t \in Compactors :
       WF_backVars(~trapped /\ (CompactRangeWaits(t) \/ CompactRangeReturns(t)))
  /\ WF_backVars(~trapped /\ Destroyed)

-----------------------------------------------------------------------------
Request == [at : {"idle", "loop"}, done : BOOLEAN, left : 0..MaxRounds]

(* Those that sleep on bg_cv_ are threads in CompactRange and writers.       *)
BackgroundTypeOK(sleepers) ==
  /\ imm \in BOOLEAN
  /\ l0 \in Nat
  /\ deep \in BOOLEAN
  /\ bgError \in BOOLEAN
  /\ scheduled \in BOOLEAN
  /\ bg \in {"off", "building", "applying", "merging", "installing"}
  /\ picked \in {None, "manual", "deep", "l0"}
  /\ manual \in Compactors \union {None}
  /\ request \in [Compactors -> Request]
  /\ asleep \subseteq sleepers
  /\ shutting \in BOOLEAN
  /\ closed \in BOOLEAN
  /\ trapped \in BOOLEAN

(* Work is never forgotten: whenever there is a flush, a request or a       *)
(* compaction to do, and neither an error nor a shutdown forbids it, the    *)
(* background thread is scheduled, whoever made the work and however it     *)
(* fell between the thread's own look and its return.                       *)
WorkIsScheduled ==
  WorkToDo /\ ~bgError /\ ~shutting => scheduled

(* Nothing of the background is under way or to come once the destructor    *)
(* has deleted what it works on.                                            *)
QuietWhenDestroyed ==
  closed => bg = "off" /\ ~scheduled

(* A thread sleeps on bg_cv_ only while someone is going to signal it.      *)
SleepersAreWoken == asleep # {} => scheduled

(* An immutable memtable does not stay: it is flushed, or the background    *)
(* error tells the writers.                                                 *)
ImmIsFlushed == imm ~> (~imm \/ bgError \/ shutting \/ trapped)

(* CompactRange returns, through errors, shutdowns and picked compactions,  *)
(* once the memtable no longer fills and no other request comes: flushes go *)
(* before it, and another caller may take the one slot first.               *)
CompactRangeEnds ==
  \A t \in Compactors :
    LET alone == ~imm /\ \A u \in Compactors \ {t} : request[u].at = "idle"
    IN  <>[]alone => (request[t].at = "loop" ~> (request[t].at = "idle" \/ trapped))

(* Both: what waits for the background thread does not wait for ever.       *)
BackgroundWorkEnds == ImmIsFlushed /\ CompactRangeEnds

=============================================================================
