------------------------------ MODULE MCEngine ------------------------------
(***************************************************************************)
(* Threads of leveldb in one run.  A behaviour is one of writers with the  *)
(* background thread (WriteQueue), of callers of CompactRange and the      *)
(* destructor with the background thread and writers that come without end *)
(* (BackgroundWork), or of the scheduler of the environment.               *)
(*                                                                         *)
(* Three writers: one asks for syncs, one does not, and the third is       *)
(* TEST_CompactMemTable with its null batch, or writes too.  Batches of one *)
(* entry and of two.  Two threads in CompactRange.                          *)
(***************************************************************************)
EXTENDS WriteQueue

CONSTANTS w1, w2, w3, t1, t2

VARIABLES part, queue_, submitted, ran, mu_, caller, bgthread_

MCThreads == {w1, w2, w3}
MCCompactors == {t1, t2}

Synced   == [sync |-> TRUE, null |-> FALSE, count |-> 1]
Unsynced == [sync |-> FALSE, null |-> FALSE, count |-> 2]
Flush    == [sync |-> FALSE, null |-> TRUE, count |-> 0]

MCRequests == [t \in MCThreads |-> IF t = w1 THEN {Synced} ELSE
                                   IF t = w2 THEN {Unsynced} ELSE {Flush, Synced}]

Env == INSTANCE PosixSchedule WITH Callers <- {t1, t2}, MaxItems <- 3, scheduled <- submitted

-----------------------------------------------------------------------------
envVars    == <<queue_, submitted, ran, mu_, caller, bgthread_>>
engineVars == <<part, writeAll, envVars>>

EngineInit ==
  /\ part \in {"writers", "callers", "scheduler"}
  /\ WriteInit /\ Env!Init

OfWriters(A)   == part = "writers" /\ A /\ UNCHANGED <<part, envVars>>
OfCallers(A)   == part = "callers" /\ A /\ UNCHANGED <<part, writeVars, envVars>>
OfScheduler(A) == part = "scheduler" /\ A /\ UNCHANGED <<part, writeAll>>

EngineNext == OfWriters(WriteNext) \/ OfCallers(Next) \/ OfScheduler(Env!Next)

(* The fairness of WriteSpec, of BackgroundWork's Spec and of the scheduler, *)
(* thread by thread: a behaviour is of one part, so that one condition may   *)
(* stand for one of each.                                                    *)
FairBackground ==
  \/ OfWriters(Background /\ UNCHANGED writeVars)
  \/ OfCallers(~trapped /\ Background)
  \/ OfScheduler(Env!Wait \/ Env!Pop \/ Env!FunctionReturns)
FairThread(w, t) ==
  \/ OfWriters(Step(w))
  \/ OfCallers(~trapped /\ (CompactRangeWaits(t) \/ CompactRangeReturns(t)))
  \/ OfScheduler(Env!Signal(t) \/ Env!Push(t))
FairOther ==
  \/ OfWriters(Step(w3))
  \/ OfCallers(~trapped /\ Destroyed)

EngineSpec ==
  /\ EngineInit /\ [][EngineNext]_engineVars
  /\ WF_engineVars(FairBackground)
  /\ WF_engineVars(FairThread(w1, t1)) /\ WF_engineVars(FairThread(w2, t2)) /\ WF_engineVars(FairOther)
  /\ SF_engineVars(OfWriters(LevelsRunOut)) /\ SF_engineVars(OfScheduler(Env!LockMutex))

-----------------------------------------------------------------------------
(* Every item that is scheduled runs, in the order of the calls: no signal  *)
(* is lost between a look at the empty queue and the wait for one.          *)
EveryItemRuns == Env!EveryItemRuns
=============================================================================
