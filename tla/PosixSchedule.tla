--------------------------- MODULE PosixSchedule ---------------------------
(***************************************************************************)
(* leveldb: the background thread of the environment (Schedule, BGThread   *)
(* and StartThread of util/env_posix.cc), of which BackgroundWork counts   *)
(* on one thing only: that what is scheduled runs, one item after another. *)
(***************************************************************************)
EXTENDS Naturals, Sequences

CONSTANTS
  Callers,         (* threads that schedule                                *)
  MaxItems         (* items scheduled                                      *)

VARIABLES
  queue_,          (* items, numbered as they are scheduled                *)
  scheduled,       (* how many                                             *)
  ran,             (* items whose function returned, in that order         *)
  mu_,             (* who has the mutex                                    *)
  caller,          (* caller -> where it is in Schedule                    *)
  bgthread_        (* [at, item] of the background thread                  *)

scheduleVars == <<queue_, scheduled, ran, mu_, caller, bgthread_>>

Free == "free"
BG == "background thread"

Init ==
  /\ queue_ = << >> /\ scheduled = 0 /\ ran = << >>
  /\ mu_ = Free
  /\ caller = [c \in Callers |-> "idle"]
  /\ bgthread_ = [at |-> "not started", item |-> 0]

-----------------------------------------------------------------------------
(* Schedule: the thread is started, and woken when the queue is empty.      *)
Lock(c) ==
  /\ caller[c] = "idle" /\ scheduled < MaxItems
  /\ mu_ = Free /\ mu_' = c
  /\ caller' = [caller EXCEPT ![c] = "locked"]
  /\ UNCHANGED <<queue_, scheduled, ran, bgthread_>>

Woken == IF bgthread_.at = "waits" THEN [bgthread_ EXCEPT !.at = "woken"] ELSE bgthread_

(* Slip: the signal waits for the queue to have one item.                   *)
SignalWhenQueued(c) ==
  /\ caller[c] = "locked"
  /\ caller' = [caller EXCEPT ![c] = "signalled"]
  /\ bgthread_' = IF bgthread_.at = "not started" THEN [bgthread_ EXCEPT !.at = "locks"]
                  ELSE IF Len(queue_) = 1 THEN Woken ELSE bgthread_
  /\ UNCHANGED <<queue_, scheduled, ran, mu_>>

Signal(c) ==
  /\ caller[c] = "locked"
  /\ caller' = [caller EXCEPT ![c] = "signalled"]
  /\ bgthread_' = IF bgthread_.at = "not started" THEN [bgthread_ EXCEPT !.at = "locks"]
                  ELSE IF queue_ = << >> THEN Woken ELSE bgthread_
  /\ UNCHANGED <<queue_, scheduled, ran, mu_>>

Push(c) ==
  /\ caller[c] = "signalled"
  /\ scheduled' = scheduled + 1
  /\ queue_' = Append(queue_, scheduled + 1)
  /\ mu_' = Free
  /\ caller' = [caller EXCEPT ![c] = "idle"]
  /\ UNCHANGED <<ran, bgthread_>>

-----------------------------------------------------------------------------
(* BGThread.                                                                *)
LockMutex ==
  /\ bgthread_.at \in {"locks", "woken"}
  /\ mu_ = Free
  /\ mu_' = BG
  /\ bgthread_' = [bgthread_ EXCEPT !.at = "looks"]
  /\ UNCHANGED <<queue_, scheduled, ran, caller>>

Wait ==
  /\ bgthread_.at = "looks" /\ queue_ = << >>
  /\ mu_' = Free
  /\ bgthread_' = [bgthread_ EXCEPT !.at = "waits"]
  /\ UNCHANGED <<queue_, scheduled, ran, caller>>

(* pthread_cond_wait may also return without a signal.                      *)
SpuriousWakeup ==
  /\ bgthread_.at = "waits"
  /\ bgthread_' = Woken
  /\ UNCHANGED <<queue_, scheduled, ran, mu_, caller>>

Pop ==
  /\ bgthread_.at = "looks" /\ queue_ # << >>
  /\ mu_' = Free
  /\ bgthread_' = [at |-> "runs", item |-> Head(queue_)]
  /\ queue_' = Tail(queue_)
  /\ UNCHANGED <<scheduled, ran, caller>>

(* The function may schedule too: as one of the callers.                    *)
FunctionReturns ==
  /\ bgthread_.at = "runs"
  /\ ran' = Append(ran, bgthread_.item)
  /\ bgthread_' = [at |-> "locks", item |-> 0]
  /\ UNCHANGED <<queue_, scheduled, mu_, caller>>

BGThread == LockMutex \/ Wait \/ Pop \/ FunctionReturns
Schedule(c) == Lock(c) \/ Signal(c) \/ Push(c)

Next == BGThread \/ SpuriousWakeup \/ \E c \in Callers : Schedule(c)

(* The mutex is held for a few steps and is free again and again: a thread  *)
(* that wants it gets it at some time.                                      *)
Fairness ==
  /\ SF_scheduleVars(LockMutex)
  /\ WF_scheduleVars(Wait \/ Pop \/ FunctionReturns)
  /\ \A c \in Callers : WF_scheduleVars(Signal(c) \/ Push(c))

Spec == Init /\ [][Next]_scheduleVars /\ Fairness

-----------------------------------------------------------------------------
(* Every item that is scheduled runs, in the order of the calls: no signal  *)
(* is lost between a look at the empty queue and the wait for one.  There   *)
(* are MaxItems items at most, so that there is an end to what is asked.    *)
InOrder == \A i \in DOMAIN ran : ran[i] = i
EveryItemRuns == []InOrder /\ []<>(Len(ran) = scheduled)
=============================================================================
