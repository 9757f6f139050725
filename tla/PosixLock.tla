----------------------------- MODULE PosixLock -----------------------------
(***************************************************************************)
(* leveldb: the lock on a database that keeps other processes and other    *)
(* threads out (LockFile and UnlockFile of util/env_posix.cc), of one lock *)
(* file.  A step is one call of the system or of the lock table.           *)
(*                                                                         *)
(* The system's locks (fcntl) are of a process, and a process loses its    *)
(* lock on a file when it closes any descriptor of that file.              *)
(***************************************************************************)
EXTENDS Naturals, FiniteSets

CONSTANTS
  Threads,
  ProcessOf,       (* thread -> process                                    *)
  Nobody           (* not a process                                        *)

ASSUME NobodyAssumption == \A t \in Threads : ProcessOf[t] # Nobody

VARIABLES
  pc,              (* how far a thread is in LockFile or UnlockFile        *)
  locked_files,    (* processes whose PosixLockTable has the file          *)
  owner,           (* the process that has the system's lock               *)
  crowded          (* processes of which two threads were at it at once    *)

lockVars == <<pc, locked_files, owner, crowded>>

Processes == {ProcessOf[t] : t \in Threads}
ThreadsOf(p) == {t \in Threads : ProcessOf[t] = p}

Init ==
  /\ pc = [t \in Threads |-> "idle"]
  /\ locked_files = {}
  /\ owner = Nobody
  /\ crowded = {}

Goes(t, from, to) == pc[t] = from /\ pc' = [pc EXCEPT ![t] = to]
(* What close does to the lock.                                             *)
Close(t) == owner' = IF owner = ProcessOf[t] THEN Nobody ELSE owner

-----------------------------------------------------------------------------
(* LockFile.                                                                *)
Open(t) ==
  /\ Goes(t, "idle", "open")
  /\ crowded' = crowded \union {p \in {ProcessOf[t]} : \E u \in ThreadsOf(p) : pc[u] # "idle"}
  /\ UNCHANGED <<locked_files, owner>>

(* Slip: the table is not asked.                                            *)
InsertAnyway(t) ==
  /\ Goes(t, "open", "inserted")
  /\ locked_files' = locked_files \union {ProcessOf[t]}
  /\ UNCHANGED <<owner, crowded>>

Insert(t) ==
  /\ ProcessOf[t] \notin locked_files
  /\ Goes(t, "open", "inserted")
  /\ locked_files' = locked_files \union {ProcessOf[t]}
  /\ UNCHANGED <<owner, crowded>>

AlreadyHeld(t) ==
  /\ ProcessOf[t] \in locked_files
  /\ Goes(t, "open", "idle")
  /\ Close(t)
  /\ UNCHANGED <<locked_files, crowded>>

(* LockOrUnlock(fd, true).                                                  *)
Lock(t) ==
  /\ owner \in {Nobody, ProcessOf[t]}
  /\ Goes(t, "inserted", "holds")
  /\ owner' = ProcessOf[t]
  /\ UNCHANGED <<locked_files, crowded>>

HeldElsewhere(t) ==
  /\ owner \notin {Nobody, ProcessOf[t]}
  /\ Goes(t, "inserted", "refused")
  /\ Close(t)
  /\ UNCHANGED <<locked_files, crowded>>

RemoveRefused(t) ==
  /\ Goes(t, "refused", "idle")
  /\ locked_files' = locked_files \ {ProcessOf[t]}
  /\ UNCHANGED <<owner, crowded>>

(* UnlockFile.                                                              *)
Unlock(t) ==
  /\ Goes(t, "holds", "unlocked")
  /\ owner' = IF owner = ProcessOf[t] THEN Nobody ELSE owner
  /\ UNCHANGED <<locked_files, crowded>>

RemoveLocked(t) ==
  /\ Goes(t, "unlocked", "removed")
  /\ locked_files' = locked_files \ {ProcessOf[t]}
  /\ UNCHANGED <<owner, crowded>>

CloseUnlocked(t) ==
  /\ Goes(t, "removed", "idle")
  /\ Close(t)
  /\ UNCHANGED <<locked_files, crowded>>

(* A process ends, however it does.                                         *)
Exit(p) ==
  /\ pc' = [t \in Threads |-> IF ProcessOf[t] = p THEN "idle" ELSE pc[t]]
  /\ locked_files' = locked_files \ {p}
  /\ owner' = IF owner = p THEN Nobody ELSE owner
  /\ UNCHANGED crowded

Next ==
  \/ \E t \in Threads :
       \/ Open(t) \/ Insert(t) \/ AlreadyHeld(t) \/ Lock(t) \/ HeldElsewhere(t) \/ RemoveRefused(t)
       \/ Unlock(t) \/ RemoveLocked(t) \/ CloseUnlocked(t)
  \/ \E p \in Processes : Exit(p)

Spec == Init /\ [][Next]_lockVars

-----------------------------------------------------------------------------
LockTypeOK ==
  /\ pc \in [Threads -> {"idle", "open", "inserted", "holds", "refused", "unlocked", "removed"}]
  /\ locked_files \subseteq Processes
  /\ owner \in Processes \union {Nobody}
  /\ crowded \subseteq Processes

(* One thread of a process holds the lock, and it keeps every other process *)
(* out as long as no second thread of its own tries to lock or has not      *)
(* closed what it unlocked: with one database to a process and file, that   *)
(* is.                                                                      *)
Holders == {t \in Threads : pc[t] = "holds"}
LockKeepsOthersOut ==
  \A t, u \in Holders :
    \/ t = u
    \/ ProcessOf[t] # ProcessOf[u] /\ {ProcessOf[t], ProcessOf[u]} \cap crowded # {}

(* What env.h says of LockFile: it prevents concurrent access to the same   *)
(* database by multiple processes.                                          *)
OneProcessAtATime == \A t, u \in Holders : ProcessOf[t] = ProcessOf[u]
=============================================================================
