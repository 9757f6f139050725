------------------------------ MODULE Lifetimes -----------------------------
(***************************************************************************)
(* leveldb: how long versions, the metadata of their files, memtables and  *)
(* table files live (db/version_set.cc, db/db_impl.cc, db/memtable.h):     *)
(* counts of references, changed with the mutex held by readers and by the *)
(* one background thread, which lets go of the mutex while it writes a     *)
(* table or the manifest.                                                  *)
(*                                                                         *)
(* What exists is the domain of its counts.  The levels, the keys and what *)
(* is compacted are left open; an edit takes files away and brings some.   *)
(***************************************************************************)
EXTENDS Integers, FiniteSets, FiniteSetsExt, Functions, TLC

CONSTANTS
  Readers,         (* iterators and calls of Get                           *)
  MaxTables,       (* tables that are ever made                            *)
  MaxMemTables

VARIABLES
  versions,        (* refs_ of the versions that exist                     *)
  filesOf,         (* the metadata that a version holds                    *)
  metadata,        (* refs of each FileMetaData                            *)
  number,          (* the table it is about                                *)
  memtables,       (* refs_ of the memtables that exist                    *)
  current_, mem_, imm_,
  reader,          (* reader -> [version, mem, imm], or Idle               *)
  flush,           (* CompactMemTable: [stage, base, table]                *)
  compaction,      (* [stage, input_version, inputs, outputs]              *)
  saving,          (* the version that LogAndApply will install            *)
  tables,          (* table files on disk                                  *)
  pending_outputs_,
  made,            (* tables and memtables ever made                       *)
  bg_error_,
  closed

memory == <<versions, filesOf, metadata, number, memtables>>
disk == <<tables, pending_outputs_>>
lifeVars == <<memory, current_, mem_, imm_, reader, flush, compaction, saving, disk, made, bg_error_, closed>>

None == 0
Idle == [version |-> None, mem |-> None, imm |-> None]
NoFlush == [stage |-> "none", base |-> None, table |-> None]
NoCompaction == [stage |-> "none", input_version |-> None, inputs |-> {}, outputs |-> {}]
NoVersion == [v |-> None, for |-> "none"]
Fresh(f) == Min((1..(Cardinality(DOMAIN f) + 1)) \ DOMAIN f)
FreshMeta(n) == CHOOSE s \in [1..n -> (1..(Cardinality(DOMAIN metadata) + n)) \ DOMAIN metadata] : IsInjective(s)
Drop(f, S) == Restrict(f, DOMAIN f \ S)

(* The first version of a VersionSet, and the first memtable.               *)
Init ==
  /\ versions = (1 :> 1) /\ filesOf = (1 :> {}) /\ current_ = 1
  /\ metadata = << >> /\ number = << >>
  /\ memtables = (1 :> 1) /\ mem_ = 1 /\ imm_ = None
  /\ reader = [r \in Readers |-> Idle]
  /\ flush = NoFlush /\ compaction = NoCompaction /\ saving = NoVersion
  /\ tables = {} /\ pending_outputs_ = {}
  /\ made = [tables |-> 0, memtables |-> 1]
  /\ bg_error_ = FALSE /\ closed = FALSE

-----------------------------------------------------------------------------
(* Version::Ref, Unref and ~Version.  bag says how often each version is    *)
(* let go of.                                                               *)
Times(v, S) == Cardinality({x \in S : x[1] = v})
Unreferenced(refs, S) == {v \in DOMAIN refs : \E x \in S : x[1] = v /\ refs[v] = Times(v, S)}
HeldBy(gone, m) == Cardinality({v \in gone : m \in filesOf[v]})
DeleteVersions(refs, gone) ==
  /\ versions' = Drop(refs, gone) /\ filesOf' = Drop(filesOf, gone)
  /\ \E dead \in {{m \in DOMAIN metadata : HeldBy(gone, m) > 0 /\ metadata[m] <= HeldBy(gone, m)}} :
       /\ metadata' = [m \in DOMAIN metadata \ dead |-> metadata[m] - HeldBy(gone, m)]
       /\ number' = Drop(number, dead)
(* S: pairs of a version and of who lets go of it.                          *)
UnrefAll(refs, S) == DeleteVersions([v \in DOMAIN refs |-> refs[v] - Times(v, S)], Unreferenced(refs, S))
Unref(v) == UnrefAll(versions, {<<v, "holder">>})
Ref(v) == [versions EXCEPT ![v] = @ + 1]

(* MemTable::Ref and Unref.                                                 *)
MemRef(refs, m) == IF m = None THEN refs ELSE [refs EXCEPT ![m] = @ + 1]
MemUnref(refs, m) == IF m = None THEN refs ELSE IF refs[m] = 1 THEN Drop(refs, {m}) ELSE [refs EXCEPT ![m] = @ - 1]

-----------------------------------------------------------------------------
(* NewInternalIterator, or the first part of Get, and CleanupIteratorState, *)
(* or the end of Get.                                                       *)
NewReader(r) ==
  /\ reader[r] = Idle /\ ~closed
  /\ reader' = [reader EXCEPT ![r] = [version |-> current_, mem |-> mem_, imm |-> imm_]]
  /\ versions' = Ref(current_)
  /\ memtables' = MemRef(MemRef(memtables, mem_), imm_)
  /\ UNCHANGED <<filesOf, metadata, number, current_, mem_, imm_, flush, compaction, saving, disk, made, bg_error_, closed>>
CleanupIteratorState(r) ==
  /\ reader[r] # Idle
  /\ memtables' = MemUnref(MemUnref(memtables, reader[r].mem), reader[r].imm)
  /\ Unref(reader[r].version)
  /\ reader' = [reader EXCEPT ![r] = Idle]
  /\ UNCHANGED <<current_, mem_, imm_, flush, compaction, saving, disk, made, bg_error_, closed>>

(* MakeRoomForWrite, with a memtable that is full.                          *)
SwitchMemTable ==
  /\ imm_ = None /\ ~bg_error_ /\ ~closed /\ made.memtables < MaxMemTables
  /\ imm_' = mem_
  /\ mem_' = Fresh(memtables)
  /\ memtables' = memtables @@ (mem_' :> 1)
  /\ made' = [made EXCEPT !.memtables = @ + 1]
  /\ UNCHANGED <<versions, filesOf, metadata, number, current_, reader, flush, compaction, saving, disk, bg_error_, closed>>

-----------------------------------------------------------------------------
(* LogAndApply.  The Builder holds the base and one reference to each file  *)
(* that is added until the new version has them.  removed: metadata of the  *)
(* current version; added: tables.                                          *)
Builder(removed, added, for) ==
  \E v \in {Fresh(versions)}, new \in {FreshMeta(Cardinality(added))} :
  \E tableOf \in {CHOOSE s \in [DOMAIN new -> added] : IsInjective(s)} :
  \E kept \in {filesOf[current_] \ removed} :
    /\ versions' = (v :> 0) @@ versions
    /\ filesOf' = (v :> kept \union {new[i] : i \in DOMAIN new}) @@ filesOf
    /\ metadata' = [m \in kept |-> metadata[m] + 1] @@ [m \in {new[i] : i \in DOMAIN new} |-> 1] @@ metadata
    /\ number' = [m \in {new[i] : i \in DOMAIN new} |-> tableOf[CHOOSE i \in DOMAIN new : new[i] = m]] @@ number
    /\ saving' = [v |-> v, for |-> for]

(* AppendVersion: the version that was current is let go of.  others: who   *)
(* else lets go of a version afterwards.                                    *)
AppendVersion(others) ==
  /\ current_' = saving.v
  /\ UnrefAll([versions EXCEPT ![saving.v] = 1], {<<current_, "current">>} \union others)
(* delete v, which nobody has a reference to.                               *)
DeleteSaved(others) ==
  /\ current_' = current_
  /\ DeleteVersions([v \in DOMAIN versions |-> versions[v] - Times(v, others)], {saving.v} \union Unreferenced(versions, others))

(* DeleteObsoleteFiles, with the versions as they are after this step.      *)
LiveTables == {number'[m] : m \in DOMAIN number'}
(* Slip: pending_outputs_ is not looked at.                                 *)
OnlyInVersions(pending) == LiveTables
AddLiveFiles(pending) == pending \union LiveTables
DeleteObsoleteFiles(pending, present, error) ==
  /\ pending_outputs_' = pending
  /\ tables' = IF error THEN present ELSE present \intersect AddLiveFiles(pending)

-----------------------------------------------------------------------------
(* CompactMemTable: from BackgroundCompaction, or in the middle of          *)
(* DoCompactionWork.                                                        *)
Free == flush = NoFlush /\ saving = NoVersion /\ ~closed
NewFileNumber == made.tables + 1
CompactMemTable ==
  /\ Free /\ imm_ # None /\ made.tables < MaxTables
  /\ \/ compaction = NoCompaction /\ ~bg_error_
     \/ compaction.stage = "working"
  /\ versions' = Ref(current_)
  /\ flush' = [stage |-> "building", base |-> current_, table |-> NewFileNumber]
  /\ pending_outputs_' = pending_outputs_ \union {NewFileNumber}
  /\ made' = [made EXCEPT !.tables = @ + 1]
  /\ UNCHANGED <<filesOf, metadata, number, memtables, current_, mem_, imm_, reader, compaction, saving, tables, bg_error_, closed>>
(* BuildTable has made the table.                                           *)
WriteLevel0Table ==
  /\ flush.stage = "building"
  /\ pending_outputs_' = pending_outputs_ \ {flush.table}
  /\ tables' = tables \union {flush.table}
  /\ Unref(flush.base)
  /\ flush' = [flush EXCEPT !.stage = "built", !.base = None]
  /\ UNCHANGED <<memtables, current_, mem_, imm_, reader, compaction, saving, made, bg_error_, closed>>
(* Or has not, or the database is being destroyed by then.                  *)
BuildTableFails ==
  /\ flush.stage = "building"
  /\ tables' \in {tables, tables \union {flush.table}}
  /\ pending_outputs_' = pending_outputs_ \ {flush.table}
  /\ Unref(flush.base)
  /\ flush' = NoFlush /\ bg_error_' = TRUE
  /\ UNCHANGED <<memtables, current_, mem_, imm_, reader, compaction, saving, made, closed>>
LogFlush ==
  /\ flush.stage = "built" /\ saving = NoVersion
  /\ Builder({}, {flush.table}, "flush")
  /\ UNCHANGED <<memtables, current_, mem_, imm_, reader, flush, compaction, disk, made, bg_error_, closed>>
FlushInstalled ==
  /\ saving.for = "flush"
  /\ AppendVersion({})
  /\ memtables' = MemUnref(memtables, imm_) /\ imm_' = None
  /\ flush' = NoFlush /\ saving' = NoVersion
  /\ DeleteObsoleteFiles(pending_outputs_, tables, bg_error_)
  /\ UNCHANGED <<mem_, reader, compaction, made, bg_error_, closed>>
FlushNotLogged ==
  /\ saving.for = "flush"
  /\ DeleteSaved({})
  /\ flush' = NoFlush /\ saving' = NoVersion /\ bg_error_' = TRUE
  /\ UNCHANGED <<memtables, mem_, imm_, reader, compaction, disk, made, closed>>

-----------------------------------------------------------------------------
(* PickCompaction or CompactRange: the version the inputs are from is held. *)
SetupInputs(inputs) ==
  /\ Free /\ compaction = NoCompaction /\ imm_ = None /\ ~bg_error_
  /\ inputs # {}
  /\ versions' = Ref(current_)
  /\ compaction' = [stage |-> "picked", input_version |-> current_, inputs |-> inputs, outputs |-> {}]
  /\ UNCHANGED <<filesOf, metadata, number, memtables, current_, mem_, imm_, reader, flush, saving, disk, made, bg_error_, closed>>
(* One file goes to the next level as it is.                                *)
TrivialMove ==
  /\ compaction.stage = "picked" /\ Cardinality(compaction.inputs) = 1
  /\ Builder(compaction.inputs, {number[m] : m \in compaction.inputs}, "move")
  /\ compaction' = [compaction EXCEPT !.stage = "moving"]
  /\ UNCHANGED <<memtables, current_, mem_, imm_, reader, flush, disk, made, bg_error_, closed>>
DoCompactionWork ==
  /\ compaction.stage = "picked"
  /\ compaction' = [compaction EXCEPT !.stage = "working"]
  /\ UNCHANGED <<memory, current_, mem_, imm_, reader, flush, saving, disk, made, bg_error_, closed>>
OpenCompactionOutputFile ==
  /\ compaction.stage = "working" /\ flush = NoFlush /\ made.tables < MaxTables
  /\ pending_outputs_' = pending_outputs_ \union {NewFileNumber}
  /\ tables' = tables \union {NewFileNumber}
  /\ compaction' = [compaction EXCEPT !.outputs = @ \union {NewFileNumber}]
  /\ made' = [made EXCEPT !.tables = @ + 1]
  /\ UNCHANGED <<memory, current_, mem_, imm_, reader, flush, saving, bg_error_, closed>>
InstallCompactionResults ==
  /\ compaction.stage = "working" /\ flush = NoFlush
  /\ Builder(compaction.inputs, compaction.outputs, "compaction")
  /\ compaction' = [compaction EXCEPT !.stage = "installing"]
  /\ UNCHANGED <<memtables, current_, mem_, imm_, reader, flush, disk, made, bg_error_, closed>>

(* After it: CleanupCompaction, ReleaseInputs, DeleteObsoleteFiles, delete. *)
Input == {<<compaction.input_version, "compaction">>}
CompactionEnds(error) ==
  /\ compaction' = NoCompaction /\ saving' = NoVersion /\ bg_error_' = error
  /\ UNCHANGED <<memtables, mem_, imm_, reader, flush, made, closed>>
CompactionInstalled ==
  /\ saving.for = "compaction"
  /\ AppendVersion(Input) /\ CompactionEnds(bg_error_)
  /\ DeleteObsoleteFiles(pending_outputs_ \ compaction.outputs, tables, bg_error_)
CompactionNotLogged ==
  /\ saving.for = "compaction"
  /\ DeleteSaved(Input) /\ CompactionEnds(TRUE)
  /\ DeleteObsoleteFiles(pending_outputs_ \ compaction.outputs, tables, TRUE)
CompactionFails ==
  /\ compaction.stage = "working" /\ flush = NoFlush
  /\ UnrefAll(versions, Input) /\ CompactionEnds(TRUE)
  /\ DeleteObsoleteFiles(pending_outputs_ \ compaction.outputs, tables, TRUE)
  /\ UNCHANGED current_
Moved == saving.for = "move" /\ AppendVersion(Input) /\ CompactionEnds(bg_error_) /\ UNCHANGED disk
NotMoved == saving.for = "move" /\ DeleteSaved(Input) /\ CompactionEnds(TRUE) /\ UNCHANGED disk

(* ~DBImpl, with no reader left and the background thread done.             *)
Destroy ==
  /\ Free /\ compaction = NoCompaction /\ \A r \in Readers : reader[r] = Idle
  /\ closed' = TRUE
  /\ Unref(current_)
  /\ memtables' = MemUnref(MemUnref(memtables, mem_), imm_)
  /\ current_' = None /\ mem_' = None /\ imm_' = None
  /\ UNCHANGED <<reader, flush, compaction, saving, disk, made, bg_error_>>

Next ==
  \/ \E r \in Readers : NewReader(r) \/ CleanupIteratorState(r)
  \/ SwitchMemTable
  \/ CompactMemTable \/ WriteLevel0Table \/ BuildTableFails \/ LogFlush \/ FlushInstalled \/ FlushNotLogged
  \/ ~closed /\ \E inputs \in SUBSET filesOf[current_] : SetupInputs(inputs)
  \/ TrivialMove \/ DoCompactionWork \/ OpenCompactionOutputFile \/ InstallCompactionResults
  \/ CompactionInstalled \/ CompactionNotLogged \/ CompactionFails \/ Moved \/ NotMoved
  \/ Destroy

Spec == Init /\ [][Next]_lifeVars

-----------------------------------------------------------------------------
(* Whatever somebody still reads, merges or flushes exists, down to the     *)
(* table files, though other threads install versions and delete files in   *)
(* between; what is only pending is not deleted either.                     *)
Holders == {reader[r].version : r \in Readers} \union {current_, flush.base, compaction.input_version, saving.v}
MemHolders == {reader[r].mem : r \in Readers} \union {reader[r].imm : r \in Readers} \union {mem_, imm_}
UsedThingsExist ==
  /\ Holders \ {None} \subseteq DOMAIN versions
  /\ MemHolders \ {None} \subseteq DOMAIN memtables
  /\ \A v \in DOMAIN versions : filesOf[v] \subseteq DOMAIN metadata
  /\ compaction.inputs \subseteq DOMAIN metadata
  /\ \A m \in DOMAIN metadata : number[m] \in tables
  /\ compaction.outputs \subseteq tables

(* And nothing stays that nobody holds: in particular no version is left    *)
(* when the database is destroyed, and no table file once the obsolete      *)
(* ones were deleted.                                                       *)
NothingUnusedStays ==
  /\ DOMAIN versions = Holders \ {None} /\ DOMAIN memtables = MemHolders \ {None}
  /\ DOMAIN metadata = UNION {filesOf[v] : v \in DOMAIN versions}
HoldersHaveTheirs == UsedThingsExist /\ NothingUnusedStays
=============================================================================
