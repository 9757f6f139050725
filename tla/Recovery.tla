------------------------------ MODULE Recovery -------------------------------
(***************************************************************************)
(* What a leveldb database leaves on the disk, and what DB::Open makes of  *)
(* it after a crash.  Every write is a record of a log; the tables of the  *)
(* current version are listed in a manifest, itself a log of edits, which  *)
(* the file CURRENT names.  Files come and go in an order that must let    *)
(* Open find every write that was promised, whenever the process or the    *)
(* machine stops.                                                          *)
(*                                                                         *)
(* A batch is one record [seq, id] with one sequence number; a table is    *)
(* the set of its records, and ok once it is finished and synced; a        *)
(* version is the set of its tables (VersionSet and LsmTree have the       *)
(* levels).  Names in the directory are durable in the order of the calls, *)
(* the contents of a file only up to its last sync.                        *)
(*                                                                         *)
(* recs are the records that log::Reader finds in a log or a manifest.  An *)
(* append that fails may leave a part of a record, and the writer goes on  *)
(* behind it: a record put there is found or not.  In a log one that is    *)
(* not found is dropped (paranoid_checks is false), in a manifest it is a  *)
(* Corruption, or an end like any other.                                   *)
(***************************************************************************)
EXTENDS Integers, Sequences, FiniteSets, SequencesExt, FiniteSetsExt, Functions

CONSTANTS
  MaxMem,       (* records at which a memtable is full                     *)
  Faults,       (* the settings of reuse_logs under which power may fail   *)
                (* and an edit be cut short in its manifest                *)
  MaxWrites,    (* bound: writes                                           *)
  MaxCrashes,   (* bound: stops of the process and failures of its calls   *)
  MaxFiles,     (* bound: file numbers                                     *)
  MaxOutputs,   (* bound: file numbers below which one table is compacted *)
  None

ASSUME MemAssumption == MaxMem \in Nat \ {0}
ASSUME FaultAssumption == Faults \subseteq BOOLEAN

(* Numbers of files, sequence numbers and edits, and the values that mean   *)
(* that there is none.                                                      *)
EditType ==
  [log : Nat \union {None}, next : Nat \union {None}, last : Nat \union {None},
   added : SUBSET Nat, deleted : SUBSET Nat]
Application == [edit : EditType, by : {"open", "flush", "compaction"}, logged : BOOLEAN]
ASSUME NoneAssumption ==
  None \notin Nat /\ None \notin Application /\ None \notin [seq : Nat, id : Nat]

VARIABLES
  (* the disk *)
  logs,        (* by number: [recs, synced, torn], the first synced durable *)
  manifests,   (* by number: [recs, synced, end], the records are edits;   *)
               (* broken is an end with an edit behind one cut short       *)
  tables,      (* by number: [recs, ok]                                    *)
  current,     (* the manifest that CURRENT names, 0 if there is none      *)
  (* the process *)
  pc,          (* down, creating, recovering, starting, applying, up, refused *)
  vs,          (* versions_: [log, next, last, manifest, described, files] *)
  mem, imm,    (* the records of mem_ and imm_                             *)
  logFile,     (* logfile_number_                                          *)
  opening,     (* what Recover has read: [todo, at, compacted, added, save, max] *)
  writing,     (* the record being written, or None                        *)
  flush,       (* the number of the table CompactMemTable builds, or None  *)
  compaction,  (* [inputs, out], or None                                   *)
  applying,    (* the edit LogAndApply is writing: [edit, by, logged], or None *)
  held,        (* the tables of the version an iterator keeps              *)
  bgError,     (* bg_error_ is set                                         *)
  reuse,       (* options_.reuse_logs                                      *)
  (* history *)
  issued,      (* number of writes so far, the id of the last              *)
  acked,       (* ids whose loss would break a promise                     *)
  durable,     (* those of them that were synced                           *)
  exposed,     (* ids that returned, written behind an append that failed  *)
  created,     (* an Open has returned, and no repair since                *)
  repaired,    (* RepairDB was run                                         *)
  crashes

disk == <<logs, manifests, tables, current>>
jobs == <<writing, flush, compaction, applying, held>>
process == <<pc, vs, mem, imm, logFile, opening, jobs, bgError>>
history == <<issued, acked, durable, exposed, created, repaired, crashes>>
vars == <<disk, process, reuse, history>>

-----------------------------------------------------------------------------
(* Files.                                                                   *)
NewLog == [recs |-> << >>, synced |-> 0, torn |-> FALSE]
NewManifest(edits) == [recs |-> edits, synced |-> 0, end |-> "whole"]
Appended(f, rec) == [f EXCEPT !.recs = Append(@, rec)]
Synced(f) == [f EXCEPT !.synced = Len(f.recs)]
Without(f, gone) == Restrict(f, DOMAIN f \ gone)
Joined(f, g) == [m \in DOMAIN f \union DOMAIN g |-> IF m \in DOMAIN f THEN f[m] ELSE g[m]]
With(f, n, x) == Joined([m \in {n} |-> x], f)

(* log::Writer::AddRecord returned: what the file may be to a reader.       *)
AddRecord(f, rec) == {Appended(f, rec)} \union IF f.torn THEN {f} ELSE {}
AddEdit(f, edit) ==
  (IF f.end = "broken" THEN {} ELSE {Appended(f, edit)})
    \union IF f.end = "whole" THEN {} ELSE {[f EXCEPT !.end = "broken"]}

(* ... and when it failed.                                                  *)
CutShort(f) == IF f.end = "whole" /\ reuse \in Faults THEN [f EXCEPT !.end = "torn"] ELSE f

(* VersionEdit: what LogAndApply adds to any edit, and the edit of          *)
(* WriteSnapshot and NewDB.                                                 *)
Edit(log, v, added, deleted) ==
  [log |-> log, next |-> v.next, last |-> v.last, added |-> added, deleted |-> deleted]
Snapshot(files) == [log |-> None, next |-> None, last |-> None, added |-> files, deleted |-> {}]
NewDBEdit == [log |-> 0, next |-> 2, last |-> 0, added |-> {}, deleted |-> {}]

(* Builder::Apply of the edits of a manifest, and the numbers of the last.  *)
FilesAfter(edits, n) ==
  {f \in UNION {edits[i].added : i \in 1..n} :
     \E i \in 1..n : f \in edits[i].added /\ \A j \in (i + 1)..n : f \notin edits[j].deleted}
FilesOf(edits) == FilesAfter(edits, Len(edits))
LastEdit(edits) == edits[Max({i \in 1..Len(edits) : edits[i].next # None})]

Fresh == [log |-> 0, next |-> 2, last |-> 0, manifest |-> 0, described |-> FALSE, files |-> {}]
NotOpening == [todo |-> {}, at |-> 0, compacted |-> FALSE, added |-> {}, save |-> FALSE, max |-> 0]

Stopped ==
  /\ vs' = Fresh
  /\ mem' = {} /\ imm' = {} /\ logFile' = 0
  /\ opening' = NotOpening
  /\ writing' = None /\ flush' = None /\ compaction' = None /\ applying' = None /\ held' = {}
  /\ bgError' = FALSE

Init ==
  /\ logs = << >> /\ manifests = << >> /\ tables = << >> /\ current = 0
  /\ pc = "down" /\ vs = Fresh
  /\ mem = {} /\ imm = {} /\ logFile = 0
  /\ opening = NotOpening
  /\ writing = None /\ flush = None /\ compaction = None /\ applying = None /\ held = {}
  /\ bgError = FALSE
  /\ reuse \in BOOLEAN
  /\ issued = 0 /\ acked = {} /\ durable = {} /\ exposed = {}
  /\ created = FALSE /\ repaired = FALSE /\ crashes = 0

-----------------------------------------------------------------------------
(* DeleteObsoleteFiles.  A deletion that fails goes unnoticed, and a crash  *)
(* may come between two: of each kind, all files go or none.  After an      *)
(* error of the background thread nothing is deleted.                       *)
Pending == ({flush} \ {None}) \union (IF compaction = None THEN {} ELSE {compaction.out})
InVersions == held \union (IF compaction = None THEN {} ELSE compaction.inputs)

(* Slip: only the log in use is needed.                                     *)
LogsNotInUse(v) == {n \in DOMAIN logs : n < logFile}

ObsoleteLogs(v) == {n \in DOMAIN logs : n < v.log}
ObsoleteManifests(v) == {n \in DOMAIN manifests : n < v.manifest}

(* Slip: tables being written look unused.                                  *)
TablesOfVersions(v, inUse) == DOMAIN tables \ (v.files \union held)

ObsoleteTables(v, inUse) == DOMAIN tables \ (v.files \union inUse)

(* Slip: files are deleted after an error too.                              *)
DeleteAfterErrorsToo(v, inUse, described) ==
  \E gone \in {{}, ObsoleteTables(v, inUse)}, goneLogs \in {{}, ObsoleteLogs(v)},
     goneManifests \in {{}, ObsoleteManifests(v)} :
       /\ tables' = Without(tables, gone)
       /\ logs' = Without(logs, goneLogs)
       /\ manifests' = Without(described, goneManifests)

DeleteObsoleteFiles(v, inUse, described) ==
  \E gone \in {{}, ObsoleteTables(v, inUse)}, goneLogs \in {{}, ObsoleteLogs(v)},
     goneManifests \in {{}, ObsoleteManifests(v)} :
       /\ bgError => gone = {} /\ goneLogs = {} /\ goneManifests = {}
       /\ tables' = Without(tables, gone)
       /\ logs' = Without(logs, goneLogs)
       /\ manifests' = Without(described, goneManifests)

-----------------------------------------------------------------------------
(* DBImpl::NewDB: the manifest, which is not synced, and then CURRENT.      *)
NewDB ==
  /\ pc = "down" /\ current = 0
  /\ manifests' = With(manifests, 1, NewManifest(<<NewDBEdit>>))
  /\ pc' = "creating"
  /\ UNCHANGED <<logs, tables, current, vs, mem, imm, logFile, opening, jobs, bgError, reuse,
                 history>>

NewDBNamed ==
  /\ pc = "creating"
  /\ current' = 1
  /\ pc' = "down"
  /\ UNCHANGED <<logs, manifests, tables, vs, mem, imm, logFile, opening, jobs, bgError, reuse,
                 history>>

(* VersionSet::Recover, on the edits of the manifest; ReuseManifest keeps   *)
(* it if asked, unless it is too big or cannot be opened.                   *)
VersionOf(edits, kept) ==
  LET e == LastEdit(edits)
  IN  [log |-> e.log, next |-> e.next + 1, last |-> e.last, files |-> FilesOf(edits),
       manifest |-> IF kept THEN current ELSE e.next, described |-> kept]

(* Files of the version whose number no file of the directory has.          *)
Missing(files) == files \ (DOMAIN tables \union DOMAIN logs \union DOMAIN manifests)

(* CURRENT names a manifest, it has the numbers, and its files are there.   *)
CanBeRead ==
  /\ current \in DOMAIN manifests
  /\ \E i \in DOMAIN manifests[current].recs : manifests[current].recs[i].next # None
  /\ Missing(FilesOf(manifests[current].recs)) = {}

(* DBImpl::Recover up to its logs: those the version may not have.          *)
ReadsVersion(kept) ==
  /\ kept => reuse
  /\ vs' = VersionOf(manifests[current].recs, kept)
  /\ opening' = [NotOpening EXCEPT !.todo = {n \in DOMAIN logs : n >= vs'.log}, !.save = ~kept]
Recover ==
  /\ pc = "down" /\ current # 0 /\ CanBeRead
  /\ \E kept \in BOOLEAN : ReadsVersion(kept)
  /\ pc' = "recovering"
  /\ UNCHANGED <<disk, mem, imm, logFile, jobs, bgError, reuse, history>>

RecoverRefuses ==
  /\ pc = "down" /\ current # 0
  /\ ~CanBeRead \/ manifests[current].end = "broken"
  /\ pc' = "refused"
  /\ UNCHANGED <<disk, vs, mem, imm, logFile, opening, jobs, bgError, reuse, history>>

(* RecoverLogFile.  A table is written whenever the memtable is full, and   *)
(* for the rest of the log unless the log, the last, goes on being used:    *)
(* if it cannot be opened it does not.                                      *)
Unread(n) == SubSeq(logs[n].recs, opening.at + 1, Len(logs[n].recs))
LastSeq(recs, max) == Max({max} \union {r.seq : r \in ToSet(recs)})

RecoverTable ==
  /\ pc = "recovering" /\ opening.todo # {} /\ vs.next < MaxFiles
  /\ LET recs == Unread(Min(opening.todo))
     IN  /\ Len(recs) >= MaxMem
         /\ tables' = With(tables, vs.next, [recs |-> ToSet(SubSeq(recs, 1, MaxMem)), ok |-> TRUE])
         /\ opening' = [opening EXCEPT !.at = @ + MaxMem, !.compacted = TRUE, !.save = TRUE,
                                       !.added = @ \union {vs.next},
                                       !.max = LastSeq(SubSeq(recs, 1, MaxMem), @)]
         /\ vs' = [vs EXCEPT !.next = @ + 1]
  /\ UNCHANGED <<logs, manifests, current, pc, mem, imm, logFile, jobs, bgError, reuse, history>>

(* Slip: the last sequence number of the manifest is taken to be the last.  *)
MaxOfManifest(recs) == opening.max

MaxOfLog(recs) == LastSeq(recs, opening.max)

LogRead(n, recs) ==
  [opening EXCEPT !.at = 0, !.compacted = FALSE, !.todo = @ \ {n}, !.max = MaxOfLog(recs)]
MarkFileNumberUsed(next, n) == Max({next, n + 1})

RecoverLogFile ==
  /\ pc = "recovering" /\ opening.todo # {} /\ vs.next < MaxFiles
  /\ \E n \in {Min(opening.todo)} : \E recs \in {Unread(n)} :
       /\ Len(recs) < MaxMem
       /\ \/ /\ reuse /\ opening.todo = {n} /\ ~opening.compacted
             /\ mem' = ToSet(recs) /\ logFile' = n
             /\ opening' = LogRead(n, recs)
             /\ vs' = [vs EXCEPT !.next = MarkFileNumberUsed(@, n)]
             /\ UNCHANGED tables
          \/ /\ IF recs = << >>
                  THEN /\ opening' = LogRead(n, recs)
                       /\ vs' = [vs EXCEPT !.next = MarkFileNumberUsed(@, n)]
                       /\ UNCHANGED tables
                  ELSE /\ tables' = With(tables, vs.next, [recs |-> ToSet(recs), ok |-> TRUE])
                       /\ opening' = [LogRead(n, recs) EXCEPT !.added = @ \union {vs.next},
                                                              !.save = TRUE]
                       /\ vs' = [vs EXCEPT !.next = MarkFileNumberUsed(@ + 1, n)]
             /\ UNCHANGED <<mem, logFile>>
  /\ UNCHANGED <<logs, manifests, current, pc, imm, jobs, bgError, reuse, history>>

(* DB::Open makes a new log, unless the last goes on.                       *)
StartLog ==
  /\ pc = "recovering" /\ opening.todo = {} /\ vs.next < MaxFiles
  /\ LET v == [vs EXCEPT !.last = Max({@, opening.max})]
     IN  IF logFile # 0 THEN vs' = v /\ UNCHANGED <<logs, logFile>>
         ELSE /\ logs' = With(logs, vs.next, NewLog)
              /\ logFile' = vs.next
              /\ vs' = [v EXCEPT !.next = @ + 1]
  /\ pc' = "starting"
  /\ UNCHANGED <<manifests, tables, current, mem, imm, opening, jobs, bgError, reuse, history>>

OpenReturns ==
  /\ pc' = "up" /\ created' = TRUE
  /\ opening' = NotOpening
  /\ UNCHANGED <<issued, acked, durable, exposed, repaired, crashes>>

(* Nothing to record: the database is open.                                 *)
OpenAsItWas ==
  /\ pc = "starting" /\ ~opening.save
  /\ DeleteObsoleteFiles(vs, {}, manifests)
  /\ OpenReturns
  /\ UNCHANGED <<current, vs, mem, imm, logFile, jobs, bgError, reuse>>

(* LogAndApply for Open: the edit goes to the manifest that is reused, or   *)
(* with a snapshot to a new one, which CURRENT names once it is synced.     *)
LogOpening ==
  /\ pc = "starting" /\ opening.save
  /\ \E edit \in {Edit(logFile, vs, opening.added, {})} :
       /\ applying' = [edit |-> edit, by |-> "open", logged |-> TRUE]
       /\ \E m \in IF vs.described THEN AddEdit(manifests[current], edit)
                   ELSE {NewManifest(<<Snapshot(vs.files), edit>>)} :
            manifests' = With(manifests, vs.manifest, m)
  /\ pc' = "applying"
  /\ UNCHANGED <<logs, tables, current, vs, mem, imm, logFile, opening, writing, flush,
                 compaction, held, bgError, reuse, history>>

(* AppendVersion, and what the edit says of logs.                           *)
Applied(v, edit) ==
  [v EXCEPT !.files = (@ \ edit.deleted) \union edit.added, !.log = edit.log, !.described = TRUE]

(* Slip: CURRENT names a manifest that is still in the page cache.          *)
ManifestUnsynced(n) == manifests

ManifestSynced(n) == [manifests EXCEPT ![n] = Synced(@)]

ApplyOpening ==
  /\ pc = "applying"
  /\ vs' = Applied(vs, applying.edit)
  /\ current' = vs.manifest
  /\ DeleteObsoleteFiles(vs', {}, ManifestSynced(vs.manifest))
  /\ applying' = None
  /\ OpenReturns
  /\ UNCHANGED <<mem, imm, logFile, writing, flush, compaction, held, bgError, reuse>>

(* A step of Open fails: the new manifest goes, the rest of the disk stays, *)
(* but for an edit that may be cut short.                                   *)
OpenFails ==
  /\ crashes < MaxCrashes
  /\ pc \in {"creating", "recovering", "starting", "applying"}
  /\ Stopped
  /\ pc' = "down"
  /\ manifests' = IF pc = "creating" THEN Without(manifests, {1})
                  ELSE IF pc = "applying" /\ ~vs.described THEN Without(manifests, {vs.manifest})
                  ELSE IF pc = "starting" /\ vs.described /\ opening.save
                    THEN [manifests EXCEPT ![current] = CutShort(@)]
                  ELSE manifests
  /\ crashes' = crashes + 1
  /\ UNCHANGED <<logs, tables, current, reuse, issued, acked, durable, exposed, created, repaired>>

-----------------------------------------------------------------------------
(* DBImpl::Write: the record goes to the log, without the mutex, ...        *)
MayWrite ==
  pc = "up" /\ ~bgError /\ writing = None /\ issued < MaxWrites /\ Cardinality(mem) < MaxMem

WriteToLog ==
  /\ MayWrite
  /\ issued' = issued + 1
  /\ writing' = [seq |-> vs.last + 1, id |-> issued + 1]
  /\ \E log \in AddRecord(logs[logFile], writing') : logs' = [logs EXCEPT ![logFile] = log]
  /\ UNCHANGED <<manifests, tables, current, pc, vs, mem, imm, logFile, opening, flush,
                 compaction, applying, held, bgError, reuse, acked, durable, exposed, created,
                 repaired, crashes>>

(* ... is synced if so asked, enters the memtable, and the write returns.   *)
(* Behind an append that failed a reader may not find the record.           *)
WriteReturns(sync) ==
  /\ writing # None
  /\ logs' = IF sync THEN [logs EXCEPT ![logFile] = Synced(@)] ELSE logs
  /\ mem' = mem \union {writing}
  /\ vs' = [vs EXCEPT !.last = writing.seq]
  /\ IF logs[logFile].torn
       THEN exposed' = exposed \union {writing.id} /\ UNCHANGED <<acked, durable>>
       ELSE /\ acked' = acked \union {writing.id}
            /\ durable' = IF sync THEN durable \union {writing.id} ELSE durable
            /\ UNCHANGED exposed
  /\ writing' = None
  /\ UNCHANGED <<manifests, tables, current, pc, imm, logFile, opening, flush, compaction,
                 applying, held, bgError, reuse, issued, created, repaired, crashes>>

(* The append fails, of all of the record or of a part, or only its flush   *)
(* of what is written later: the write fails, the database goes on.         *)
AppendFails ==
  /\ MayWrite /\ crashes < MaxCrashes
  /\ issued' = issued + 1
  /\ \E log \in {[logs[logFile] EXCEPT !.torn = TRUE]}
             \union AddRecord(logs[logFile], [seq |-> vs.last + 1, id |-> issued + 1]) :
       logs' = [logs EXCEPT ![logFile] = log]
  /\ vs' = [vs EXCEPT !.last = @ + 1]
  /\ crashes' = crashes + 1
  /\ UNCHANGED <<manifests, tables, current, pc, mem, imm, logFile, opening, jobs, bgError, reuse,
                 acked, durable, exposed, created, repaired>>

(* The sync of the log fails: the record is there, maybe, and no write      *)
(* comes after it.                                                          *)
SyncFails ==
  /\ writing # None /\ crashes < MaxCrashes
  /\ vs' = [vs EXCEPT !.last = writing.seq]
  /\ writing' = None
  /\ bgError' = TRUE
  /\ crashes' = crashes + 1
  /\ UNCHANGED <<disk, pc, mem, imm, logFile, opening, flush, compaction, applying, held, reuse,
                 issued, acked, durable, exposed, created, repaired>>

(* MakeRoomForWrite: a new log, and the memtable is to be flushed; a        *)
(* CompactRange forces it for a memtable with room.                         *)
SwitchMemTable ==
  /\ pc = "up" /\ ~bgError /\ writing = None /\ mem # {} /\ imm = {} /\ vs.next < MaxFiles
  /\ logs' = With(logs, vs.next, NewLog)
  /\ logFile' = vs.next
  /\ vs' = [vs EXCEPT !.next = @ + 1]
  /\ imm' = mem /\ mem' = {}
  /\ UNCHANGED <<manifests, tables, current, pc, opening, jobs, bgError, reuse, history>>

-----------------------------------------------------------------------------
(* The background thread.  WriteLevel0Table and BuildTable; a flush may     *)
(* come while a compaction builds its output, and is tried again there when *)
(* it failed: the compaction goes on after an error, but none is started.   *)
Idle == pc = "up" /\ flush = None /\ applying = None

StartFlush ==
  /\ Idle /\ imm # {} /\ vs.next < MaxFiles
  /\ ~bgError \/ compaction # None
  /\ flush' = vs.next
  /\ vs' = [vs EXCEPT !.next = @ + 1]
  /\ tables' = With(tables, vs.next, [recs |-> {}, ok |-> FALSE])
  /\ UNCHANGED <<logs, manifests, current, pc, mem, imm, logFile, opening, writing, compaction,
                 applying, held, bgError, reuse, history>>

LogAfterFlush == logFile

(* CompactMemTable makes its edit: earlier logs are no longer needed.       *)
FinishFlush ==
  /\ flush # None
  /\ tables' = [tables EXCEPT ![flush] = [recs |-> imm, ok |-> TRUE]]
  /\ applying' = [edit |-> Edit(LogAfterFlush, vs, {flush}, {}), by |-> "flush", logged |-> FALSE]
  /\ flush' = None
  /\ UNCHANGED <<logs, manifests, current, pc, vs, mem, imm, logFile, opening, writing,
                 compaction, held, bgError, reuse, history>>

(* BackgroundCompaction of some tables, into one.                           *)
StartCompaction ==
  /\ Idle /\ ~bgError /\ imm = {} /\ compaction = None /\ vs.next < MaxFiles
  /\ \E inputs \in (SUBSET vs.files) \ {{}} :
       /\ Cardinality(inputs) >= 2 \/ vs.next < MaxOutputs
       /\ compaction' = [inputs |-> inputs, out |-> vs.next]
  /\ vs' = [vs EXCEPT !.next = @ + 1]
  /\ tables' = With(tables, vs.next, [recs |-> {}, ok |-> FALSE])
  /\ UNCHANGED <<logs, manifests, current, pc, mem, imm, logFile, opening, writing, flush,
                 applying, held, bgError, reuse, history>>

(* The loop of DoCompactionWork ends; InstallCompactionResults makes the    *)
(* edit.                                                                    *)
FinishCompaction ==
  /\ Idle /\ compaction # None
  /\ tables' = [tables EXCEPT ![compaction.out] =
                  [recs |-> UNION {tables[n].recs : n \in compaction.inputs}, ok |-> TRUE]]
  /\ applying' = [edit |-> Edit(vs.log, vs, {compaction.out}, compaction.inputs),
                  by |-> "compaction", logged |-> FALSE]
  /\ UNCHANGED <<logs, manifests, current, pc, vs, mem, imm, logFile, opening, writing, flush,
                 compaction, held, bgError, reuse, history>>

(* LogAndApply, without the mutex: the record.                              *)
LogEdit ==
  /\ pc = "up" /\ applying # None /\ ~applying.logged
  /\ \E m \in AddEdit(manifests[vs.manifest], applying.edit) :
       manifests' = [manifests EXCEPT ![vs.manifest] = m]
  /\ applying' = [applying EXCEPT !.logged = TRUE]
  /\ UNCHANGED <<logs, tables, current, pc, vs, mem, imm, logFile, opening, writing, flush,
                 compaction, held, bgError, reuse, history>>

(* The sync of the manifest and the new version; then what CompactMemTable  *)
(* and BackgroundCompaction do on success.                                  *)
ApplyEdit ==
  /\ pc = "up" /\ applying # None /\ applying.logged
  /\ vs' = Applied(vs, applying.edit)
  /\ IF applying.by = "flush" THEN imm' = {} /\ UNCHANGED compaction
     ELSE compaction' = None /\ UNCHANGED imm
  /\ DeleteObsoleteFiles(vs', IF applying.by = "flush" THEN Pending \union InVersions ELSE held,
                         ManifestSynced(vs.manifest))
  /\ applying' = None
  /\ UNCHANGED <<current, pc, mem, logFile, opening, writing, flush, held, bgError, reuse,
                 history>>

(* RecordBackgroundError ends the deletions, the writes, and new background *)
(* work.  BuildTable fails: its file is deleted.                            *)
FlushFails ==
  /\ flush # None /\ crashes < MaxCrashes
  /\ tables' = Without(tables, {flush})
  /\ flush' = None
  /\ bgError' = TRUE
  /\ crashes' = crashes + 1
  /\ UNCHANGED <<logs, manifests, current, pc, vs, mem, imm, logFile, opening, writing, compaction,
                 applying, held, reuse, issued, acked, durable, exposed, created, repaired>>

(* DoCompactionWork fails before its edit.                                  *)
CompactionFails ==
  /\ Idle /\ compaction # None /\ crashes < MaxCrashes
  /\ compaction' = None
  /\ bgError' = TRUE
  /\ crashes' = crashes + 1
  /\ UNCHANGED <<disk, pc, vs, mem, imm, logFile, opening, writing, flush, applying, held, reuse,
                 issued, acked, durable, exposed, created, repaired>>

(* LogAndApply fails, at the record or its sync.  A flush is tried again if *)
(* a compaction is at work, and the compaction's own edit comes behind it.  *)
EditFails ==
  /\ pc = "up" /\ applying # None /\ crashes < MaxCrashes
  /\ manifests' = IF applying.logged THEN manifests
                  ELSE [manifests EXCEPT ![vs.manifest] = CutShort(@)]
  /\ applying' = None
  /\ compaction' = IF applying.by = "flush" THEN compaction ELSE None
  /\ bgError' = TRUE
  /\ crashes' = crashes + 1
  /\ UNCHANGED <<logs, tables, current, pc, vs, mem, imm, logFile, opening, writing, flush, held,
                 reuse, issued, acked, durable, exposed, created, repaired>>

(* NewIterator keeps the version that is current until it is deleted.       *)
NewIterator ==
  /\ pc = "up" /\ held = {} /\ vs.files # {}
  /\ held' = vs.files
  /\ UNCHANGED <<disk, pc, vs, mem, imm, logFile, opening, writing, flush, compaction, applying,
                 bgError, reuse, history>>

DeleteIterator ==
  /\ held # {}
  /\ held' = {}
  /\ UNCHANGED <<disk, pc, vs, mem, imm, logFile, opening, writing, flush, compaction, applying,
                 bgError, reuse, history>>

-----------------------------------------------------------------------------
(* The process stops, or the database is closed: what was written stays.    *)
ProcessStops ==
  /\ pc # "down" /\ pc # "refused" /\ crashes < MaxCrashes
  /\ Stopped
  /\ pc' = "down"
  /\ crashes' = crashes + 1
  /\ UNCHANGED <<disk, reuse, issued, acked, durable, exposed, created, repaired>>

(* The machine stops: any end of a file that was not synced may be gone,    *)
(* and the record at the cut torn, which only matters to a file that goes   *)
(* on being used.                                                           *)
Kept(f) == {SubSeq(f.recs, 1, n) : n \in f.synced..Len(f.recs)}
LogCuts(f) ==
  {[recs |-> recs, synced |-> Len(recs), torn |-> torn] :
     recs \in Kept(f), torn \in {f.torn, reuse}}
ManifestCuts(f) ==
  {[recs |-> recs, synced |-> Len(recs), end |-> end] :
     recs \in Kept(f), end \in {f.end, "whole"} \union IF reuse THEN {"torn"} ELSE {}}
PowerFails ==
  /\ crashes < MaxCrashes /\ reuse \in Faults
  /\ \E cut \in [DOMAIN logs -> UNION {LogCuts(logs[n]) : n \in DOMAIN logs}] :
       (\A n \in DOMAIN logs : cut[n] \in LogCuts(logs[n])) /\ logs' = cut
  /\ \E cut \in [DOMAIN manifests -> UNION {ManifestCuts(manifests[n]) : n \in DOMAIN manifests}] :
       (\A n \in DOMAIN manifests : cut[n] \in ManifestCuts(manifests[n])) /\ manifests' = cut
  /\ Stopped
  /\ pc' = "down"
  /\ acked' = durable /\ exposed' = {}
  /\ crashes' = crashes + 1
  /\ UNCHANGED <<tables, current, reuse, issued, durable, created, repaired>>

(* RepairDB: every log becomes a table, every table that can be read enters *)
(* a new manifest, the rest moves to lost/.  It is taken to run to its end. *)
Files == DOMAIN logs \union DOMAIN tables
NextFile == Max({0} \union Files) + 1
ConvertLogsToTables ==
  LET number(n) == NextFile + Cardinality({m \in DOMAIN logs : m < n})
      kept == {n \in DOMAIN logs : logs[n].recs # << >>}
  IN  [t \in {number(n) : n \in kept} |->
         [recs |-> ToSet(logs[CHOOSE n \in kept : number(n) = t].recs), ok |-> TRUE]]
ExtractMetaData == Restrict(tables, {n \in DOMAIN tables : tables[n].ok})
RepairedEdit(kept) ==
  [log |-> 0, next |-> NextFile + Cardinality(DOMAIN logs),
   last |-> Max({0} \union {r.seq : r \in UNION {kept[n].recs : n \in DOMAIN kept}}),
   added |-> DOMAIN kept, deleted |-> {}]

RepairDB ==
  /\ pc \in {"down", "refused"} /\ ~repaired /\ Files # {}
  /\ NextFile + Cardinality(DOMAIN logs) < MaxFiles
  /\ \E kept \in {Joined(ConvertLogsToTables, ExtractMetaData)} :
       /\ tables' = kept
       /\ manifests' = [m \in {1} |-> NewManifest(<<RepairedEdit(kept)>>)]
  /\ logs' = << >>
  /\ current' = 1
  /\ pc' = "down"
  /\ created' = FALSE /\ repaired' = TRUE
  /\ UNCHANGED <<vs, mem, imm, logFile, opening, jobs, bgError, reuse, issued, acked, durable,
                 exposed, crashes>>

Next ==
  \/ NewDB \/ NewDBNamed \/ Recover \/ RecoverRefuses \/ RecoverTable \/ RecoverLogFile \/ StartLog
  \/ OpenAsItWas \/ LogOpening \/ ApplyOpening \/ OpenFails
  \/ WriteToLog \/ \E sync \in BOOLEAN : WriteReturns(sync)
  \/ AppendFails \/ SyncFails
  \/ SwitchMemTable \/ StartFlush \/ FinishFlush \/ StartCompaction \/ FinishCompaction
  \/ LogEdit \/ ApplyEdit \/ FlushFails \/ CompactionFails \/ EditFails
  \/ NewIterator \/ DeleteIterator
  \/ ProcessStops \/ PowerFails \/ RepairDB

Spec == Init /\ [][Next]_vars

-----------------------------------------------------------------------------
Contents == mem \union imm \union UNION {tables[n].recs : n \in vs.files \intersect DOMAIN tables}

(* "If this flag is false, and the machine crashes, some recent writes may  *)
(* be lost" (options.h:193): in an open database is every write that        *)
(* returned, unless power failed before it was synced, or it went to a log  *)
(* behind an append that failed - whatever write, flush, compaction,        *)
(* recovery or repair failed or was cut short since.                        *)
PromisedWritesSurvive ==
  pc = "up" => acked \subseteq {r.id : r \in Contents}

(* "If it is just the process that crashes ..., no writes will be lost"     *)
(* (options.h:194), so neither is one behind an append that failed.         *)
NoWriteIsLost ==
  pc = "up" => acked \union exposed \subseteq {r.id : r \in Contents}

(* DeleteObsoleteFiles never takes a table that is still needed: the tables *)
(* of the current version, of an iterator's and of a compaction's are on    *)
(* the disk, whole, and no new file got their number.                       *)
TablesInUseExist ==
  pc = "up" => \A n \in vs.files \union InVersions : n \in DOMAIN tables /\ tables[n].ok

(* A later write has the higher sequence number, across restarts: what is   *)
(* read never depends on which log or table was recovered first.  A repair  *)
(* may bring back what a crash had taken.                                   *)
SequenceFollowsWrites ==
  pc = "up" /\ ~repaired =>
    \A a \in Contents, b \in Contents : a.id < b.id => a.seq < b.seq

(* A database that has been open once opens again after any crash: CURRENT  *)
(* names a manifest that says which files make up the database, and they    *)
(* are there.  What may stop it is only an edit that was put behind one     *)
(* that was cut short, by a compaction that went on after a failed flush.   *)
OpensAgain == created /\ pc = "refused" => manifests[current].end = "broken"
=============================================================================
