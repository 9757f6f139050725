------------------------------ MODULE LsmTree -------------------------------
(***************************************************************************)
(* The data of a leveldb database: memtables, table files in levels, the   *)
(* flushes and compactions that move entries between them, and snapshots.  *)
(* Reads look through all of it in a fixed order and stop at the first     *)
(* entry (DBImpl::Get, Version::Get), which is right only as long as newer *)
(* entries of a key stay in front of older ones.                           *)
(*                                                                         *)
(* A compaction takes two steps, with writes, flushes and snapshots in     *)
(* between: its inputs and the smallest snapshot are fixed under the       *)
(* mutex, the merge runs without it, and LogAndApply installs the result   *)
(* in whatever version is current then.                                    *)
(***************************************************************************)
EXTENDS VersionSet

CONSTANTS
  Keys,     (* user keys: natural numbers                                  *)
  Deletes,  (* bound: what a write may do, {FALSE} for Put alone           *)
  Handles,  (* names of snapshots                                          *)
  Ranges,   (* the ranges that CompactRange is asked for, as the sets of   *)
            (* their ends, {} for all keys                                 *)
  MaxSeq,   (* bound: writes                                               *)
  MaxFiles, (* bound: file numbers                                         *)
  None      (* no compaction, no snapshot                                  *)

ASSUME KeysAssumption == Keys \subseteq Nat
ASSUME BoundsAssumption == MaxSeq \in Nat /\ MaxFiles \in Nat /\ Deletes \subseteq BOOLEAN
ASSUME NoneAssumption == None \notin Nat /\ NoEnd \notin Nat

VARIABLES
  lastSequence,  (* versions_->LastSequence()                              *)
  mem, imm,      (* the entries of mem_ and imm_: [key, seq, del]          *)
  current,       (* files_ of the current version                          *)
  pointers,      (* compact_pointer_: at most one entry per level          *)
  sought,        (* file_to_compact_ with its level, or None               *)
  nextFile,      (* next_file_number_                                      *)
  snapshots,     (* the sequence number of each snapshot, or None          *)
  compaction,    (* the compaction under way: [c, outs, number], or None   *)
  store,         (* history: the value last written to each key, 0 for none*)
  views          (* history: store as it was when each snapshot was taken  *)

treeVars == <<lastSequence, mem, imm, current, pointers, sought, nextFile, snapshots,
              compaction>>
storeVars == <<store, views>>
vars == <<treeVars, storeVars>>

-----------------------------------------------------------------------------
ValueIn(found) == IF \E e \in found : ~e.del THEN (CHOOSE e \in found : TRUE).seq ELSE 0

(* DBImpl::Get at a sequence number: mem, imm, and the current version; the *)
(* value of an entry is its sequence number, and 0 is no value.             *)
Get(k, seq) ==
  ValueIn(IF Visible(mem, k, seq) # {} THEN FirstOf(Visible(mem, k, seq))
          ELSE IF Visible(imm, k, seq) # {} THEN FirstOf(Visible(imm, k, seq))
          ELSE GetFrom(current, k, seq))

Init ==
  /\ lastSequence = 0
  /\ mem = {} /\ imm = {}
  /\ current = [level \in Levels |-> << >>]
  /\ pointers = [level \in Levels |-> {}]
  /\ sought = None
  /\ nextFile = 1
  /\ snapshots = [h \in Handles |-> None]
  /\ compaction = None
  /\ store = [k \in Keys |-> 0]
  /\ views = [h \in Handles |-> None]

(* The end of a Write of one Put or Delete.                                 *)
Write(k, del) ==
  /\ lastSequence < MaxSeq
  /\ lastSequence' = lastSequence + 1
  /\ mem' = mem \union {[key |-> k, seq |-> lastSequence', del |-> del]}
  /\ store' = [store EXCEPT ![k] = IF del THEN 0 ELSE lastSequence']
  /\ UNCHANGED <<imm, current, pointers, sought, nextFile, snapshots, compaction, views>>

(* MakeRoomForWrite makes the memtable immutable.                           *)
SwitchMemTable ==
  /\ mem # {} /\ imm = {}
  /\ imm' = mem
  /\ mem' = {}
  /\ UNCHANGED <<lastSequence, current, pointers, sought, nextFile, snapshots, compaction,
                 storeVars>>

(* CompactMemTable: WriteLevel0Table builds the table and picks its level;  *)
(* LogAndApply makes a new version, in which no file was sought too often.  *)
CompactMemTable ==
  /\ imm # {} /\ nextFile < MaxFiles
  /\ LET level == PickLevelForMemTableOutput(current, Least(imm).key, Most(imm).key, MaxSeq)
     IN  current' = Applied(current, {}, {<<level, [number |-> nextFile, entries |-> imm]>>})
  /\ nextFile' = nextFile + 1
  /\ imm' = {}
  /\ sought' = None
  /\ UNCHANGED <<lastSequence, mem, pointers, snapshots, compaction, storeVars>>

(* NewSnapshot and ReleaseSnapshot.                                         *)
GetSnapshot(h) ==
  /\ snapshots[h] = None
  /\ snapshots' = [snapshots EXCEPT ![h] = lastSequence]
  /\ views' = [views EXCEPT ![h] = store]
  /\ UNCHANGED <<lastSequence, mem, imm, current, pointers, sought, nextFile, compaction,
                 store>>

ReleaseSnapshot(h) ==
  /\ snapshots[h] # None
  /\ snapshots' = [snapshots EXCEPT ![h] = None]
  /\ views' = [views EXCEPT ![h] = None]
  /\ UNCHANGED <<lastSequence, mem, imm, current, pointers, sought, nextFile, compaction,
                 store>>

Open == {snapshots[h] : h \in Handles} \ {None}

(* Version::UpdateStats: a read that went through more than one file        *)
(* charges the first, which may have no seek left.                          *)
UpdateStats(k, seq) ==
  /\ sought = None
  /\ Visible(mem \union imm, k, seq) = {}
  /\ Len(Reads(current, k, seq)) >= 2
  /\ sought' = Head(Reads(current, k, seq))
  /\ UNCHANGED <<lastSequence, mem, imm, current, pointers, nextFile, snapshots, compaction,
                 storeVars>>

(* Version::RecordReadSample: an iterator that has read much charges the    *)
(* first of the files in whose range its entry is, if there are more.       *)
RecordReadSample(e) ==
  /\ sought = None
  /\ Len(FilesFor(current, e.key, e.seq)) >= 2
  /\ sought' = Head(FilesFor(current, e.key, e.seq))
  /\ UNCHANGED <<lastSequence, mem, imm, current, pointers, nextFile, snapshots, compaction,
                 storeVars>>
Iterated == mem \union imm \union UNION {EntriesOf(current[level]) : level \in Levels}

-----------------------------------------------------------------------------
SmallestSnapshot == IF Open = {} THEN lastSequence ELSE Min(Open)

(* DoCompactionWork begins: what the merge will give is settled here.       *)
Begin(c) ==
  /\ \E outs \in {Outputs(current, c, SmallestSnapshot)} :
       /\ nextFile + Len(outs) <= MaxFiles
       /\ compaction' = [c |-> c, outs |-> outs, number |-> nextFile]
       /\ nextFile' = nextFile + Len(outs)
  /\ UNCHANGED <<current, sought>>

(* A trivial move installs at once.                                         *)
Move(c) ==
  /\ current' = Applied(current, InputDeletions(c),
                        {<<c.level + 1, f>> : f \in ToSet(c.inputs[1])})
  /\ sought' = None
  /\ UNCHANGED <<nextFile, compaction>>

(* BackgroundCompaction of what the version set picks: size before seeks.   *)
PickCompaction ==
  /\ imm = {} /\ compaction = None
  /\ SizeCompaction(current) \/ sought # None
  /\ \E c \in {IF SizeCompaction(current) THEN PickedBySize(current, pointers)
              ELSE Picked(current, sought.level, sought.file)} :
       /\ pointers' = [pointers EXCEPT ![c.level] = {c.pointer}]
       /\ IF IsTrivialMove(c) THEN Move(c) ELSE Begin(c)
  /\ UNCHANGED <<lastSequence, mem, imm, snapshots, storeVars>>

(* BackgroundCompaction of what CompactRange asked for.                     *)
CompactRange(level, begin, end) ==
  /\ imm = {} /\ compaction = None
  /\ GetOverlappingInputs(current, level, begin, end) # << >>
  /\ \E c \in {PickedInRange(current, level, begin, end)} :
       /\ pointers' = [pointers EXCEPT ![level] = {c.pointer}]
       /\ Begin(c)
  /\ UNCHANGED <<lastSequence, mem, imm, snapshots, storeVars>>

(* InstallCompactionResults: the outputs take the place of the inputs.      *)
InstallCompactionResults ==
  /\ compaction # None
  /\ LET c == compaction.c
         out(i) == <<c.level + 1, [number |-> compaction.number + i - 1,
                                   entries |-> compaction.outs[i]]>>
     IN  current' = Applied(current, InputDeletions(c),
                            {out(i) : i \in DOMAIN compaction.outs})
  /\ compaction' = None
  /\ sought' = None
  /\ UNCHANGED <<lastSequence, mem, imm, pointers, nextFile, snapshots, storeVars>>

CompactSomeRange ==
  \E level \in 0..(NumLevels - 2), range \in Ranges :
    IF range = {} THEN CompactRange(level, NoEnd, NoEnd)
    ELSE CompactRange(level, Min(range), Max(range))

Next ==
  \/ \E k \in Keys, del \in Deletes : Write(k, del)
  \/ SwitchMemTable
  \/ CompactMemTable
  \/ \E h \in Handles : GetSnapshot(h) \/ ReleaseSnapshot(h)
  \/ \E k \in Keys, seq \in Open \union {lastSequence} : UpdateStats(k, seq)
  \/ \E e \in Iterated : RecordReadSample(e)
  \/ PickCompaction
  \/ CompactSomeRange
  \/ InstallCompactionResults

Spec == Init /\ [][Next]_vars

-----------------------------------------------------------------------------
(* "Must not overlap" (version_set.cc:765): below level 0 the files of a    *)
(* level are in order and apart.                                            *)
LevelsDisjoint ==
  \A level \in 1..(NumLevels - 1) : \A i \in 1..(Len(current[level]) - 1) :
    Less(Largest(current[level][i]), Smallest(current[level][i + 1]))

(* "if we find data in an smaller level, later levels are irrelevant"       *)
(* (version_set.cc:346): on the way of a read - mem_, imm_, level 0 from the *)
(* highest number down, the deeper levels - the entries of a key only get   *)
(* older.                                                                   *)
NewestOnTop ==
  LET newer(upper, lower) ==
        \A e \in upper, d \in lower : e.key = d.key => e.seq > d.seq
  IN  /\ newer(mem, imm)
      /\ \A l \in Levels : newer(mem \union imm, EntriesOf(current[l]))
      /\ \A f \in ToSet(current[0]), g \in ToSet(current[0]) :
           f.number > g.number => newer(f.entries, g.entries)
      /\ \A l \in Levels, m \in Levels : l < m => newer(EntriesOf(current[l]), EntriesOf(current[m]))

(* Both: the order that every search relies on.                             *)
TreeIsInOrder == LevelsDisjoint /\ NewestOnTop

(* The database is the store it promises to be: whatever is flushed, moved, *)
(* merged or dropped, a read gives the last value written, and a read at a  *)
(* snapshot the last one when it was taken.                                 *)
ReadsAreRight ==
  /\ \A k \in Keys : Get(k, lastSequence) = store[k]
  /\ \A h \in Handles : snapshots[h] # None =>
       \A k \in Keys : Get(k, snapshots[h]) = views[h][k]
=============================================================================
