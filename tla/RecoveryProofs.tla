--------------------------- MODULE RecoveryProofs ---------------------------
(***************************************************************************)
(* What a leveldb database promises over crashes, proved for any number of *)
(* writes, files, failures and crashes (Recovery): a write that was        *)
(* promised is in the open database, tables in use exist, a database opens  *)
(* again, and sequence numbers follow the writes.                          *)
(***************************************************************************)
EXTENDS Recovery, FiniteSetTheorems, TLAPS

Records(n) == [seq : 1..n, id : 1..n]
IsBounded(S) == \E b \in Nat : S \subseteq 1..b
LogType(n) == [recs : Seq(Records(n)), synced : Nat, torn : BOOLEAN]
TableType(n) == [recs : SUBSET Records(n), ok : BOOLEAN]
ManifestType == [recs : Seq(EditType), synced : Nat, end : {"whole", "torn", "broken"}]
VersionType == [log : Nat, next : Nat, last : 0..issued, manifest : Nat, described : BOOLEAN, files : SUBSET Nat]
OpeningType ==
  [todo : SUBSET Nat, at : Nat, compacted : BOOLEAN, added : SUBSET Nat, save : BOOLEAN, max : 0..issued]

TypeOK ==
  /\ IsBounded(DOMAIN logs)
  /\ \A n \in DOMAIN logs : logs[n] \in LogType(issued) /\ logs[n].synced <= Len(logs[n].recs)
  /\ IsBounded(DOMAIN tables)
  /\ \A n \in DOMAIN tables : tables[n] \in TableType(issued)
  /\ \A n \in DOMAIN manifests : manifests[n] \in ManifestType /\ manifests[n].synced <= Len(manifests[n].recs)
  /\ current \in Nat
  /\ pc \in {"down", "creating", "recovering", "starting", "applying", "up", "refused"}
  /\ vs \in VersionType
  /\ mem \in SUBSET Records(issued) /\ imm \in SUBSET Records(issued)
  /\ logFile \in Nat
  /\ opening \in OpeningType
  /\ writing \in Records(issued) \union {None}
  /\ flush \in Nat \union {None}
  /\ compaction \in [inputs : SUBSET Nat, out : Nat] \union {None}
  /\ applying \in Application \union {None}
  /\ held \in SUBSET Nat
  /\ bgError \in BOOLEAN /\ reuse \in BOOLEAN
  /\ issued \in Nat
  /\ durable \subseteq acked /\ acked \subseteq 1..issued
  /\ created \in BOOLEAN /\ repaired \in BOOLEAN

-----------------------------------------------------------------------------
InTables(T, files, id) == \E t \in files : \E r \in T[t].recs : r.id = id
InLogs(L, from, id) == \E m \in DOMAIN L : m >= from /\ \E k \in 1..Len(L[m].recs) : L[m].recs[k].id = id
InSynced(L, from, id) == \E m \in DOMAIN L : m >= from /\ \E k \in 1..L[m].synced : L[m].recs[k].id = id
InSet(S, id) == \E r \in S : r.id = id

(* An end of a manifest, its last edit e and the tables files that its      *)
(* edits make up, is good for the writes ids, of which syncs were synced.   *)
Good(e, files, T, L, n, w, ids, syncs) ==
  /\ e \in EditType /\ e.next \in Nat /\ e.log \in Nat /\ e.last \in 0..w
  /\ n < e.next /\ e.log < e.next
  /\ \A f \in files : f \in DOMAIN T /\ T[f].ok /\ f < e.next
  /\ \A id \in ids : InTables(T, files, id) \/ InLogs(L, e.log, id)
  /\ \A id \in syncs : InTables(T, files, id) \/ InSynced(L, e.log, id)

(* Tables and logs have the writes ids, of which syncs are synced.           *)
Has(T, files, L, from, ids, syncs) ==
  /\ \A id \in ids : InTables(T, files, id) \/ InLogs(L, from, id)
  /\ \A id \in syncs : InTables(T, files, id) \/ InSynced(L, from, id)

Promised == IF reuse THEN {} ELSE durable
Ends(m) == {n \in 1..Len(m.recs) : n = Len(m.recs) \/ (~reuse /\ n >= m.synced)}
Final(m) == m.recs[Len(m.recs)]
EndsAreGood ==
  \A n \in Ends(manifests[current]) :
     /\ Good(manifests[current].recs[n], FilesAfter(manifests[current].recs, n), tables, logs,
             current, issued, acked, Promised)
     /\ manifests[current].recs[n].next <= Final(manifests[current]).next

DiskInv ==
  /\ current = 0 => DOMAIN logs = {} /\ DOMAIN tables = {} /\ acked = {} /\ ~created
  /\ current # 0 => current \in DOMAIN manifests /\ EndsAreGood
  /\ created => current # 0 /\ Len(manifests[current].recs) > 0 /\ (reuse \/ manifests[current].synced > 0)
  /\ acked # {} => created \/ repaired

-----------------------------------------------------------------------------
Quiet == writing = None /\ flush = None /\ compaction = None /\ held = {}
AsleepInv ==
  pc \in {"down", "creating", "refused"} =>
    Quiet /\ mem = {} /\ imm = {} /\ logFile = 0 /\ opening = NotOpening /\ applying = None /\ ~bgError

CreatingInv ==
  pc = "creating" => current = 0 /\ 1 \in DOMAIN manifests /\ manifests[1] = NewManifest(<<NewDBEdit>>)

RefusedInv == pc = "refused" => ~created \/ manifests[current].end = "broken"

(* Only without reuse_logs is a manifest damaged, and never appended to by  *)
(* another process.                                                         *)
WholeInv ==
  /\ reuse => \A n \in DOMAIN manifests : manifests[n].end = "whole"
  /\ pc = "up" /\ ~bgError => manifests[current].end = "whole"

(* What the logs that Open has not yet read hold.                           *)
LeftInLogs(id) ==
  \E n \in opening.todo : \E k \in 1..Len(logs[n].recs) :
     logs[n].recs[k].id = id /\ ((\A m \in opening.todo : n <= m) => k > opening.at)

Opening == pc \in {"recovering", "starting", "applying"}
OpeningInv ==
  Opening =>
    /\ current # 0 /\ Len(manifests[current].recs) > 0
    /\ Quiet /\ imm = {} /\ ~bgError
    /\ vs.manifest < vs.next /\ vs.log < vs.next /\ (vs.described => reuse)
    /\ vs.described => vs.manifest = current
    /\ ~vs.described => vs.manifest > current
    /\ ~opening.save => vs.described /\ opening.added = {}
    /\ \A t \in vs.files \union opening.added : t \in DOMAIN tables /\ tables[t].ok /\ t < vs.next
    /\ \A n \in opening.todo : n \in DOMAIN logs /\ n >= vs.log
    /\ \A n \in DOMAIN logs : n \in opening.todo \/ n < vs.next
    /\ opening.todo # {} => logFile = 0
    /\ ~opening.compacted => opening.at = 0
    /\ mem # {} => reuse
    /\ logFile = 0 => mem = {}
    /\ logFile # 0 => /\ logFile \in DOMAIN logs /\ logFile >= vs.log
                      /\ \A r \in mem : \E k \in 1..Len(logs[logFile].recs) : logs[logFile].recs[k] = r
    /\ \A id \in acked :
         InTables(tables, vs.files \union opening.added, id) \/ InSet(mem, id) \/ LeftInLogs(id)
    /\ Has(tables, vs.files, logs, vs.log, acked, Promised)

ReadInv ==
  pc \in {"recovering", "starting"} =>
    /\ applying = None
    /\ \A n \in Ends(manifests[current]) : manifests[current].recs[n].next < vs.next
    /\ FilesAfter(manifests[current].recs, Len(manifests[current].recs)) = vs.files
    /\ Final(manifests[current]).log = vs.log

LogIsOpen == pc \in {"starting", "applying"} => opening.todo = {} /\ logFile # 0

ApplyingInv ==
  pc = "applying" =>
    /\ applying # None
    /\ applying.edit.log = logFile /\ applying.edit.added = opening.added /\ applying.edit.deleted = {}
    /\ applying.edit.next = vs.next /\ applying.edit.last \in 0..issued
    /\ ~vs.described =>
         /\ vs.manifest \in DOMAIN manifests
         /\ manifests[vs.manifest] = NewManifest(<<Snapshot(vs.files), applying.edit>>)
    /\ vs.described =>
         /\ Final(manifests[current]) = applying.edit
         /\ FilesAfter(manifests[current].recs, Len(manifests[current].recs))
              = vs.files \union opening.added

-----------------------------------------------------------------------------
Logged == applying # None /\ applying.logged
(* The edits of the manifest that the version of the process has applied.   *)
Settled(recs) == IF Logged THEN Len(recs) - 1 ELSE Len(recs)

UpInv ==
  pc = "up" =>
    /\ current # 0 /\ created /\ vs.manifest = current
    /\ vs.manifest < vs.next /\ vs.log <= logFile /\ logFile < vs.next
    /\ logFile \in DOMAIN logs
    /\ \A n \in DOMAIN logs : n < vs.next
    /\ \A r \in mem : r.id \in acked => \E k \in 1..Len(logs[logFile].recs) : logs[logFile].recs[k] = r
    /\ \A n \in Ends(manifests[current]) : manifests[current].recs[n].next <= vs.next
                                           /\ manifests[current].recs[n].log <= logFile
    /\ \A t \in vs.files \union held : t \in DOMAIN tables /\ tables[t].ok /\ t < vs.next
    /\ writing # None => /\ writing.id = issued /\ issued \notin acked /\ \A r \in mem : r.id # issued
                         /\ \/ logs[logFile].torn
                            \/ \E k \in 1..Len(logs[logFile].recs) : logs[logFile].recs[k] = writing
    /\ ~reuse => \A r \in mem : r.id \in durable =>
                   \E k \in 1..logs[logFile].synced : logs[logFile].recs[k] = r
    /\ \A id \in acked : InSet(mem, id) \/ InSet(imm, id) \/ InTables(tables, vs.files, id)
    /\ Has(tables, vs.files, logs, vs.log, acked, Promised)

FlushInv ==
  pc = "up" /\ flush # None =>
    /\ flush \in DOMAIN tables /\ ~tables[flush].ok /\ flush < vs.next /\ flush \notin vs.files \union held
    /\ applying = None /\ imm # {}
    /\ compaction # None => compaction.out # flush

CompactionInv ==
  pc = "up" /\ compaction # None =>
    /\ compaction.inputs \subseteq vs.files /\ compaction.out \in DOMAIN tables
    /\ compaction.out \notin vs.files \union held /\ compaction.out < vs.next
    /\ (applying = None \/ applying.by = "flush") => ~tables[compaction.out].ok

(* The version is that of the manifest, but for the edit being written.     *)
ManifestInv ==
  pc = "up" /\ ~bgError =>
    /\ Settled(manifests[current].recs) > 0
    /\ FilesAfter(manifests[current].recs, Settled(manifests[current].recs)) = vs.files
    /\ manifests[current].recs[Settled(manifests[current].recs)].log = vs.log
    /\ reuse \/ manifests[current].synced = Settled(manifests[current].recs)
    /\ Logged => Final(manifests[current]) = applying.edit

(* After an error a job that is still at work may have edits behind it that *)
(* were not applied: those of failed flushes, which only add tables.        *)
Working == flush # None \/ compaction # None \/ applying # None
WorkInv ==
  pc = "up" /\ bgError /\ Working /\ manifests[current].end # "broken" =>
    /\ Settled(manifests[current].recs) > 0
    /\ vs.files \subseteq FilesAfter(manifests[current].recs, Settled(manifests[current].recs))
    /\ Logged => Final(manifests[current]) = applying.edit

EditInv ==
  pc = "up" /\ applying # None =>
    /\ flush = None
    /\ applying.edit.next \in Nat /\ applying.edit.next <= vs.next
    /\ applying.edit.log \in Nat /\ applying.edit.log < applying.edit.next
    /\ applying.edit.last \in 0..issued /\ vs.manifest < applying.edit.next
    /\ \A f \in vs.files : f < applying.edit.next
    /\ \A n \in Ends(manifests[current]) : manifests[current].recs[n].next <= applying.edit.next
    /\ \E t \in DOMAIN tables :
         /\ applying.edit.added = {t} /\ t < applying.edit.next /\ tables[t].ok
         /\ applying.by = "flush" =>
              /\ tables[t].recs = imm /\ applying.edit.deleted = {} /\ applying.edit.log = logFile
              /\ imm # {} /\ t \notin vs.files
              /\ compaction # None => compaction.out # t
         /\ applying.by # "flush" =>
              /\ compaction # None /\ t = compaction.out /\ applying.edit.deleted = compaction.inputs
              /\ applying.edit.log = vs.log
              /\ tables[t].recs = UNION {tables[n].recs : n \in compaction.inputs}

OnlyUp == pc # "up" => Quiet

IInv == /\ TypeOK /\ DiskInv
        /\ AsleepInv /\ CreatingInv /\ RefusedInv /\ WholeInv
        /\ OpeningInv /\ ReadInv /\ LogIsOpen /\ ApplyingInv
        /\ UpInv /\ FlushInv /\ CompactionInv /\ ManifestInv /\ WorkInv /\ EditInv
        /\ OnlyUp
-----------------------------------------------------------------------------
(* Numbers: a set of naturals has a least number, and a bounded one a       *)
(* greatest.                                                                *)
NatBefore == OpToRel(<, Nat)

LEMMA LeastNumber ==
  ASSUME NEW T \in SUBSET Nat, T # {}
  PROVE  Min(T) \in T /\ \A n \in T : Min(T) <= n
<1>1. IsWellFoundedOn(NatBefore, Nat)
  BY NatLessThanWellFounded DEF OpToRel, NatBefore
<1>2. PICK m \in T : \A n \in T : <<n, m>> \notin NatBefore
  BY <1>1, WFMin
<1>3. ASSUME NEW n \in T PROVE m <= n
  <2>1. <<n, m>> \in Nat \X Nat /\ <<n, m>>[1] = n /\ <<n, m>>[2] = m
    OBVIOUS
  <2>2. ~(n < m)
    BY <1>2, <2>1 DEF NatBefore, OpToRel
  <2>3. QED
    BY <2>2
<1>4. QED
  BY <1>3 DEF Min

LEMMA GreatestNumber ==
  ASSUME NEW b \in Nat, NEW S \in SUBSET (0..b), S # {}
  PROVE  Max(S) \in S /\ \A x \in S : x <= Max(S)
<1>. DEFINE gaps == {b - x : x \in S}
<1>1. gaps \in SUBSET Nat /\ gaps # {}
  <2>1. \A x \in S : b - x \in Nat
    OBVIOUS
  <2>2. PICK x \in S : TRUE
    OBVIOUS
  <2>3. b - x \in gaps
    OBVIOUS
  <2>4. QED
    BY <2>1, <2>3
<1>2. Min(gaps) \in gaps /\ \A g \in gaps : Min(gaps) <= g
  BY <1>1, LeastNumber
<1>3. PICK x \in S : Min(gaps) = b - x
  BY <1>2
<1>4. \A y \in S : x >= y
  BY <1>2, <1>3
<1>5. QED
  BY <1>4 DEF Max

LEMMA MaxOfTwo ==
  ASSUME NEW a \in Nat, NEW b \in Nat
  PROVE  Max({a, b}) = IF a < b THEN b ELSE a
<1>1. CASE a < b
  <2>1. \E x \in {a, b} : \A y \in {a, b} : x >= y
    BY <1>1
  <2>2. QED
    BY <1>1, <2>1 DEF Max
<1>2. CASE ~(a < b)
  <2>1. \E x \in {a, b} : \A y \in {a, b} : x >= y
    BY <1>2
  <2>2. QED
    BY <1>2, <2>1 DEF Max
<1>3. QED
  BY <1>1, <1>2

LEMMA BoundedGrows ==
  ASSUME NEW S, IsBounded(S), NEW n \in Nat \ {0}
  PROVE  IsBounded(S \union {n}) /\ \A R \in SUBSET S : IsBounded(R)
<1>1. PICK b \in Nat : S \subseteq 1..b
  BY DEF IsBounded
<1>2. S \union {n} \subseteq 1..(b + n)
  BY <1>1
<1>3. b + n \in Nat
  BY <1>1
<1>4. IsBounded(S \union {n})
  BY <1>2, <1>3 DEF IsBounded
<1>5. ASSUME NEW R \in SUBSET S PROVE IsBounded(R)
  BY <1>1 DEF IsBounded
<1>6. QED
  BY <1>4, <1>5

-----------------------------------------------------------------------------
(* The files that edits make up.                                            *)
LEMMA FilesAfterNone == ASSUME NEW edits PROVE FilesAfter(edits, 0) = {}
<1>1. 1..0 = {}
  OBVIOUS
<1>2. QED
  BY <1>1 DEF FilesAfter

LEMMA FilesAfterSame ==
  ASSUME NEW a, NEW b, NEW n \in Nat, \A i \in 1..n : a[i] = b[i]
  PROVE  FilesAfter(a, n) = FilesAfter(b, n)
<1>1. ASSUME NEW f PROVE f \in FilesAfter(a, n) <=> f \in FilesAfter(b, n)
  <2>1. (\E i \in 1..n : f \in a[i].added) <=> (\E i \in 1..n : f \in b[i].added)
    OBVIOUS
  <2>2. ASSUME NEW i \in 1..n
        PROVE  (\A j \in (i + 1)..n : f \notin a[j].deleted) <=> (\A j \in (i + 1)..n : f \notin b[j].deleted)
    <3>1. \A j \in (i + 1)..n : j \in 1..n
      OBVIOUS
    <3>2. QED
      BY <3>1
  <2>3. QED
    BY <2>1, <2>2 DEF FilesAfter
<1>2. QED
  BY <1>1

LEMMA FilesAfterStep ==
  ASSUME NEW a, NEW n \in Nat, n > 0
  PROVE  FilesAfter(a, n) = (FilesAfter(a, n - 1) \ a[n].deleted) \union a[n].added
<1>1. ASSUME NEW f
      PROVE  f \in FilesAfter(a, n) <=> f \in (FilesAfter(a, n - 1) \ a[n].deleted) \union a[n].added
  <2>1. f \in FilesAfter(a, n) <=>
          \E i \in 1..n : f \in a[i].added /\ \A j \in (i + 1)..n : f \notin a[j].deleted
    BY DEF FilesAfter
  <2>2. f \in FilesAfter(a, n - 1) <=>
          \E i \in 1..(n - 1) : f \in a[i].added /\ \A j \in (i + 1)..(n - 1) : f \notin a[j].deleted
    BY DEF FilesAfter
  <2>3. ASSUME f \in a[n].added PROVE f \in FilesAfter(a, n)
    BY <2>1, <2>3
  <2>4. ASSUME f \in FilesAfter(a, n - 1), f \notin a[n].deleted PROVE f \in FilesAfter(a, n)
    <3>1. PICK i \in 1..(n - 1) : f \in a[i].added /\ \A j \in (i + 1)..(n - 1) : f \notin a[j].deleted
      BY <2>2, <2>4
    <3>2. i \in 1..n /\ \A j \in (i + 1)..n : f \notin a[j].deleted
      BY <2>4, <3>1
    <3>3. QED
      BY <2>1, <3>1, <3>2
  <2>5. ASSUME f \in FilesAfter(a, n), f \notin a[n].added
        PROVE  f \in FilesAfter(a, n - 1) /\ f \notin a[n].deleted
    <3>1. PICK i \in 1..n : f \in a[i].added /\ \A j \in (i + 1)..n : f \notin a[j].deleted
      BY <2>1, <2>5
    <3>2. i \in 1..(n - 1) /\ n \in (i + 1)..n
      BY <2>5, <3>1
    <3>3. \A j \in (i + 1)..(n - 1) : j \in (i + 1)..n
      OBVIOUS
    <3>4. QED
      BY <2>2, <3>1, <3>2, <3>3
  <2>6. QED
    BY <2>3, <2>4, <2>5
<1>2. QED
  BY <1>1

LEMMA LastEditIs ==
  ASSUME NEW edits, Len(edits) \in Nat, Len(edits) > 0, edits[Len(edits)].next # None
  PROVE  LastEdit(edits) = edits[Len(edits)]
<1>. DEFINE S == {i \in 1..Len(edits) : edits[i].next # None}
<1>1. S \in SUBSET (0..Len(edits)) /\ Len(edits) \in S
  OBVIOUS
<1>2. Max(S) \in S /\ \A x \in S : x <= Max(S)
  BY <1>1, GreatestNumber
<1>3. Max(S) = Len(edits)
  BY <1>1, <1>2
<1>4. LastEdit(edits) = edits[Max(S)]
  BY DEF LastEdit
<1>5. QED
  BY <1>3, <1>4

-----------------------------------------------------------------------------
(* An end of a manifest stays good while its tables stay and its logs grow. *)
Keeps(T, U, files) == \A f \in files : f \in DOMAIN T => f \in DOMAIN U /\ U[f] = T[f]
Longer(a, b) ==
  /\ \A k \in 1..Len(a.recs) : k \in 1..Len(b.recs) /\ b.recs[k] = a.recs[k]
  /\ \A k \in 1..a.synced : k \in 1..b.synced /\ b.recs[k] = a.recs[k]
Grows(L, M, from) == \A m \in DOMAIN L : m >= from => m \in DOMAIN M /\ Longer(L[m], M[m])

LEMMA GoodStays ==
  ASSUME NEW e, NEW files, NEW T, NEW U, NEW L, NEW M, NEW n, NEW w \in Nat, NEW x \in Nat, w <= x,
         NEW ids, NEW syncs, Good(e, files, T, L, n, w, ids, syncs),
         Keeps(T, U, files), Grows(L, M, e.log)
  PROVE  Good(e, files, U, M, n, x, ids, syncs)
<1>1. ASSUME NEW id, InTables(T, files, id) PROVE InTables(U, files, id)
  BY <1>1 DEF InTables, Keeps, Good
<1>2. ASSUME NEW id, InLogs(L, e.log, id) PROVE InLogs(M, e.log, id)
  <2>1. PICK m \in DOMAIN L : m >= e.log /\ \E k \in 1..Len(L[m].recs) : L[m].recs[k].id = id
    BY <1>2 DEF InLogs
  <2>2. m \in DOMAIN M /\ Longer(L[m], M[m])
    BY <2>1 DEF Grows
  <2>3. QED
    BY <2>1, <2>2 DEF InLogs, Longer
<1>3. ASSUME NEW id, InSynced(L, e.log, id) PROVE InSynced(M, e.log, id)
  <2>1. PICK m \in DOMAIN L : m >= e.log /\ \E k \in 1..L[m].synced : L[m].recs[k].id = id
    BY <1>3 DEF InSynced
  <2>2. m \in DOMAIN M /\ Longer(L[m], M[m])
    BY <2>1 DEF Grows
  <2>3. QED
    BY <2>1, <2>2 DEF InSynced, Longer
<1>4. \A f \in files : f \in DOMAIN U /\ U[f].ok /\ f < e.next
  BY DEF Good, Keeps
<1>5. e.last \in 0..x
  BY DEF Good
<1>6. QED
  BY <1>1, <1>2, <1>3, <1>4, <1>5 DEF Good

LEMMA HasStays ==
  ASSUME NEW files, NEW T, NEW U, NEW L, NEW M, NEW from, NEW ids, NEW syncs,
         Has(T, files, L, from, ids, syncs), files \subseteq DOMAIN T,
         Keeps(T, U, files), Grows(L, M, from)
  PROVE  Has(U, files, M, from, ids, syncs)
<1>1. ASSUME NEW id, InTables(T, files, id) PROVE InTables(U, files, id)
  BY <1>1 DEF InTables, Keeps
<1>2. ASSUME NEW id, InLogs(L, from, id) PROVE InLogs(M, from, id)
  <2>1. PICK m \in DOMAIN L : m >= from /\ \E k \in 1..Len(L[m].recs) : L[m].recs[k].id = id
    BY <1>2 DEF InLogs
  <2>2. m \in DOMAIN M /\ Longer(L[m], M[m])
    BY <2>1 DEF Grows
  <2>3. QED
    BY <2>1, <2>2 DEF InLogs, Longer
<1>3. ASSUME NEW id, InSynced(L, from, id) PROVE InSynced(M, from, id)
  <2>1. PICK m \in DOMAIN L : m >= from /\ \E k \in 1..L[m].synced : L[m].recs[k].id = id
    BY <1>3 DEF InSynced
  <2>2. m \in DOMAIN M /\ Longer(L[m], M[m])
    BY <2>1 DEF Grows
  <2>3. QED
    BY <2>1, <2>2 DEF InSynced, Longer
<1>4. QED
  BY <1>1, <1>2, <1>3 DEF Has

LEMMA GoodHas ==
  ASSUME NEW e, NEW files, NEW T, NEW L, NEW n, NEW w, NEW ids, NEW syncs,
         Good(e, files, T, L, n, w, ids, syncs)
  PROVE  Has(T, files, L, e.log, ids, syncs)
  BY DEF Good, Has

LEMMA EndsStay ==
  ASSUME EndsAreGood, issued \in Nat, issued' \in Nat, issued <= issued',
         current' = current, reuse' = reuse,
         manifests'[current].recs = manifests[current].recs,
         manifests'[current].synced = manifests[current].synced,
         acked' = acked, durable' = durable,
         \A n \in Ends(manifests[current]) :
            /\ Keeps(tables, tables', FilesAfter(manifests[current].recs, n))
            /\ Grows(logs, logs', manifests[current].recs[n].log)
  PROVE  EndsAreGood'
<1>1. Ends(manifests[current])' = Ends(manifests[current]) /\ Promised' = Promised
  BY DEF Ends, Promised
<1>2. ASSUME NEW n \in Ends(manifests[current])
      PROVE  Good(manifests[current].recs[n], FilesAfter(manifests[current].recs, n), tables', logs',
                  current, issued', acked, Promised)
  <2>1. Good(manifests[current].recs[n], FilesAfter(manifests[current].recs, n), tables, logs,
             current, issued, acked, Promised)
    BY DEF EndsAreGood
  <2>2. QED
    BY <2>1, GoodStays
<1>3. Final(manifests'[current]) = Final(manifests[current])
  BY DEF Final
<1>4. ASSUME NEW n \in Ends(manifests[current])
      PROVE  manifests'[current].recs[n].next <= Final(manifests'[current]).next
  BY <1>3 DEF EndsAreGood
<1>5. ASSUME NEW n \in Ends(manifests[current])
      PROVE  Good(manifests'[current'].recs[n], FilesAfter(manifests'[current'].recs, n), tables', logs',
                  current', issued', acked', Promised')
  BY <1>1, <1>2
<1>6. QED
  BY <1>1, <1>4, <1>5 DEF EndsAreGood

LEMMA LogsStay == ASSUME NEW L, NEW from PROVE Grows(L, L, from)
  BY DEF Grows, Longer

LEMMA TablesStay == ASSUME NEW T, NEW files PROVE Keeps(T, T, files)
  BY DEF Keeps

-----------------------------------------------------------------------------
(* A manifest stays whole that is not appended to.                          *)
LEMMA WholeStays ==
  ASSUME WholeInv, manifests' = manifests, reuse' = reuse,
         pc' = "up" => pc = "up" /\ current' = current /\ (~bgError' => ~bgError)
  PROVE  WholeInv'
  BY DEF WholeInv

(* What is said of other phases than the next holds.                        *)
LEMMA WhenUp ==
  ASSUME pc' = "up"
  PROVE  /\ AsleepInv' /\ CreatingInv' /\ RefusedInv' /\ OpeningInv' /\ ReadInv' /\ LogIsOpen'
         /\ ApplyingInv' /\ OnlyUp'
  BY DEF AsleepInv, CreatingInv, RefusedInv, OpeningInv, Opening, ReadInv, LogIsOpen, ApplyingInv, OnlyUp

LEMMA WhenAsleep ==
  ASSUME pc' \in {"down", "creating", "refused"}, AsleepInv'
  PROVE  /\ OpeningInv' /\ ReadInv' /\ LogIsOpen' /\ ApplyingInv'
         /\ UpInv' /\ FlushInv' /\ CompactionInv' /\ ManifestInv' /\ WorkInv' /\ EditInv' /\ OnlyUp'
  BY DEF AsleepInv, OpeningInv, Opening, ReadInv, LogIsOpen, ApplyingInv, OnlyUp, UpInv, FlushInv,
         CompactionInv, ManifestInv, WorkInv, EditInv

LEMMA WhenOpening ==
  ASSUME pc' \in {"recovering", "starting", "applying"}, OpeningInv'
  PROVE  /\ AsleepInv' /\ CreatingInv' /\ RefusedInv'
         /\ UpInv' /\ FlushInv' /\ CompactionInv' /\ ManifestInv' /\ WorkInv' /\ EditInv' /\ OnlyUp'
  BY DEF AsleepInv, CreatingInv, RefusedInv, OpeningInv, Opening, OnlyUp, UpInv, FlushInv,
         CompactionInv, ManifestInv, WorkInv, EditInv

LEMMA InitIInv == Init => IInv
<1>. SUFFICES ASSUME Init PROVE IInv
  OBVIOUS
<1>1. TypeOK
  <2>1. DOMAIN << >> = {}
    OBVIOUS
  <2>2. IsBounded({})
    BY DEF IsBounded
  <2>3. vs \in VersionType /\ opening \in OpeningType
    BY DEF Init, VersionType, OpeningType, Fresh, NotOpening
  <2>4. IsBounded(DOMAIN logs) /\ IsBounded(DOMAIN tables) /\ DOMAIN logs = {} /\ DOMAIN tables = {}
        /\ DOMAIN manifests = {}
    BY <2>1, <2>2 DEF Init
  <2>5. QED
    BY <2>3, <2>4 DEF Init, TypeOK
<1>2. DiskInv
  BY DEF Init, DiskInv
<1>3. WholeInv
  <2>1. DOMAIN << >> = {}
    OBVIOUS
  <2>2. QED
    BY <2>1 DEF Init, WholeInv
<1>4. QED
  BY <1>1, <1>2, <1>3 DEF Init, IInv, AsleepInv, CreatingInv, RefusedInv, OpeningInv, Opening, ReadInv,
     LogIsOpen, ApplyingInv, UpInv, FlushInv, CompactionInv, ManifestInv, WorkInv, EditInv, OnlyUp, Quiet

LEMMA NewDBIInv == ASSUME IInv, NewDB PROVE IInv'
<1>. USE DEF NewDB, process, history, jobs
<1>0. /\ DOMAIN manifests' = DOMAIN manifests \union {1} /\ manifests'[1] = NewManifest(<<NewDBEdit>>)
      /\ \A n \in DOMAIN manifests : n # 1 => manifests'[n] = manifests[n]
  BY DEF With, Joined
<1>1. TypeOK'
  <2>1. NewDBEdit \in EditType
    BY DEF NewDBEdit, EditType
  <2>2. NewManifest(<<NewDBEdit>>) \in ManifestType /\ 0 <= Len(NewManifest(<<NewDBEdit>>).recs)
        /\ NewManifest(<<NewDBEdit>>).synced = 0
    BY <2>1 DEF NewManifest, ManifestType
  <2>3. \A n \in DOMAIN manifests' : manifests'[n] \in ManifestType /\ manifests'[n].synced <= Len(manifests'[n].recs)
    BY <1>0, <2>2 DEF IInv, TypeOK
  <2>4. QED
    BY <2>3 DEF IInv, TypeOK, VersionType, OpeningType
<1>2. DiskInv'
  BY DEF IInv, DiskInv
<1>3. AsleepInv'
  BY DEF IInv, AsleepInv, Quiet
<1>4. CreatingInv'
  BY <1>0 DEF CreatingInv, IInv
<1>5. WholeInv'
  <2>1. NewManifest(<<NewDBEdit>>).end = "whole"
    BY DEF NewManifest
  <2>2. QED
    BY <1>0, <2>1 DEF WholeInv, IInv
<1>6. QED
  BY <1>1, <1>2, <1>3, <1>4, <1>5, WhenAsleep DEF IInv, RefusedInv

LEMMA NewDBNamedIInv == ASSUME IInv, NewDBNamed PROVE IInv'
<1>. USE DEF NewDBNamed, process, history, jobs
<1>1. TypeOK'
  BY DEF IInv, TypeOK, VersionType, OpeningType
<1>2. /\ current = 0 /\ 1 \in DOMAIN manifests /\ manifests[1] = NewManifest(<<NewDBEdit>>)
      /\ acked = {} /\ durable = {} /\ ~created
  BY DEF IInv, CreatingInv, DiskInv, TypeOK
<1>3. DiskInv'
  <2>1. manifests'[current'].recs = <<NewDBEdit>> /\ manifests'[current'].synced = 0
    BY <1>2 DEF NewManifest
  <2>2. FilesAfter(<<NewDBEdit>>, 1) = {}
    BY FilesAfterStep, FilesAfterNone DEF NewDBEdit
  <2>3. NewDBEdit \in EditType
    BY DEF NewDBEdit, EditType
  <2>4. Good(NewDBEdit, {}, tables', logs', 1, issued', {}, {})
    BY <2>3 DEF Good, NewDBEdit, IInv, TypeOK
  <2>5. EndsAreGood'
    <3>1. Len(<<NewDBEdit>>) = 1 /\ <<NewDBEdit>>[1] = NewDBEdit /\ NewDBEdit.next <= NewDBEdit.next
      BY DEF NewDBEdit
    <3>2. current' = 1 /\ acked' = {} /\ Promised' = {} /\ Len(manifests'[current'].recs) = 1
      BY <1>2, <2>1, <3>1 DEF Promised
    <3>3. \A n \in Ends(manifests[current])' : n = 1
      BY <3>2 DEF Ends
    <3>4. QED
      BY <2>1, <2>2, <2>4, <3>1, <3>2, <3>3 DEF EndsAreGood, Final
  <2>6. QED
    BY <1>2, <2>5 DEF DiskInv
<1>4. AsleepInv'
  BY DEF IInv, AsleepInv, Quiet
<1>5. CreatingInv' /\ RefusedInv'
  BY DEF CreatingInv, RefusedInv
<1>6. WholeInv'
  BY WholeStays DEF IInv
<1>7. QED
  BY <1>1, <1>3, <1>4, <1>5, <1>6, WhenAsleep DEF IInv

(* The last edit of the manifest that CURRENT names.                        *)
LEMMA LastIsGood ==
  ASSUME TypeOK, DiskInv, current # 0, NEW edits, edits = manifests[current].recs
  PROVE  /\ current \in DOMAIN manifests /\ edits \in Seq(EditType) /\ Len(edits) \in Nat
         /\ Len(edits) > 0 =>
              /\ Len(edits) \in Ends(manifests[current]) /\ Len(edits) \in 1..Len(edits)
              /\ LastEdit(edits) = edits[Len(edits)] /\ edits[Len(edits)] \in EditType
              /\ Good(edits[Len(edits)], FilesAfter(edits, Len(edits)), tables, logs, current, issued,
                      acked, Promised)
<1>1. current \in DOMAIN manifests /\ EndsAreGood
  BY DEF DiskInv
<1>2. edits \in Seq(EditType) /\ Len(edits) \in Nat
  BY <1>1 DEF TypeOK, ManifestType
<1>4. ASSUME Len(edits) > 0
      PROVE  /\ Len(edits) \in Ends(manifests[current]) /\ Len(edits) \in 1..Len(edits)
             /\ LastEdit(edits) = edits[Len(edits)] /\ edits[Len(edits)] \in EditType
             /\ Good(edits[Len(edits)], FilesAfter(edits, Len(edits)), tables, logs, current, issued,
                     acked, Promised)
  <2>1. Len(edits) \in Ends(manifests[current]) /\ Len(edits) \in 1..Len(edits)
    BY <1>2, <1>4 DEF Ends
  <2>2. Good(edits[Len(edits)], FilesAfter(edits, Len(edits)), tables, logs, current, issued, acked, Promised)
    BY <1>1, <2>1 DEF EndsAreGood
  <2>3. edits[Len(edits)].next # None /\ edits[Len(edits)] \in EditType
    BY <2>2, NoneAssumption DEF Good
  <2>4. QED
    BY <1>2, <1>4, <2>1, <2>2, <2>3, LastEditIs
<1>5. QED
  BY <1>1, <1>2, <1>4

LEMMA RecoverIInv == ASSUME IInv, Recover PROVE IInv'
<1>. DEFINE edits == manifests[current].recs
            e == edits[Len(edits)]
<1>. USE DEF disk, jobs, history
<1>1. /\ pc = "down" /\ current # 0 /\ CanBeRead /\ pc' = "recovering"
      /\ UNCHANGED <<disk, mem, imm, logFile, jobs, bgError, reuse, history>>
  BY DEF Recover
<1>2. /\ TypeOK /\ DiskInv /\ Quiet /\ mem = {} /\ imm = {} /\ logFile = 0 /\ opening = NotOpening
      /\ applying = None /\ ~bgError
  BY <1>1 DEF IInv, AsleepInv
<1>3. /\ current \in DOMAIN manifests /\ edits \in Seq(EditType) /\ Len(edits) \in Nat
      /\ Len(edits) > 0 =>
           /\ Len(edits) \in Ends(manifests[current]) /\ Len(edits) \in 1..Len(edits)
           /\ LastEdit(edits) = e /\ e \in EditType
           /\ Good(e, FilesAfter(edits, Len(edits)), tables, logs, current, issued, acked, Promised)
  BY <1>1, <1>2, LastIsGood
<1>4. DiskInv'
  BY <1>1, <1>2 DEF DiskInv, EndsAreGood, Ends, Promised
<1>5a. PICK kept \in BOOLEAN : ReadsVersion(kept)
  BY DEF Recover
<1>5. /\ kept => reuse
      /\ vs' = VersionOf(edits, kept)
      /\ opening' = [NotOpening EXCEPT !.todo = {n \in DOMAIN logs : n >= vs'.log}, !.save = ~kept]
  BY <1>5a DEF ReadsVersion
<1>6. Len(edits) > 0
  <2>1. \E i \in DOMAIN edits : edits[i].next # None
    BY <1>1 DEF CanBeRead
  <2>2. DOMAIN edits = 1..Len(edits)
    BY <1>3
  <2>3. QED
    BY <1>3, <2>1, <2>2
<1>7. /\ e \in EditType /\ e.next \in Nat /\ e.log \in Nat /\ e.last \in 0..issued
      /\ current < e.next /\ e.log < e.next
      /\ \A f \in FilesAfter(edits, Len(edits)) : f \in DOMAIN tables /\ tables[f].ok /\ f < e.next
      /\ \A id \in acked : InTables(tables, FilesAfter(edits, Len(edits)), id) \/ InLogs(logs, e.log, id)
  BY <1>3, <1>6 DEF Good
<1>8. vs' = [log |-> e.log, next |-> e.next + 1, last |-> e.last, files |-> FilesAfter(edits, Len(edits)),
             manifest |-> IF kept THEN current ELSE e.next, described |-> kept]
  BY <1>3, <1>5, <1>6 DEF VersionOf, FilesOf
<1>9. opening' = [todo |-> {n \in DOMAIN logs : n >= e.log}, at |-> 0, compacted |-> FALSE, added |-> {},
                  save |-> ~kept, max |-> 0]
  <2>1. vs'.log = e.log
    BY <1>8
  <2>2. {n \in DOMAIN logs : n >= vs'.log} = {n \in DOMAIN logs : n >= e.log}
    BY <2>1
  <2>. HIDE DEF e
  <2>3. QED
    BY <1>5, <2>2 DEF NotOpening
<1>10. /\ DOMAIN tables \subseteq Nat /\ DOMAIN logs \subseteq Nat /\ current \in Nat /\ reuse \in BOOLEAN
       /\ issued \in Nat /\ kept \in BOOLEAN /\ (kept => reuse)
  <2>1. /\ DOMAIN tables \subseteq Nat /\ DOMAIN logs \subseteq Nat /\ current \in Nat /\ reuse \in BOOLEAN
        /\ issued \in Nat
    BY <1>2 DEF TypeOK, IsBounded
  <2>2. QED
    BY <1>5, <2>1
<1>11. TypeOK'
  <2>1. FilesAfter(edits, Len(edits)) \in SUBSET Nat
    BY <1>7, <1>10
  <2>2. (vs \in VersionType)'
    BY <1>1, <1>7, <1>8, <1>10, <2>1 DEF VersionType
  <2>3. (opening \in OpeningType)'
    BY <1>1, <1>9, <1>10 DEF OpeningType
  <2>4. QED
    BY <1>1, <1>2, <2>2, <2>3 DEF TypeOK
<1>11a. /\ vs'.next = e.next + 1 /\ vs'.log = e.log /\ vs'.files = FilesAfter(edits, Len(edits))
        /\ vs'.described = kept /\ vs'.manifest = IF kept THEN current ELSE e.next
  BY <1>8
<1>11b. \A a, b \in Nat : a < b => a < b + 1
  OBVIOUS
<1>11c. \A a \in Nat : a < e.next => a < vs'.next
  BY <1>7, <1>11a, <1>11b
<1>12. OpeningInv'
  <2>1. \A id \in acked : InTables(tables, FilesAfter(edits, Len(edits)), id) \/ LeftInLogs(id)'
    <3>1. ASSUME NEW id, InLogs(logs, e.log, id) PROVE LeftInLogs(id)'
      BY <1>1, <1>9, <3>1 DEF InLogs, LeftInLogs
    <3>2. QED
      BY <1>7, <3>1
  <2>2. \A n \in DOMAIN logs : n \in opening'.todo \/ n < vs'.next
    <3>. HIDE DEF e
    <3>1. \A n \in DOMAIN logs : n \in Nat /\ (n \in opening'.todo \/ ~(n >= e.log))
      BY <1>9, <1>10
    <3>2. \A n \in DOMAIN logs : ~(n >= e.log) => n < e.next
      BY <1>7, <3>1
    <3>3. QED
      BY <1>11c, <3>1, <3>2
  <2>3. Quiet'
    BY <1>1, <1>2 DEF Quiet
  <2>5. vs'.files \union opening'.added = FilesAfter(edits, Len(edits))
    BY <1>8, <1>9
  <2>4. \A t \in vs'.files \union opening'.added : t \in DOMAIN tables' /\ tables'[t].ok /\ t < vs'.next
    <3>. HIDE DEF e
    <3>1. ASSUME NEW t \in FilesAfter(edits, Len(edits))
          PROVE  t \in DOMAIN tables /\ tables[t].ok /\ t < vs'.next
      BY <1>7, <1>10, <1>11c
    <3>2. QED
      BY <1>1, <2>5, <3>1
  <2>6. /\ vs'.manifest < vs'.next /\ vs'.log < vs'.next /\ (vs'.described => reuse)
        /\ vs'.described => vs'.manifest = current
        /\ ~vs'.described => vs'.manifest > current
    <3>. HIDE DEF e
    <3>1. vs'.log < vs'.next /\ current < vs'.next
      BY <1>7, <1>10, <1>11a, <1>11c
    <3>2. e.next < vs'.next
      BY <1>7, <1>11a
    <3>3. vs'.manifest < vs'.next
      BY <1>11a, <3>1, <3>2
    <3>4. ~kept => vs'.manifest > current
      BY <1>7, <1>11a
    <3>5. QED
      BY <1>10, <1>11a, <3>1, <3>3, <3>4
  <2>7. Has(tables, vs.files, logs, vs.log, acked, Promised)'
    <3>1. Has(tables, FilesAfter(edits, Len(edits)), logs, e.log, acked, Promised)
      BY <1>3, <1>6, GoodHas
    <3>2. /\ vs'.files = FilesAfter(edits, Len(edits)) /\ vs'.log = e.log /\ tables' = tables
          /\ logs' = logs /\ acked' = acked /\ Promised' = Promised
      BY <1>1, <1>8 DEF Promised
    <3>. HIDE DEF e
    <3>3. QED
      BY <3>1, <3>2
  <2>8. QED
    BY <1>1, <1>2, <1>6, <1>8, <1>9, <2>1, <2>2, <2>3, <2>4, <2>5, <2>6, <2>7 DEF OpeningInv
<1>13. ReadInv'
  <2>1. ASSUME NEW n \in Ends(manifests[current]) PROVE edits[n].next < vs'.next
    <3>1. edits[n].next <= e.next /\ edits[n].next \in Nat
      BY <1>1, <1>2 DEF DiskInv, EndsAreGood, Final, Good
    <3>2. QED
      <4>. HIDE DEF e
      <4>1. \A a, b \in Nat : a <= b => a < b + 1
        OBVIOUS
      <4>2. QED
        BY <1>7, <1>11a, <3>1, <4>1
  <2>2. Ends(manifests[current])' = Ends(manifests[current])
    BY <1>1 DEF Ends
  <2>3. QED
    BY <1>1, <1>2, <1>8, <2>1, <2>2 DEF ReadInv, Final
<1>14. LogIsOpen' /\ ApplyingInv'
  BY <1>1 DEF LogIsOpen, ApplyingInv
<1>15. WholeInv'
  BY <1>1, WholeStays DEF IInv
<1>16. QED
  BY <1>1, <1>4, <1>11, <1>12, <1>13, <1>14, <1>15, WhenOpening DEF IInv

LEMMA RecoverRefusesIInv == ASSUME IInv, RecoverRefuses PROVE IInv'
<1>. DEFINE edits == manifests[current].recs
            e == edits[Len(edits)]
<1>. USE DEF disk, jobs, history
<1>1. /\ pc = "down" /\ current # 0 /\ pc' = "refused"
      /\ ~CanBeRead \/ manifests[current].end = "broken"
      /\ UNCHANGED <<disk, vs, mem, imm, logFile, opening, jobs, bgError, reuse, history>>
  BY DEF RecoverRefuses
<1>2. /\ TypeOK /\ DiskInv /\ Quiet /\ mem = {} /\ imm = {} /\ logFile = 0 /\ opening = NotOpening
      /\ applying = None /\ ~bgError
  BY <1>1 DEF IInv, AsleepInv
<1>3. /\ current \in DOMAIN manifests /\ edits \in Seq(EditType) /\ Len(edits) \in Nat
      /\ Len(edits) > 0 =>
           /\ Len(edits) \in Ends(manifests[current]) /\ Len(edits) \in 1..Len(edits)
           /\ LastEdit(edits) = e /\ e \in EditType
           /\ Good(e, FilesAfter(edits, Len(edits)), tables, logs, current, issued, acked, Promised)
  BY <1>1, <1>2, LastIsGood
<1>4. DiskInv'
  BY <1>1, <1>2 DEF DiskInv, EndsAreGood, Ends, Promised
<1>5. ASSUME created PROVE CanBeRead
  <2>1. Len(edits) > 0
    BY <1>2, <1>5 DEF DiskInv
  <2>2. Len(edits) \in DOMAIN edits /\ e.next # None
    <3>1. DOMAIN edits = 1..Len(edits)
      BY <1>3
    <3>2. e.next \in Nat
      BY <1>3, <2>1 DEF Good
    <3>3. QED
      BY <1>3, <2>1, <3>1, <3>2, NoneAssumption
  <2>3. Missing(FilesOf(edits)) = {}
    BY <1>3, <2>1 DEF Missing, FilesOf, Good
  <2>4. QED
    BY <1>3, <2>2, <2>3 DEF CanBeRead
<1>6. TypeOK'
  BY <1>1, <1>2 DEF TypeOK, VersionType, OpeningType
<1>7. AsleepInv' /\ CreatingInv' /\ RefusedInv'
  BY <1>1, <1>2, <1>5 DEF AsleepInv, CreatingInv, RefusedInv, Quiet
<1>8. WholeInv'
  BY <1>1, WholeStays DEF IInv
<1>9. QED
  BY <1>1, <1>4, <1>6, <1>7, <1>8, WhenAsleep DEF IInv

-----------------------------------------------------------------------------
(* A new table has a number that no manifest names, and a new log one that  *)
(* no log has.                                                              *)
LEMMA NewTableKeeps ==
  ASSUME TypeOK, EndsAreGood, NEW v \in Nat, NEW x, tables' = With(tables, v, x),
         \A n \in Ends(manifests[current]) : manifests[current].recs[n].next <= v
  PROVE  \A n \in Ends(manifests[current]) :
            Keeps(tables, tables', FilesAfter(manifests[current].recs, n))
<1>1. ASSUME NEW n \in Ends(manifests[current]), NEW f \in FilesAfter(manifests[current].recs, n)
      PROVE  f \in DOMAIN tables /\ f # v
  <2>1. /\ f \in DOMAIN tables /\ f < manifests[current].recs[n].next
        /\ manifests[current].recs[n].next \in Nat
    BY DEF EndsAreGood, Good
  <2>2. f \in Nat
    BY <2>1 DEF TypeOK, IsBounded
  <2>3. QED
    BY <2>1, <2>2
<1>2. QED
  BY <1>1 DEF Keeps, With, Joined

LEMMA NewLogGrows ==
  ASSUME NEW L, NEW v, NEW x, v \notin DOMAIN L, NEW from
  PROVE  Grows(L, With(L, v, x), from)
  BY DEF Grows, Longer, With, Joined

(* What is left of a log, and the last sequence number in it.               *)
LEMMA UnreadIs ==
  ASSUME TypeOK, NEW n \in DOMAIN logs, NEW recs, recs = Unread(n)
  PROVE  /\ logs[n].recs \in Seq(Records(issued)) /\ recs \in Seq(Records(issued))
         /\ Len(recs) = IF opening.at < Len(logs[n].recs) THEN Len(logs[n].recs) - opening.at ELSE 0
         /\ \A k \in 1..Len(recs) : recs[k] = logs[n].recs[opening.at + k]
<1>1. logs[n].recs \in Seq(Records(issued)) /\ opening.at \in Nat
  BY DEF TypeOK, LogType, OpeningType
<1>. DEFINE s == logs[n].recs
            a == opening.at
<1>4. recs = SubSeq(s, a + 1, Len(s))
  BY DEF Unread
<1>. HIDE DEF s, a
<1>5. s \in Seq(Records(issued)) /\ a \in Nat
  BY <1>1 DEF s, a
<1>6. recs \in Seq(Records(issued)) /\ Len(recs) = IF a < Len(s) THEN Len(s) - a ELSE 0
  BY <1>4, <1>5
<1>7. \A k \in 1..Len(recs) : recs[k] = s[a + k]
  BY <1>4, <1>5
<1>8. QED
  BY <1>1, <1>6, <1>7 DEF s, a

LEMMA LastSeqIs ==
  ASSUME NEW w \in Nat, NEW recs \in Seq(Records(w)), NEW max \in 0..w
  PROVE  LastSeq(recs, max) \in 0..w
<1>. DEFINE S == {max} \union {r.seq : r \in ToSet(recs)}
<1>1. ASSUME NEW r \in ToSet(recs) PROVE r.seq \in 0..w
  <2>1. PICK i \in 1..Len(recs) : r = recs[i]
    BY DEF ToSet
  <2>2. recs[i] \in Records(w)
    BY <2>1
  <2>3. QED
    BY <2>1, <2>2 DEF Records
<1>2. S \in SUBSET (0..w) /\ S # {}
  BY <1>1
<1>3. Max(S) \in S
  BY <1>2, GreatestNumber
<1>4. QED
  BY <1>2, <1>3 DEF LastSeq

LEMMA RecoverTableIInv == ASSUME IInv, RecoverTable PROVE IInv'
<1>. USE DEF history, jobs
<1>. DEFINE n == Min(opening.todo)
            recs == Unread(n)
            table == [recs |-> ToSet(SubSeq(recs, 1, MaxMem)), ok |-> TRUE]
<1>1. /\ pc = "recovering" /\ opening.todo # {} /\ vs.next < MaxFiles /\ Len(recs) >= MaxMem
      /\ tables' = With(tables, vs.next, table)
      /\ opening' = [opening EXCEPT !.at = @ + MaxMem, !.compacted = TRUE, !.save = TRUE,
                                    !.added = @ \union {vs.next},
                                    !.max = LastSeq(SubSeq(recs, 1, MaxMem), @)]
      /\ vs' = [vs EXCEPT !.next = @ + 1]
      /\ UNCHANGED <<logs, manifests, current, pc, mem, imm, logFile, jobs, bgError, reuse, history>>
  BY DEF RecoverTable
<1>2. TypeOK /\ DiskInv /\ EndsAreGood /\ OpeningInv /\ ReadInv /\ current # 0
  BY <1>1 DEF IInv, OpeningInv, Opening, DiskInv
<1>3. /\ vs \in VersionType /\ opening \in OpeningType /\ issued \in Nat /\ vs.next \in Nat \ {0}
      /\ opening.at \in Nat /\ opening.todo \in SUBSET Nat
  <2>1. vs \in VersionType /\ opening \in OpeningType /\ issued \in Nat
    BY <1>2 DEF TypeOK
  <2>2. vs.next \in Nat \ {0}
    BY <1>1, <1>2, <2>1 DEF OpeningInv, Opening, VersionType
  <2>3. QED
    BY <2>1, <2>2 DEF OpeningType
<1>4. n \in opening.todo /\ n \in DOMAIN logs /\ \A m \in opening.todo : n <= m
  BY <1>1, <1>2, <1>3, LeastNumber DEF OpeningInv, Opening
<1>5. /\ logs[n].recs \in Seq(Records(issued)) /\ recs \in Seq(Records(issued))
      /\ Len(recs) = Len(logs[n].recs) - opening.at
      /\ \A k \in 1..Len(recs) : recs[k] = logs[n].recs[opening.at + k]
  BY <1>1, <1>2, <1>3, <1>4, UnreadIs, MemAssumption
<1>6. /\ SubSeq(recs, 1, MaxMem) \in Seq(Records(issued)) /\ Len(SubSeq(recs, 1, MaxMem)) = MaxMem
      /\ \A k \in 1..MaxMem : SubSeq(recs, 1, MaxMem)[k] = recs[k]
  BY <1>1, <1>5, MemAssumption
<1>. HIDE DEF n, recs
<1>7. table \in TableType(issued) /\ \A k \in 1..MaxMem : recs[k] \in table.recs
  BY <1>6, MemAssumption DEF TableType, ToSet
<1>8. /\ DOMAIN tables' = DOMAIN tables \union {vs.next} /\ tables'[vs.next] = table
      /\ \A t \in DOMAIN tables : t # vs.next => tables'[t] = tables[t]
  BY <1>1 DEF With, Joined
<1>. HIDE DEF table
<1>9. /\ vs'.next = vs.next + 1 /\ vs'.log = vs.log /\ vs'.last = vs.last /\ vs'.files = vs.files
      /\ vs'.manifest = vs.manifest /\ vs'.described = vs.described /\ vs' \in VersionType
      /\ opening'.todo = opening.todo /\ opening'.at = opening.at + MaxMem /\ opening'.compacted /\ opening'.save
      /\ opening'.added = opening.added \union {vs.next} /\ opening' \in OpeningType
  <2>1. LastSeq(SubSeq(recs, 1, MaxMem), opening.max) \in 0..issued
    BY <1>3, <1>6, LastSeqIs DEF OpeningType
  <2>2. /\ vs'.next = vs.next + 1 /\ vs'.log = vs.log /\ vs'.last = vs.last /\ vs'.files = vs.files
        /\ vs'.manifest = vs.manifest /\ vs'.described = vs.described /\ vs' \in VersionType
    BY <1>1, <1>3 DEF VersionType
  <2>3. /\ opening'.todo = opening.todo /\ opening'.at = opening.at + MaxMem /\ opening'.compacted /\ opening'.save
        /\ opening'.added = opening.added \union {vs.next}
    BY <1>1, <1>3 DEF OpeningType
  <2>4. opening.at + MaxMem \in Nat /\ opening.added \union {vs.next} \in SUBSET Nat
    BY <1>3, MemAssumption DEF OpeningType
  <2>5. opening' \in OpeningType
    BY <1>1, <1>3, <2>1, <2>4 DEF OpeningType
  <2>6. QED
    BY <2>2, <2>3, <2>5
<1>10. TypeOK'
  <2>1. IsBounded(DOMAIN tables')
    BY <1>2, <1>3, <1>8, BoundedGrows DEF TypeOK
  <2>2. \A t \in DOMAIN tables' : tables'[t] \in TableType(issued)
    BY <1>2, <1>7, <1>8 DEF TypeOK
  <2>3. (vs \in VersionType)' /\ (opening \in OpeningType)'
    BY <1>1, <1>9 DEF VersionType, OpeningType
  <2>4. QED
    BY <1>1, <1>2, <2>1, <2>2, <2>3 DEF TypeOK
<1>11. DiskInv'
  <2>1. \A m \in Ends(manifests[current]) : manifests[current].recs[m].next <= vs.next
    <3>1. ASSUME NEW m \in Ends(manifests[current]) PROVE manifests[current].recs[m].next <= vs.next
      <4>1. manifests[current].recs[m].next \in Nat
        BY <1>2 DEF EndsAreGood, Good
      <4>2. QED
        BY <1>1, <1>2, <1>3, <4>1 DEF ReadInv
    <3>2. QED
      BY <3>1
  <2>2. EndsAreGood'
    BY <1>1, <1>2, <1>3, <2>1, NewTableKeeps, LogsStay, EndsStay
  <2>3. QED
    BY <1>1, <1>2, <2>2 DEF DiskInv
<1>12. OpeningInv'
  <2>1. \A t \in vs.files \union opening.added : t \in DOMAIN tables /\ tables[t].ok /\ t < vs.next /\ t \in Nat
    BY <1>1, <1>2, <1>3 DEF OpeningInv, Opening, VersionType, OpeningType
  <2>2. \A t \in vs'.files \union opening'.added : t \in DOMAIN tables' /\ tables'[t].ok /\ t < vs'.next
    BY <1>3, <1>8, <1>9, <2>1 DEF table
  <2>3. ASSUME NEW id, InTables(tables, vs.files \union opening.added, id)
        PROVE  InTables(tables, vs.files \union opening.added, id)'
    BY <1>3, <1>8, <1>9, <2>1, <2>3 DEF InTables
  <2>4. ASSUME NEW id, LeftInLogs(id)
        PROVE  InTables(tables, vs.files \union opening.added, id)' \/ LeftInLogs(id)'
    <3>1. PICK m \in opening.todo : \E k \in 1..Len(logs[m].recs) :
            logs[m].recs[k].id = id /\ ((\A l \in opening.todo : m <= l) => k > opening.at)
      BY <2>4 DEF LeftInLogs
    <3>2. PICK k \in 1..Len(logs[m].recs) :
            logs[m].recs[k].id = id /\ ((\A l \in opening.todo : m <= l) => k > opening.at)
      BY <3>1
    <3>3. CASE m # n
      <4>1. ~\A l \in opening.todo : m <= l
        BY <1>3, <1>4, <3>3
      <4>2. QED
        BY <1>1, <1>9, <3>2, <4>1 DEF LeftInLogs
    <3>4. CASE m = n /\ k > opening.at + MaxMem
      BY <1>1, <1>9, <3>2, <3>4 DEF LeftInLogs
    <3>5. CASE m = n /\ k <= opening.at + MaxMem
      <4>1. k > opening.at
        BY <1>4, <3>2, <3>5
      <4>2. k - opening.at \in 1..MaxMem /\ k - opening.at \in 1..Len(recs)
        <5>1. Len(logs[n].recs) \in Nat /\ k \in 1..Len(logs[n].recs)
          BY <1>5, <3>2, <3>5
        <5>2. QED
          BY <1>3, <1>5, <3>5, <4>1, <5>1, MemAssumption
      <4>3. recs[k - opening.at] = logs[n].recs[opening.at + (k - opening.at)]
        BY <1>5, <4>2
      <4>4. recs[k - opening.at] = logs[n].recs[k]
        BY <1>3, <3>2, <4>3
      <4>5. logs[n].recs[k] \in table.recs
        BY <1>7, <4>2, <4>4
      <4>6. QED
        BY <1>8, <1>9, <3>2, <3>5, <4>5 DEF InTables
    <3>6. QED
      BY <1>3, <3>2, <3>3, <3>4, <3>5, MemAssumption
  <2>5. \A id \in acked : InTables(tables, vs.files \union opening.added, id) \/ InSet(mem, id) \/ LeftInLogs(id)
    BY <1>1, <1>2 DEF OpeningInv, Opening
  <2>6. \A id \in acked' :
          InTables(tables, vs.files \union opening.added, id)' \/ InSet(mem, id)' \/ LeftInLogs(id)'
    BY <1>1, <2>3, <2>4, <2>5 DEF InSet
  <2>7. \A m \in DOMAIN logs : m \in opening.todo \/ m < vs'.next
    <3>1. DOMAIN logs \subseteq Nat
      BY <1>2 DEF TypeOK, IsBounded
    <3>2. QED
      BY <1>1, <1>2, <1>3, <1>9, <3>1 DEF OpeningInv, Opening
  <2>8. vs.manifest < vs'.next /\ vs.log < vs'.next
    BY <1>1, <1>2, <1>3, <1>9 DEF OpeningInv, Opening, VersionType
  <2>9. Has(tables, vs.files, logs, vs.log, acked, Promised)'
    <3>1. Keeps(tables, tables', vs.files) /\ vs.files \subseteq DOMAIN tables
      BY <1>3, <1>8, <2>1 DEF Keeps
    <3>2. Has(tables, vs.files, logs, vs.log, acked, Promised)
      BY <1>1, <1>2 DEF OpeningInv, Opening
    <3>3. Has(tables', vs.files, logs, vs.log, acked, Promised)
      BY <3>1, <3>2, LogsStay, HasStays
    <3>4. QED
      BY <1>1, <1>9, <3>3 DEF Promised
  <2>10. QED
    BY <1>1, <1>2, <1>9, <2>2, <2>6, <2>7, <2>8, <2>9 DEF OpeningInv, Opening, Quiet
<1>13. ReadInv' /\ LogIsOpen' /\ ApplyingInv'
  <2>1. \A m \in Ends(manifests[current]) : manifests[current].recs[m].next < vs'.next
    <3>1. ASSUME NEW m \in Ends(manifests[current]) PROVE manifests[current].recs[m].next < vs'.next
      <4>1. manifests[current].recs[m].next \in Nat /\ manifests[current].recs[m].next < vs.next
        BY <1>1, <1>2 DEF EndsAreGood, Good, ReadInv
      <4>2. QED
        BY <1>3, <1>9, <4>1
    <3>2. QED
      BY <3>1
  <2>2. Ends(manifests[current])' = Ends(manifests[current])
    BY <1>1 DEF Ends
  <2>3. QED
    BY <1>1, <1>2, <1>9, <2>1, <2>2 DEF ReadInv, Final, LogIsOpen, ApplyingInv
<1>14. WholeInv'
  BY <1>1, WholeStays DEF IInv
<1>15. QED
  BY <1>1, <1>10, <1>11, <1>12, <1>13, <1>14, WhenOpening DEF IInv

LEMMA RecoverLogFileIInv == ASSUME IInv, RecoverLogFile PROVE IInv'
<1>. USE DEF history, jobs
<1>1. /\ pc = "recovering" /\ opening.todo # {}
      /\ UNCHANGED <<logs, manifests, current, pc, imm, jobs, bgError, reuse, history>>
  BY DEF RecoverLogFile
<1>2. TypeOK /\ DiskInv /\ EndsAreGood /\ OpeningInv /\ ReadInv /\ current # 0
  BY <1>1 DEF IInv, OpeningInv, Opening, DiskInv
<1>3. /\ vs \in VersionType /\ opening \in OpeningType /\ issued \in Nat /\ vs.next \in Nat \ {0}
      /\ opening.at \in Nat /\ opening.todo \in SUBSET Nat /\ opening.max \in 0..issued
      /\ DOMAIN logs \subseteq Nat \ {0}
  <2>1. vs \in VersionType /\ opening \in OpeningType /\ issued \in Nat
    BY <1>2 DEF TypeOK
  <2>2. vs.next \in Nat \ {0}
    BY <1>1, <1>2, <2>1 DEF OpeningInv, Opening, VersionType
  <2>3. DOMAIN logs \subseteq Nat \ {0}
    BY <1>2 DEF TypeOK, IsBounded
  <2>4. QED
    BY <2>1, <2>2, <2>3 DEF OpeningType
<1>. DEFINE GoesOn(n, recs) ==
              /\ reuse /\ opening.todo = {n} /\ ~opening.compacted
              /\ mem' = ToSet(recs) /\ logFile' = n
              /\ opening' = LogRead(n, recs)
              /\ vs' = [vs EXCEPT !.next = MarkFileNumberUsed(@, n)]
              /\ UNCHANGED tables
            Skips(n, recs) ==
              /\ opening' = LogRead(n, recs)
              /\ vs' = [vs EXCEPT !.next = MarkFileNumberUsed(@, n)]
              /\ UNCHANGED tables
            Builds(n, recs) ==
              /\ tables' = With(tables, vs.next, [recs |-> ToSet(recs), ok |-> TRUE])
              /\ opening' = [LogRead(n, recs) EXCEPT !.added = @ \union {vs.next}, !.save = TRUE]
              /\ vs' = [vs EXCEPT !.next = MarkFileNumberUsed(@ + 1, n)]
<1>4a. PICK n \in {Min(opening.todo)} : \E recs \in {Unread(n)} :
         /\ Len(recs) < MaxMem
         /\ \/ GoesOn(n, recs)
            \/ /\ IF recs = << >> THEN Skips(n, recs) ELSE Builds(n, recs)
               /\ UNCHANGED <<mem, logFile>>
  BY DEF RecoverLogFile
<1>4b. PICK recs \in {Unread(n)} :
         /\ Len(recs) < MaxMem
         /\ \/ GoesOn(n, recs)
            \/ /\ IF recs = << >> THEN Skips(n, recs) ELSE Builds(n, recs)
               /\ UNCHANGED <<mem, logFile>>
  BY <1>4a
<1>4.   /\ n = Min(opening.todo) /\ recs = Unread(n) /\ Len(recs) < MaxMem
        /\ \/ /\ reuse /\ opening.todo = {n} /\ ~opening.compacted
              /\ mem' = ToSet(recs) /\ logFile' = n
              /\ opening' = LogRead(n, recs)
              /\ vs' = [vs EXCEPT !.next = MarkFileNumberUsed(@, n)]
              /\ UNCHANGED tables
           \/ /\ recs = << >>
              /\ opening' = LogRead(n, recs)
              /\ vs' = [vs EXCEPT !.next = MarkFileNumberUsed(@, n)]
              /\ UNCHANGED <<tables, mem, logFile>>
           \/ /\ tables' = With(tables, vs.next, [recs |-> ToSet(recs), ok |-> TRUE])
              /\ opening' = [LogRead(n, recs) EXCEPT !.added = @ \union {vs.next}, !.save = TRUE]
              /\ vs' = [vs EXCEPT !.next = MarkFileNumberUsed(@ + 1, n)]
              /\ UNCHANGED <<mem, logFile>>
  BY <1>4a, <1>4b
<1>5. n \in opening.todo /\ n \in DOMAIN logs /\ n \in Nat \ {0} /\ \A m \in opening.todo : n <= m
  BY <1>1, <1>2, <1>3, <1>4, LeastNumber DEF OpeningInv, Opening
<1>6. /\ logs[n].recs \in Seq(Records(issued)) /\ recs \in Seq(Records(issued))
      /\ Len(recs) = IF opening.at < Len(logs[n].recs) THEN Len(logs[n].recs) - opening.at ELSE 0
      /\ \A k \in 1..Len(recs) : recs[k] = logs[n].recs[opening.at + k]
  BY <1>2, <1>4, <1>5, UnreadIs
<1>7. LogRead(n, recs) \in OpeningType /\ LogRead(n, recs).todo = opening.todo \ {n} /\ LogRead(n, recs).at = 0
      /\ ~LogRead(n, recs).compacted /\ LogRead(n, recs).added = opening.added /\ LogRead(n, recs).save = opening.save
  <2>1. LastSeq(recs, opening.max) \in 0..issued
    BY <1>3, <1>6, LastSeqIs
  <2>2. QED
    BY <1>3, <2>1 DEF LogRead, MaxOfLog, OpeningType
<1>8. /\ MarkFileNumberUsed(vs.next, n) \in Nat /\ MarkFileNumberUsed(vs.next, n) >= vs.next
      /\ MarkFileNumberUsed(vs.next, n) > n
      /\ MarkFileNumberUsed(vs.next + 1, n) \in Nat /\ MarkFileNumberUsed(vs.next + 1, n) > vs.next
      /\ MarkFileNumberUsed(vs.next + 1, n) > n
  BY <1>3, <1>5, MaxOfTwo DEF MarkFileNumberUsed
<1>9. ToSet(recs) \in SUBSET Records(issued) /\ \A k \in 1..Len(recs) : recs[k] \in ToSet(recs)
  BY <1>6 DEF ToSet
<1>10. \A r \in ToSet(recs) : \E k \in 1..Len(logs[n].recs) : logs[n].recs[k] = r
  <2>1. ASSUME NEW i \in 1..Len(recs) PROVE opening.at + i \in 1..Len(logs[n].recs)
    <3>1. Len(logs[n].recs) \in Nat
      BY <1>6
    <3>2. QED
      BY <1>3, <1>6, <3>1
  <2>2. QED
    BY <1>6, <2>1 DEF ToSet
<1>. DEFINE table == [recs |-> ToSet(recs), ok |-> TRUE]
            Read(fresh) ==
              /\ vs'.next \in Nat /\ vs'.next >= vs.next /\ vs'.next > n /\ \A t \in fresh : t < vs'.next
              /\ opening'.added = opening.added \union fresh /\ (fresh = {} => opening'.save = opening.save)
              /\ (fresh # {} => opening'.save)
              /\ DOMAIN tables' = DOMAIN tables \union fresh
              /\ \A t \in fresh : t = vs.next /\ tables'[t] = table
              /\ \A t \in DOMAIN tables \ fresh : tables'[t] = tables[t]
              /\ \/ /\ reuse /\ opening.todo = {n} /\ opening.at = 0 /\ fresh = {}
                    /\ mem' = ToSet(recs) /\ logFile' = n
                 \/ (fresh # {} \/ recs = << >>) /\ UNCHANGED <<mem, logFile>>
<1>11. /\ vs'.log = vs.log /\ vs'.last = vs.last /\ vs'.files = vs.files
       /\ vs'.manifest = vs.manifest /\ vs'.described = vs.described /\ vs' \in VersionType
  <2>1. vs' = [vs EXCEPT !.next = MarkFileNumberUsed(@, n)] \/ vs' = [vs EXCEPT !.next = MarkFileNumberUsed(@ + 1, n)]
    BY <1>4
  <2>2. CASE vs' = [vs EXCEPT !.next = MarkFileNumberUsed(@, n)]
    BY <1>3, <1>8, <2>2 DEF VersionType
  <2>3. CASE vs' = [vs EXCEPT !.next = MarkFileNumberUsed(@ + 1, n)]
    BY <1>3, <1>8, <2>3 DEF VersionType
  <2>4. QED
    BY <2>1, <2>2, <2>3
<1>12. /\ opening' \in OpeningType /\ opening'.todo = opening.todo \ {n} /\ opening'.at = 0
       /\ ~opening'.compacted
  <2>1. opening' = LogRead(n, recs) \/ opening' = [LogRead(n, recs) EXCEPT !.added = @ \union {vs.next}, !.save = TRUE]
    BY <1>4
  <2>2. CASE opening' = LogRead(n, recs)
    BY <1>7, <2>2
  <2>3. CASE opening' = [LogRead(n, recs) EXCEPT !.added = @ \union {vs.next}, !.save = TRUE]
    BY <1>3, <1>7, <2>3 DEF OpeningType
  <2>4. QED
    BY <2>1, <2>2, <2>3
<1>13. PICK fresh \in {{}, {vs.next}} : Read(fresh)
  <2>1. CASE /\ reuse /\ opening.todo = {n} /\ ~opening.compacted
             /\ mem' = ToSet(recs) /\ logFile' = n
             /\ opening' = LogRead(n, recs)
             /\ vs' = [vs EXCEPT !.next = MarkFileNumberUsed(@, n)]
             /\ UNCHANGED tables
    <3>1. opening.at = 0
      BY <1>1, <1>2, <2>1 DEF OpeningInv, Opening
    <3>2. vs'.next = MarkFileNumberUsed(vs.next, n)
      BY <1>3, <2>1 DEF VersionType
    <3>3. Read({})
      BY <1>7, <1>8, <2>1, <3>1, <3>2
    <3>4. QED
      BY <3>3
  <2>2. CASE /\ recs = << >>
             /\ opening' = LogRead(n, recs)
             /\ vs' = [vs EXCEPT !.next = MarkFileNumberUsed(@, n)]
             /\ UNCHANGED <<tables, mem, logFile>>
    <3>1. vs'.next = MarkFileNumberUsed(vs.next, n)
      BY <1>3, <2>2 DEF VersionType
    <3>2. Read({})
      BY <1>7, <1>8, <2>2, <3>1
    <3>3. QED
      BY <3>2
  <2>3. CASE /\ tables' = With(tables, vs.next, [recs |-> ToSet(recs), ok |-> TRUE])
             /\ opening' = [LogRead(n, recs) EXCEPT !.added = @ \union {vs.next}, !.save = TRUE]
             /\ vs' = [vs EXCEPT !.next = MarkFileNumberUsed(@ + 1, n)]
             /\ UNCHANGED <<mem, logFile>>
    <3>1. vs'.next = MarkFileNumberUsed(vs.next + 1, n)
      BY <1>3, <2>3 DEF VersionType
    <3>2. opening'.added = opening.added \union {vs.next} /\ opening'.save
      BY <1>7, <2>3 DEF OpeningType
    <3>3. /\ DOMAIN tables' = DOMAIN tables \union {vs.next} /\ tables'[vs.next] = table
          /\ \A t \in DOMAIN tables \ {vs.next} : tables'[t] = tables[t]
      BY <2>3 DEF With, Joined
    <3>4. vs'.next \in Nat /\ vs'.next >= vs.next /\ vs'.next > n /\ vs.next < vs'.next
      BY <1>3, <1>8, <3>1
    <3>5. \A t \in {vs.next} : t = vs.next /\ tables'[t] = table /\ t < vs'.next
      BY <3>3, <3>4
    <3>6. {vs.next} # {} /\ UNCHANGED <<mem, logFile>>
      BY <2>3
    <3>. HIDE DEF table
    <3>7. Read({vs.next})
      BY <3>2, <3>3, <3>4, <3>5, <3>6
    <3>8. QED
      BY <3>7
  <2>4. QED
    BY <1>4, <2>1, <2>2, <2>3
<1>14. table \in TableType(issued)
  BY <1>9 DEF TableType
<1>. HIDE DEF table
<1>15. TypeOK'
  <2>1. IsBounded(DOMAIN tables')
    <3>1. IsBounded(DOMAIN tables) /\ IsBounded(DOMAIN tables \union {vs.next})
      BY <1>2, <1>3, BoundedGrows DEF TypeOK
    <3>2. DOMAIN tables' = DOMAIN tables \union fresh
      BY <1>13
    <3>3. CASE fresh = {}
      BY <3>1, <3>2, <3>3
    <3>4. CASE fresh = {vs.next}
      BY <3>1, <3>2, <3>4
    <3>5. QED
      BY <3>3, <3>4
  <2>2. \A t \in DOMAIN tables' : tables'[t] \in TableType(issued)
    BY <1>2, <1>13, <1>14 DEF TypeOK
  <2>3. (vs \in VersionType)' /\ (opening \in OpeningType)'
    BY <1>1, <1>11, <1>12 DEF VersionType, OpeningType
  <2>4. mem' \in SUBSET Records(issued) /\ logFile' \in Nat
    BY <1>2, <1>5, <1>9, <1>13 DEF TypeOK
  <2>5. QED
    BY <1>1, <1>2, <2>1, <2>2, <2>3, <2>4 DEF TypeOK
<1>16. \A m \in Ends(manifests[current]) :
         /\ manifests[current].recs[m].next \in Nat /\ manifests[current].recs[m].next < vs.next
         /\ Keeps(tables, tables', FilesAfter(manifests[current].recs, m))
  <2>1. ASSUME NEW m \in Ends(manifests[current])
        PROVE  /\ manifests[current].recs[m].next \in Nat /\ manifests[current].recs[m].next < vs.next
               /\ Keeps(tables, tables', FilesAfter(manifests[current].recs, m))
    <3>1. /\ manifests[current].recs[m].next \in Nat /\ manifests[current].recs[m].next < vs.next
          /\ \A f \in FilesAfter(manifests[current].recs, m) : f < manifests[current].recs[m].next /\ f \in DOMAIN tables
      BY <1>1, <1>2 DEF EndsAreGood, Good, ReadInv
    <3>2. DOMAIN tables \subseteq Nat
      BY <1>2 DEF TypeOK, IsBounded
    <3>3. \A f \in FilesAfter(manifests[current].recs, m) : f # vs.next
      BY <1>3, <3>1, <3>2
    <3>4. QED
      BY <1>13, <3>1, <3>3 DEF Keeps
  <2>2. QED
    BY <2>1
<1>17. DiskInv'
  <2>1. EndsAreGood'
    BY <1>1, <1>2, <1>3, <1>16, LogsStay, EndsStay
  <2>2. QED
    BY <1>1, <1>2, <2>1 DEF DiskInv
<1>18. OpeningInv'
  <2>1. \A t \in vs.files \union opening.added : t \in DOMAIN tables /\ tables[t].ok /\ t < vs.next /\ t \in Nat
    BY <1>1, <1>2, <1>3 DEF OpeningInv, Opening, VersionType, OpeningType
  <2>2. \A t \in vs.files \union opening.added : t \in DOMAIN tables' /\ tables'[t] = tables[t] /\ t < vs'.next
    BY <1>3, <1>13, <2>1
  <2>3. \A t \in vs'.files \union opening'.added : t \in DOMAIN tables' /\ tables'[t].ok /\ t < vs'.next
    BY <1>11, <1>13, <2>1, <2>2 DEF table
  <2>4. ASSUME NEW id, InTables(tables, vs.files \union opening.added, id)
        PROVE  InTables(tables, vs.files \union opening.added, id)'
    BY <1>11, <1>13, <2>2, <2>4 DEF InTables
  <2>5. logFile = 0 /\ mem = {} /\ n >= vs.log
    BY <1>1, <1>2, <1>5 DEF OpeningInv, Opening
  <2>6. ASSUME NEW id, LeftInLogs(id)
        PROVE  InTables(tables, vs.files \union opening.added, id)' \/ InSet(mem, id)' \/ LeftInLogs(id)'
    <3>1. PICK m \in opening.todo : \E k \in 1..Len(logs[m].recs) :
            logs[m].recs[k].id = id /\ ((\A l \in opening.todo : m <= l) => k > opening.at)
      BY <2>6 DEF LeftInLogs
    <3>2. PICK k \in 1..Len(logs[m].recs) :
            logs[m].recs[k].id = id /\ ((\A l \in opening.todo : m <= l) => k > opening.at)
      BY <3>1
    <3>3. CASE m # n
      BY <1>1, <1>12, <3>2, <3>3 DEF LeftInLogs
    <3>4. CASE m = n
      <4>1. k > opening.at
        BY <1>5, <3>2, <3>4
      <4>2. k - opening.at \in 1..Len(recs)
        <5>1. Len(logs[n].recs) \in Nat /\ k \in 1..Len(logs[n].recs)
          BY <1>6, <3>2, <3>4
        <5>2. QED
          BY <1>3, <1>6, <4>1, <5>1
      <4>3. recs[k - opening.at] = logs[n].recs[opening.at + (k - opening.at)]
        BY <1>6, <4>2
      <4>4. recs[k - opening.at] = logs[n].recs[k]
        BY <1>3, <3>2, <4>3
      <4>5. logs[n].recs[k] \in ToSet(recs) /\ logs[n].recs[k].id = id
        BY <1>9, <3>2, <3>4, <4>2, <4>4
      <4>6. recs # << >>
        BY <4>2
      <4>7. CASE mem' = ToSet(recs)
        BY <4>5, <4>7 DEF InSet
      <4>8. CASE fresh # {}
        <5>1. PICK t \in fresh : TRUE
          BY <4>8
        <5>2. t \in opening'.added /\ tables'[t].recs = ToSet(recs)
          BY <1>13, <5>1 DEF table
        <5>3. QED
          BY <4>5, <5>2 DEF InTables
      <4>9. QED
        BY <1>13, <4>6, <4>7, <4>8
    <3>5. QED
      BY <3>3, <3>4
  <2>7. \A id \in acked : InTables(tables, vs.files \union opening.added, id) \/ LeftInLogs(id)
    BY <1>1, <1>2, <2>5 DEF OpeningInv, Opening, InSet
  <2>8. \A id \in acked' :
          InTables(tables, vs.files \union opening.added, id)' \/ InSet(mem, id)' \/ LeftInLogs(id)'
    BY <1>1, <2>4, <2>6, <2>7
  <2>9. \A m \in DOMAIN logs : m \in opening'.todo \/ m < vs'.next
    BY <1>1, <1>2, <1>3, <1>12, <1>13 DEF OpeningInv, Opening
  <2>10. vs.manifest < vs'.next /\ vs.log < vs'.next
    BY <1>1, <1>2, <1>3, <1>13 DEF OpeningInv, Opening, VersionType
  <2>11. /\ opening'.todo # {} => logFile' = 0
         /\ mem' # {} => reuse
         /\ logFile' = 0 => mem' = {}
         /\ logFile' # 0 => /\ logFile' \in DOMAIN logs /\ logFile' >= vs.log
                            /\ \A r \in mem' : \E k \in 1..Len(logs[logFile'].recs) : logs[logFile'].recs[k] = r
    <3>1. CASE mem' = ToSet(recs) /\ logFile' = n /\ reuse /\ opening.todo = {n}
      BY <1>5, <1>10, <1>12, <2>5, <3>1
    <3>2. CASE UNCHANGED <<mem, logFile>>
      BY <2>5, <3>2
    <3>3. QED
      BY <1>13, <3>1, <3>2
  <2>12. ~opening'.save => vs.described /\ opening'.added = {}
    BY <1>1, <1>2, <1>13 DEF OpeningInv, Opening
  <2>13. \A m \in opening'.todo : m \in DOMAIN logs /\ m >= vs.log
    BY <1>1, <1>2, <1>12 DEF OpeningInv, Opening
  <2>14. Has(tables, vs.files, logs, vs.log, acked, Promised)'
    <3>1. Keeps(tables, tables', vs.files) /\ vs.files \subseteq DOMAIN tables
      BY <2>1, <2>2 DEF Keeps
    <3>2. Has(tables, vs.files, logs, vs.log, acked, Promised)
      BY <1>1, <1>2 DEF OpeningInv, Opening
    <3>3. Has(tables', vs.files, logs, vs.log, acked, Promised)
      BY <3>1, <3>2, LogsStay, HasStays
    <3>4. QED
      BY <1>1, <1>11, <3>3 DEF Promised
  <2>15. QED
    BY <1>1, <1>2, <1>11, <1>12, <2>3, <2>8, <2>9, <2>10, <2>11, <2>12, <2>13, <2>14
       DEF OpeningInv, Opening, Quiet
<1>19. ReadInv' /\ LogIsOpen' /\ ApplyingInv'
  <2>1. \A m \in Ends(manifests[current]) : manifests[current].recs[m].next < vs'.next
    BY <1>3, <1>13, <1>16
  <2>2. Ends(manifests[current])' = Ends(manifests[current])
    BY <1>1 DEF Ends
  <2>3. QED
    BY <1>1, <1>2, <1>11, <2>1, <2>2 DEF ReadInv, Final, LogIsOpen, ApplyingInv
<1>20. WholeInv'
  BY <1>1, WholeStays DEF IInv
<1>21. QED
  BY <1>1, <1>15, <1>17, <1>18, <1>19, <1>20, WhenOpening DEF IInv

LEMMA StartLogIInv == ASSUME IInv, StartLog PROVE IInv'
<1>. USE DEF history, jobs
<1>1. /\ pc = "recovering" /\ opening.todo = {} /\ pc' = "starting"
      /\ UNCHANGED <<manifests, tables, current, mem, imm, opening, jobs, bgError, reuse, history>>
  BY DEF StartLog
<1>2. TypeOK /\ DiskInv /\ EndsAreGood /\ OpeningInv /\ ReadInv /\ current # 0
  BY <1>1 DEF IInv, OpeningInv, Opening, DiskInv
<1>3. /\ vs \in VersionType /\ opening \in OpeningType /\ issued \in Nat /\ vs.next \in Nat \ {0}
      /\ vs.last \in 0..issued /\ opening.max \in 0..issued /\ DOMAIN logs \subseteq Nat \ {0}
      /\ logFile \in Nat /\ vs.log \in Nat /\ vs.manifest \in Nat
  <2>1. vs \in VersionType /\ opening \in OpeningType /\ issued \in Nat /\ logFile \in Nat
    BY <1>2 DEF TypeOK
  <2>2. vs.next \in Nat \ {0}
    BY <1>1, <1>2, <2>1 DEF OpeningInv, Opening, VersionType
  <2>3. DOMAIN logs \subseteq Nat \ {0}
    BY <1>2 DEF TypeOK, IsBounded
  <2>4. QED
    BY <2>1, <2>2, <2>3 DEF OpeningType, VersionType
<1>4. Max({vs.last, opening.max}) \in 0..issued
  BY <1>3, MaxOfTwo
<1>5. /\ logFile # 0 => /\ vs' = [vs EXCEPT !.last = Max({@, opening.max})]
                        /\ UNCHANGED <<logs, logFile>>
      /\ logFile = 0 => /\ vs' = [[vs EXCEPT !.last = Max({@, opening.max})] EXCEPT !.next = @ + 1]
                        /\ logs' = With(logs, vs.next, NewLog) /\ logFile' = vs.next
  BY <1>3 DEF StartLog, VersionType
<1>6. /\ vs' \in VersionType /\ vs'.log = vs.log /\ vs'.files = vs.files /\ vs'.manifest = vs.manifest
      /\ vs'.described = vs.described
      /\ vs'.next = IF logFile = 0 THEN vs.next + 1 ELSE vs.next
  <2>1. CASE logFile # 0
    BY <1>3, <1>4, <1>5, <2>1 DEF VersionType
  <2>2. CASE logFile = 0
    <3>. DEFINE v == [vs EXCEPT !.last = Max({@, opening.max})]
    <3>1. /\ v \in VersionType /\ v.log = vs.log /\ v.files = vs.files /\ v.manifest = vs.manifest
          /\ v.described = vs.described /\ v.next = vs.next
      BY <1>3, <1>4 DEF VersionType
    <3>2. vs' = [v EXCEPT !.next = @ + 1]
      BY <1>5, <2>2
    <3>. HIDE DEF v
    <3>3. QED
      BY <1>3, <2>2, <3>1, <3>2 DEF VersionType
  <2>3. QED
    BY <2>1, <2>2
<1>7. vs.next \notin DOMAIN logs /\ \A m \in DOMAIN logs : m < vs.next
  BY <1>1, <1>2, <1>3 DEF OpeningInv, Opening
<1>8. logFile = 0 => /\ DOMAIN logs' = DOMAIN logs \union {vs.next} /\ logs'[vs.next] = NewLog
                     /\ \A m \in DOMAIN logs : logs'[m] = logs[m]
  BY <1>5, <1>7 DEF With, Joined
<1>9. NewLog \in LogType(issued) /\ NewLog.synced = 0 /\ 0 <= Len(NewLog.recs)
  BY DEF NewLog, LogType
<1>10. TypeOK'
  <2>1. IsBounded(DOMAIN logs')
    BY <1>2, <1>3, <1>5, <1>8, BoundedGrows DEF TypeOK
  <2>2. \A n \in DOMAIN logs' : logs'[n] \in LogType(issued) /\ logs'[n].synced <= Len(logs'[n].recs)
    BY <1>2, <1>5, <1>8, <1>9 DEF TypeOK
  <2>3. (vs \in VersionType)' /\ (opening \in OpeningType)' /\ logFile' \in Nat
    BY <1>1, <1>3, <1>5, <1>6 DEF VersionType, OpeningType
  <2>4. QED
    BY <1>1, <1>2, <2>1, <2>2, <2>3 DEF TypeOK
<1>11. DiskInv'
  <2>1. ASSUME NEW from PROVE Grows(logs, logs', from)
    BY <1>5, <1>7, LogsStay, NewLogGrows
  <2>2. EndsAreGood'
    BY <1>1, <1>2, <1>3, <2>1, TablesStay, EndsStay
  <2>3. QED
    BY <1>1, <1>2, <2>2 DEF DiskInv
<1>12. OpeningInv'
  <2>1. \A t \in vs.files \union opening.added : t \in DOMAIN tables /\ tables[t].ok /\ t < vs.next /\ t \in Nat
    BY <1>1, <1>2, <1>3 DEF OpeningInv, Opening, VersionType, OpeningType
  <2>2. \A t \in vs'.files \union opening'.added : t \in DOMAIN tables' /\ tables'[t].ok /\ t < vs'.next
    BY <1>1, <1>3, <1>6, <2>1
  <2>3. \A m \in DOMAIN logs' : m < vs'.next
    BY <1>3, <1>5, <1>6, <1>7, <1>8
  <2>4. vs.manifest < vs'.next /\ vs.log < vs'.next
    BY <1>1, <1>2, <1>3, <1>6 DEF OpeningInv, Opening
  <2>5. /\ logFile' # 0 /\ logFile' \in DOMAIN logs' /\ logFile' >= vs.log
        /\ \A r \in mem : \E k \in 1..Len(logs'[logFile'].recs) : logs'[logFile'].recs[k] = r
    <3>1. CASE logFile # 0
      BY <1>1, <1>2, <1>5, <3>1 DEF OpeningInv, Opening
    <3>2. CASE logFile = 0
      BY <1>1, <1>2, <1>3, <1>5, <1>8, <3>2 DEF OpeningInv, Opening
    <3>3. QED
      BY <3>1, <3>2
  <2>6. \A id \in acked :
          InTables(tables, vs.files \union opening.added, id) \/ InSet(mem, id)
    BY <1>1, <1>2 DEF OpeningInv, Opening, LeftInLogs
  <2>7. \A id \in acked' :
          InTables(tables, vs.files \union opening.added, id)' \/ InSet(mem, id)'
    BY <1>1, <1>6, <2>6 DEF InTables, InSet
  <2>8. Has(tables, vs.files, logs, vs.log, acked, Promised)'
    <3>1. Keeps(tables, tables, vs.files) /\ vs.files \subseteq DOMAIN tables
      BY <2>1, TablesStay
    <3>2. Has(tables, vs.files, logs, vs.log, acked, Promised)
      BY <1>1, <1>2 DEF OpeningInv, Opening
    <3>3. Grows(logs, logs', vs.log)
      BY <1>5, <1>7, LogsStay, NewLogGrows
    <3>4. Has(tables, vs.files, logs', vs.log, acked, Promised)
      BY <3>1, <3>2, <3>3, HasStays
    <3>5. QED
      BY <1>1, <1>6, <3>4 DEF Promised
  <2>9. QED
    BY <1>1, <1>2, <1>6, <2>2, <2>3, <2>4, <2>5, <2>7, <2>8 DEF OpeningInv, Opening, Quiet
<1>13. ReadInv' /\ LogIsOpen' /\ ApplyingInv'
  <2>1. \A m \in Ends(manifests[current]) : manifests[current].recs[m].next < vs'.next
    <3>1. ASSUME NEW m \in Ends(manifests[current]) PROVE manifests[current].recs[m].next < vs'.next
      <4>1. manifests[current].recs[m].next \in Nat /\ manifests[current].recs[m].next < vs.next
        BY <1>1, <1>2 DEF EndsAreGood, Good, ReadInv
      <4>2. QED
        BY <1>3, <1>6, <4>1
    <3>2. QED
      BY <3>1
  <2>2. Ends(manifests[current])' = Ends(manifests[current])
    BY <1>1 DEF Ends
  <2>3. logFile' # 0
    BY <1>3, <1>5
  <2>4. QED
    BY <1>1, <1>2, <1>6, <2>1, <2>2, <2>3 DEF ReadInv, Final, LogIsOpen, ApplyingInv
<1>14. WholeInv'
  BY <1>1, WholeStays DEF IInv
<1>15. QED
  BY <1>1, <1>10, <1>11, <1>12, <1>13, <1>14, WhenOpening DEF IInv

(* What Open returns is what the manifest says.                             *)
DeletesOnly(v, inUse, described) ==
  /\ DOMAIN tables' \subseteq DOMAIN tables /\ DOMAIN logs' \subseteq DOMAIN logs
  /\ DOMAIN manifests' \subseteq DOMAIN described
  /\ \A t \in DOMAIN tables' : tables'[t] = tables[t]
  /\ \A n \in DOMAIN logs' : logs'[n] = logs[n]
  /\ \A n \in DOMAIN manifests' : manifests'[n] = described[n]
  /\ \A t \in DOMAIN tables : t \in v.files \union inUse => t \in DOMAIN tables'
  /\ \A n \in DOMAIN logs : ~(n < v.log) => n \in DOMAIN logs'
  /\ \A n \in DOMAIN described : ~(n < v.manifest) => n \in DOMAIN manifests'

LEMMA DeletionKeeps ==
  ASSUME NEW v, NEW inUse, NEW described, DeleteObsoleteFiles(v, inUse, described)
  PROVE  DeletesOnly(v, inUse, described)
<1>1. PICK gone \in {{}, ObsoleteTables(v, inUse)}, goneLogs \in {{}, ObsoleteLogs(v)},
           goneManifests \in {{}, ObsoleteManifests(v)} :
        /\ tables' = Without(tables, gone)
        /\ logs' = Without(logs, goneLogs)
        /\ manifests' = Without(described, goneManifests)
  BY DEF DeleteObsoleteFiles
<1>2. DOMAIN tables' = DOMAIN tables \ gone /\ \A t \in DOMAIN tables' : tables'[t] = tables[t]
  BY <1>1 DEF Without, Restrict
<1>3. DOMAIN logs' = DOMAIN logs \ goneLogs /\ \A t \in DOMAIN logs' : logs'[t] = logs[t]
  BY <1>1 DEF Without, Restrict
<1>4. DOMAIN manifests' = DOMAIN described \ goneManifests /\ \A t \in DOMAIN manifests' : manifests'[t] = described[t]
  BY <1>1 DEF Without, Restrict
<1>5. \A t \in gone : t \notin v.files \union inUse
  BY <1>1 DEF ObsoleteTables
<1>6. \A n \in goneLogs : n < v.log
  BY <1>1 DEF ObsoleteLogs
<1>7. \A n \in goneManifests : n \in DOMAIN manifests /\ n < v.manifest
  BY <1>1 DEF ObsoleteManifests
<1>8. QED
  BY <1>2, <1>3, <1>4, <1>5, <1>6, <1>7 DEF DeletesOnly

LEMMA DeletionTypes ==
  ASSUME TypeOK, issued' = issued, NEW v, NEW inUse, NEW described, DeletesOnly(v, inUse, described),
         \A n \in DOMAIN described : described[n] \in ManifestType /\ described[n].synced <= Len(described[n].recs)
  PROVE  /\ IsBounded(DOMAIN logs')
         /\ \A n \in DOMAIN logs' : logs'[n] \in LogType(issued') /\ logs'[n].synced <= Len(logs'[n].recs)
         /\ IsBounded(DOMAIN tables')
         /\ \A n \in DOMAIN tables' : tables'[n] \in TableType(issued')
         /\ \A n \in DOMAIN manifests' : manifests'[n] \in ManifestType /\ manifests'[n].synced <= Len(manifests'[n].recs)
<1>1. IsBounded(DOMAIN logs')
  BY DEF DeletesOnly, TypeOK, IsBounded
<1>2. IsBounded(DOMAIN tables')
  BY DEF DeletesOnly, TypeOK, IsBounded
<1>3. \A n \in DOMAIN logs' : logs'[n] \in LogType(issued') /\ logs'[n].synced <= Len(logs'[n].recs)
  BY DEF DeletesOnly, TypeOK
<1>4. \A n \in DOMAIN tables' : tables'[n] \in TableType(issued')
  BY DEF DeletesOnly, TypeOK
<1>5. \A n \in DOMAIN manifests' : manifests'[n] \in ManifestType /\ manifests'[n].synced <= Len(manifests'[n].recs)
  BY DEF DeletesOnly
<1>6. QED
  BY <1>1, <1>2, <1>3, <1>4, <1>5

LEMMA OpenAsItWasIInv == ASSUME IInv, OpenAsItWas PROVE IInv'
<1>. USE DEF history, jobs
<1>. DEFINE edits == manifests[current].recs
            e == edits[Len(edits)]
<1>1. /\ pc = "starting" /\ ~opening.save /\ pc' = "up" /\ created' = TRUE /\ opening' = NotOpening
      /\ DeletesOnly(vs, {}, manifests)
      /\ UNCHANGED <<issued, acked, durable, repaired, current, vs, mem, imm, logFile, jobs, bgError, reuse>>
  BY DeletionKeeps DEF OpenAsItWas, OpenReturns
<1>2. TypeOK /\ DiskInv /\ EndsAreGood /\ OpeningInv /\ ReadInv /\ LogIsOpen /\ current # 0
  BY <1>1 DEF IInv, OpeningInv, Opening, DiskInv
<1>3. /\ Len(edits) > 0 /\ Quiet /\ imm = {} /\ ~bgError /\ vs.manifest < vs.next /\ vs.log < vs.next
      /\ reuse /\ vs.described /\ opening.added = {} /\ vs.manifest = current
      /\ \A t \in vs.files : t \in DOMAIN tables /\ tables[t].ok /\ t < vs.next
      /\ opening.todo = {} /\ logFile # 0 /\ logFile \in DOMAIN logs /\ logFile >= vs.log
      /\ \A n \in DOMAIN logs : n < vs.next
      /\ \A r \in mem : \E k \in 1..Len(logs[logFile].recs) : logs[logFile].recs[k] = r
      /\ \A id \in acked : InTables(tables, vs.files, id) \/ InSet(mem, id)
  BY <1>1, <1>2 DEF OpeningInv, Opening, LogIsOpen, LeftInLogs
<1>4. /\ applying = None /\ FilesAfter(edits, Len(edits)) = vs.files /\ e.log = vs.log
  BY <1>1, <1>2 DEF ReadInv, Final
<1>5. current \in DOMAIN manifests /\ Len(edits) \in Nat /\ Ends(manifests[current]) = {Len(edits)}
  BY <1>1, <1>2, <1>3, LastIsGood DEF Ends
<1>6. /\ vs \in VersionType /\ vs.manifest \in Nat /\ vs.log \in Nat /\ vs.next \in Nat /\ logFile \in Nat
      /\ DOMAIN logs \subseteq Nat /\ issued \in Nat
  BY <1>2 DEF TypeOK, VersionType, IsBounded
<1>7. current \in DOMAIN manifests' /\ manifests'[current] = manifests[current]
  BY <1>1, <1>3, <1>5, <1>6 DEF DeletesOnly
<1>8. \A t \in vs.files : t \in DOMAIN tables' /\ tables'[t] = tables[t]
  BY <1>1, <1>3 DEF DeletesOnly
<1>9. \A n \in DOMAIN logs : n >= vs.log => n \in DOMAIN logs' /\ logs'[n] = logs[n]
  BY <1>1, <1>6 DEF DeletesOnly
<1>10. TypeOK'
  <2>1. \A n \in DOMAIN manifests : manifests[n] \in ManifestType /\ manifests[n].synced <= Len(manifests[n].recs)
    BY <1>2 DEF TypeOK
  <2>2. (vs \in VersionType)' /\ (opening \in OpeningType)'
    BY <1>1, <1>6 DEF VersionType, OpeningType, NotOpening
  <2>3. QED
    BY <1>1, <1>2, <2>1, <2>2, DeletionTypes DEF TypeOK
<1>11. DiskInv'
  <2>1. \A n \in Ends(manifests[current]) : Keeps(tables, tables', FilesAfter(edits, n))
    BY <1>4, <1>5, <1>8 DEF Keeps
  <2>2. \A n \in Ends(manifests[current]) : Grows(logs, logs', edits[n].log)
    BY <1>4, <1>5, <1>9 DEF Grows, Longer
  <2>3. EndsAreGood'
    BY <1>1, <1>2, <1>6, <1>7, <2>1, <2>2, EndsStay
  <2>4. acked' # {} => created' \/ repaired'
    BY <1>1
  <2>5. QED
    BY <1>1, <1>2, <1>3, <1>7, <2>3 DEF DiskInv
<1>12. UpInv'
  <2>1. \A n \in Ends(manifests[current])' : manifests'[current].recs[n].next <= vs.next
                                             /\ manifests'[current].recs[n].log <= logFile
    <3>1. e.next < vs.next /\ e.next \in Nat
      BY <1>1, <1>2, <1>5 DEF ReadInv, EndsAreGood, Good
    <3>2. Ends(manifests[current])' = {Len(edits)}
      BY <1>1, <1>5, <1>7 DEF Ends
    <3>3. QED
      BY <1>3, <1>4, <1>6, <1>7, <3>1, <3>2
  <2>2. logFile \in DOMAIN logs' /\ logs'[logFile] = logs[logFile]
    BY <1>3, <1>9
  <2>3. \A n \in DOMAIN logs' : n < vs.next
    BY <1>1, <1>3 DEF DeletesOnly
  <2>4. \A id \in acked : InSet(mem, id) \/ InTables(tables', vs.files, id)
    BY <1>3, <1>8 DEF InTables
  <2>5. \A t \in vs.files \union held : t \in DOMAIN tables' /\ tables'[t].ok /\ t < vs.next
    BY <1>3, <1>8 DEF Quiet
  <2>6. Has(tables, vs.files, logs, vs.log, acked, Promised)'
    <3>1. Keeps(tables, tables', vs.files) /\ vs.files \subseteq DOMAIN tables
      BY <1>3, <1>8 DEF Keeps
    <3>2. Has(tables, vs.files, logs, vs.log, acked, Promised)
      BY <1>1, <1>2 DEF OpeningInv, Opening
    <3>3. Grows(logs, logs', vs.log)
      BY <1>9 DEF Grows, Longer
    <3>4. Has(tables', vs.files, logs', vs.log, acked, Promised)
      BY <3>1, <3>2, <3>3, HasStays
    <3>5. QED
      BY <1>1, <3>4 DEF Promised
  <2>7. \A r \in mem : \E k \in 1..Len(logs'[logFile].recs) : logs'[logFile].recs[k] = r
    BY <1>3, <2>2
  <2>8. QED
    BY <1>1, <1>2, <1>3, <1>6, <2>1, <2>2, <2>3, <2>4, <2>5, <2>6, <2>7 DEF UpInv, Quiet, InSet
<1>13. FlushInv' /\ CompactionInv' /\ EditInv'
  BY <1>1, <1>3, <1>4 DEF FlushInv, CompactionInv, EditInv, Quiet
<1>14. ManifestInv'
  BY <1>1, <1>3, <1>4, <1>5, <1>7 DEF ManifestInv, Settled, Logged
<1>15. WholeInv' /\ WorkInv'
  <2>1. \A n \in DOMAIN manifests' : manifests'[n].end = "whole"
    BY <1>1, <1>3 DEF IInv, WholeInv, DeletesOnly
  <2>2. QED
    BY <1>1, <1>3, <1>7, <2>1 DEF WholeInv, WorkInv
<1>16. QED
  BY <1>1, <1>10, <1>11, <1>12, <1>13, <1>14, <1>15, WhenUp DEF IInv

(* A manifest with one more edit.                                           *)
AppendsTo(edits, edit, more) ==
  /\ more \in Seq(EditType) /\ Len(more) = Len(edits) + 1 /\ more[Len(edits) + 1] = edit
  /\ \A i \in 1..Len(edits) : more[i] = edits[i]
  /\ \A n \in 0..Len(edits) : FilesAfter(more, n) = FilesAfter(edits, n)
  /\ FilesAfter(more, Len(edits) + 1) = (FilesAfter(edits, Len(edits)) \ edit.deleted) \union edit.added

LEMMA AppendedFiles ==
  ASSUME NEW edits \in Seq(EditType), NEW edit \in EditType
  PROVE  AppendsTo(edits, edit, Append(edits, edit))
<1>. DEFINE more == Append(edits, edit)
<1>1. /\ more \in Seq(EditType) /\ Len(more) = Len(edits) + 1
      /\ more[Len(edits) + 1] = edit /\ Len(edits) \in Nat
      /\ \A i \in 1..Len(edits) : more[i] = edits[i]
  OBVIOUS
<1>. HIDE DEF more
<1>2. ASSUME NEW n \in 0..Len(edits) PROVE FilesAfter(more, n) = FilesAfter(edits, n)
  <2>1. n \in Nat /\ \A i \in 1..n : more[i] = edits[i]
    BY <1>1
  <2>2. QED
    BY <2>1, FilesAfterSame
<1>3. FilesAfter(more, Len(edits) + 1) = (FilesAfter(more, Len(edits) + 1 - 1) \ edit.deleted) \union edit.added
  <2>1. Len(edits) + 1 \in Nat /\ Len(edits) + 1 > 0
    BY <1>1
  <2>2. FilesAfter(more, Len(edits) + 1)
          = (FilesAfter(more, Len(edits) + 1 - 1) \ more[Len(edits) + 1].deleted) \union more[Len(edits) + 1].added
    BY <2>1, FilesAfterStep
  <2>3. QED
    BY <1>1, <2>2
<1>4. FilesAfter(more, Len(edits) + 1 - 1) = FilesAfter(edits, Len(edits))
  <2>1. Len(edits) + 1 - 1 = Len(edits) /\ Len(edits) \in 0..Len(edits)
    BY <1>1
  <2>2. QED
    BY <1>2, <2>1
<1>5. QED
  BY <1>1, <1>2, <1>3, <1>4 DEF more, AppendsTo

LEMMA AppendedManifest ==
  ASSUME NEW m \in ManifestType, NEW edit \in EditType
  PROVE  /\ Appended(m, edit).recs = Append(m.recs, edit) /\ Appended(m, edit).synced = m.synced
         /\ Appended(m, edit).end = m.end /\ Appended(m, edit) \in ManifestType
<1>. DEFINE more == Append(m.recs, edit)
<1>1. more \in Seq(EditType)
  BY DEF ManifestType
<1>2. Appended(m, edit) = [m EXCEPT !.recs = more]
  BY DEF Appended
<1>. HIDE DEF more
<1>3. /\ Appended(m, edit).recs = more /\ Appended(m, edit).synced = m.synced
      /\ Appended(m, edit).end = m.end /\ Appended(m, edit) \in ManifestType
  BY <1>1, <1>2 DEF ManifestType
<1>4. QED
  BY <1>3 DEF more

LEMMA LogOpeningIInv == ASSUME IInv, LogOpening PROVE IInv'
<1>. USE DEF history, jobs
<1>. DEFINE edits == manifests[current].recs
            edit == Edit(logFile, vs, opening.added, {})
            new == NewManifest(<<Snapshot(vs.files), edit>>)
<1>1. /\ pc = "starting" /\ opening.save /\ pc' = "applying"
      /\ applying' = [edit |-> edit, by |-> "open", logged |-> TRUE]
      /\ UNCHANGED <<logs, tables, current, vs, mem, imm, logFile, opening, writing, flush,
                     compaction, held, bgError, reuse, history>>
  BY DEF LogOpening
<1>1m. PICK m \in IF vs.described THEN AddEdit(manifests[current], edit) ELSE {new} :
         manifests' = With(manifests, vs.manifest, m)
  BY DEF LogOpening
<1>2. TypeOK /\ DiskInv /\ EndsAreGood /\ OpeningInv /\ ReadInv /\ LogIsOpen /\ current # 0
  BY <1>1 DEF IInv, OpeningInv, Opening, DiskInv
<1>3. /\ Len(edits) > 0 /\ Quiet /\ imm = {} /\ ~bgError /\ vs.manifest < vs.next /\ vs.log < vs.next
      /\ (vs.described => reuse) /\ (vs.described => vs.manifest = current)
      /\ (~vs.described => vs.manifest > current)
      /\ \A t \in vs.files \union opening.added : t \in DOMAIN tables /\ tables[t].ok /\ t < vs.next
      /\ opening.todo = {} /\ logFile # 0 /\ logFile \in DOMAIN logs /\ logFile >= vs.log
      /\ \A n \in DOMAIN logs : n < vs.next
      /\ \A r \in mem : \E k \in 1..Len(logs[logFile].recs) : logs[logFile].recs[k] = r
      /\ \A id \in acked : InTables(tables, vs.files \union opening.added, id) \/ InSet(mem, id)
  BY <1>1, <1>2 DEF OpeningInv, Opening, LogIsOpen, LeftInLogs
<1>4. FilesAfter(edits, Len(edits)) = vs.files
  BY <1>1, <1>2 DEF ReadInv, Final
<1>5. current \in DOMAIN manifests /\ Len(edits) \in Nat /\ edits \in Seq(EditType)
  BY <1>2, LastIsGood
<1>6. /\ vs \in VersionType /\ vs.manifest \in Nat /\ vs.log \in Nat /\ vs.next \in Nat /\ logFile \in Nat
      /\ vs.files \in SUBSET Nat /\ vs.last \in 0..issued /\ opening.added \in SUBSET Nat /\ reuse \in BOOLEAN
      /\ DOMAIN logs \subseteq Nat /\ issued \in Nat /\ current \in Nat /\ vs.described \in BOOLEAN
  BY <1>2 DEF TypeOK, VersionType, OpeningType, IsBounded
<1>7. /\ edit \in EditType /\ edit.log = logFile /\ edit.next = vs.next /\ edit.last = vs.last
      /\ edit.added = opening.added /\ edit.deleted = {}
  BY <1>6 DEF Edit, EditType
<1>8. Snapshot(vs.files) \in EditType
  BY <1>6 DEF Snapshot, EditType
<1>. HIDE DEF edit
<1>9. new \in ManifestType /\ new.synced = 0 /\ 0 <= Len(new.recs)
  BY <1>7, <1>8 DEF NewManifest, ManifestType
<1>. HIDE DEF new
<1>10. CASE vs.described
  <2>0. reuse /\ vs.manifest = current /\ m = Appended(manifests[current], edit)
    <3>1. reuse /\ vs.manifest = current /\ manifests[current].end = "whole"
      BY <1>3, <1>5, <1>10 DEF IInv, WholeInv
    <3>2. QED
      BY <1>1m, <1>10, <3>1 DEF AddEdit
  <2>1. /\ DOMAIN manifests' = DOMAIN manifests
        /\ \A n \in DOMAIN manifests : n # current => manifests'[n] = manifests[n]
        /\ manifests'[current] = Appended(manifests[current], edit)
    BY <1>1m, <1>5, <2>0 DEF With, Joined
  <2>2. manifests[current] \in ManifestType /\ manifests[current].synced <= Len(edits)
    BY <1>2, <1>5 DEF TypeOK
  <2>3. /\ manifests'[current].recs = Append(edits, edit) /\ manifests'[current].synced = manifests[current].synced
        /\ manifests'[current] \in ManifestType
    <3>1. /\ Appended(manifests[current], edit).recs = Append(edits, edit)
          /\ Appended(manifests[current], edit).synced = manifests[current].synced
          /\ Appended(manifests[current], edit) \in ManifestType
      BY <1>7, <2>2, AppendedManifest
    <3>2. QED
      BY <2>1, <3>1
  <2>. DEFINE more == manifests'[current].recs
  <2>4. /\ Len(more) = Len(edits) + 1 /\ more[Len(more)] = edit
        /\ FilesAfter(more, Len(more)) = vs.files \union opening.added
    <3>1. AppendsTo(edits, edit, more)
      BY <1>5, <1>7, <2>3, AppendedFiles
    <3>2. QED
      BY <1>4, <1>5, <1>7, <3>1 DEF AppendsTo
  <2>. HIDE DEF more
  <2>5. TypeOK'
    <3>1. \A n \in DOMAIN manifests' : manifests'[n] \in ManifestType /\ manifests'[n].synced <= Len(manifests'[n].recs)
      <4>1. manifests'[current].synced <= Len(manifests'[current].recs)
        BY <1>5, <2>2, <2>3, <2>4 DEF ManifestType, more
      <4>2. QED
        BY <1>2, <2>1, <2>3, <4>1 DEF TypeOK
    <3>2. applying' \in Application
      BY <1>1, <1>7 DEF Application
    <3>3. (vs \in VersionType)' /\ (opening \in OpeningType)'
      BY <1>1, <1>2 DEF TypeOK, VersionType, OpeningType
    <3>4. QED
      BY <1>1, <1>2, <3>1, <3>2, <3>3 DEF TypeOK
  <2>6. Ends(manifests[current])' = {Len(more)} /\ Len(more) > 0
    BY <1>1, <1>5, <1>10, <2>0, <2>4 DEF Ends, more
  <2>7. EndsAreGood'
    <3>1. Good(edit, vs.files \union opening.added, tables, logs, current, issued, acked, {})
      <4>1. \A id \in acked : InTables(tables, vs.files \union opening.added, id) \/ InLogs(logs, logFile, id)
        <5>1. ASSUME NEW id, InSet(mem, id) PROVE InLogs(logs, logFile, id)
          <6>1. PICK r \in mem : r.id = id
            BY <5>1 DEF InSet
          <6>2. PICK k \in 1..Len(logs[logFile].recs) : logs[logFile].recs[k] = r
            BY <1>3
          <6>3. logFile \in DOMAIN logs /\ logFile >= logFile
            BY <1>3, <1>6
          <6>4. QED
            BY <6>1, <6>2, <6>3 DEF InLogs
        <5>2. QED
          BY <1>3, <5>1
      <4>2. current < edit.next /\ edit.log < edit.next
        BY <1>3, <1>6, <1>7, <1>10, <2>0
      <4>3. QED
        BY <1>3, <1>6, <1>7, <4>1, <4>2 DEF Good
    <3>2. Promised' = {}
      BY <1>1, <1>10, <2>0 DEF Promised
    <3>3. edit.next <= edit.next
      BY <1>6, <1>7
    <3>4. manifests'[current].recs[Len(more)] = edit /\ Final(manifests'[current]) = edit
      BY <2>4 DEF Final, more
    <3>5. QED
      BY <1>1, <2>4, <2>6, <3>1, <3>2, <3>3, <3>4 DEF EndsAreGood, more
  <2>8. DiskInv'
    BY <1>1, <1>2, <1>10, <2>0, <2>1, <2>6, <2>7, <1>5 DEF DiskInv, more
  <2>9. OpeningInv' /\ WholeInv'
    <3>1. OpeningInv'
      BY <1>1, <1>2, <2>6 DEF OpeningInv, Opening, Quiet, InTables, InSet, LeftInLogs, more, Has, Promised,
         InLogs, InSynced
    <3>2. manifests'[current].end = manifests[current].end
      BY <1>7, <2>1, <2>2, AppendedManifest
    <3>3. WholeInv'
      BY <1>1, <1>5, <2>1, <3>2 DEF IInv, WholeInv
    <3>4. QED
      BY <3>1, <3>3
  <2>10. ApplyingInv'
    <3>1. applying' # None
      <4>1. applying' \in Application
        BY <1>1, <1>7 DEF Application
      <4>2. QED
        BY <4>1, NoneAssumption
    <3>2. Final(manifests'[current]) = edit
      BY <2>4 DEF Final, more
    <3>3. QED
      BY <1>1, <1>6, <1>7, <1>10, <2>0, <2>4, <3>1, <3>2 DEF ApplyingInv, more
  <2>11. ReadInv' /\ LogIsOpen'
    BY <1>1, <1>3 DEF ReadInv, LogIsOpen
  <2>12. QED
    BY <1>1, <2>5, <2>8, <2>9, <2>10, <2>11, WhenOpening DEF IInv
<1>11. CASE ~vs.described
  <2>1. /\ DOMAIN manifests' = DOMAIN manifests \union {vs.manifest} /\ manifests'[vs.manifest] = new
        /\ \A n \in DOMAIN manifests : n # vs.manifest => manifests'[n] = manifests[n]
    BY <1>1m, <1>11 DEF With, Joined
  <2>2. current # vs.manifest /\ manifests'[current] = manifests[current]
    BY <1>3, <1>5, <1>6, <1>11, <2>1
  <2>3. TypeOK'
    <3>1. \A n \in DOMAIN manifests' : manifests'[n] \in ManifestType /\ manifests'[n].synced <= Len(manifests'[n].recs)
      BY <1>2, <1>9, <2>1 DEF TypeOK
    <3>2. applying' \in Application
      BY <1>1, <1>7 DEF Application
    <3>3. (vs \in VersionType)' /\ (opening \in OpeningType)'
      BY <1>1, <1>2 DEF TypeOK, VersionType, OpeningType
    <3>4. QED
      BY <1>1, <1>2, <3>1, <3>2, <3>3 DEF TypeOK
  <2>4. EndsAreGood'
    BY <1>1, <1>2, <1>6, <2>2, LogsStay, TablesStay, EndsStay
  <2>5. DiskInv'
    BY <1>1, <1>2, <1>5, <2>1, <2>2, <2>4 DEF DiskInv
  <2>6. OpeningInv' /\ WholeInv'
    <3>1. OpeningInv'
      BY <1>1, <1>2, <2>2 DEF OpeningInv, Opening, Quiet, InTables, InSet, LeftInLogs, Has, Promised,
         InLogs, InSynced
    <3>2. WholeInv'
      BY <1>1, <2>1 DEF IInv, WholeInv, new, NewManifest
    <3>3. QED
      BY <3>1, <3>2
  <2>7. ApplyingInv'
    <3>1. applying' # None
      <4>1. applying' \in Application
        BY <1>1, <1>7 DEF Application
      <4>2. QED
        BY <4>1, NoneAssumption
    <3>2. QED
      BY <1>1, <1>6, <1>7, <1>11, <2>1, <3>1 DEF ApplyingInv, new
  <2>8. ReadInv' /\ LogIsOpen'
    BY <1>1, <1>3 DEF ReadInv, LogIsOpen
  <2>9. QED
    BY <1>1, <2>3, <2>5, <2>6, <2>7, <2>8, WhenOpening DEF IInv
<1>12. QED
  BY <1>10, <1>11

(* The edit of Open, in the manifest that CURRENT will name.                *)
LEMMA OpeningIsWritten ==
  ASSUME TypeOK, OpeningInv, ApplyingInv, EndsAreGood, current \in DOMAIN manifests, pc = "applying",
         NEW m, m = manifests[vs.manifest]
  PROVE  /\ vs.manifest \in DOMAIN manifests /\ m \in ManifestType /\ Len(m.recs) \in Nat /\ Len(m.recs) > 0
         /\ m.recs[Len(m.recs)] = applying.edit
         /\ FilesAfter(m.recs, Len(m.recs)) = vs.files \union opening.added
<1>1. /\ vs.described => vs.manifest = current /\ Len(manifests[current].recs) > 0
      /\ ~vs.described => /\ vs.manifest \in DOMAIN manifests
                   /\ m = NewManifest(<<Snapshot(vs.files), applying.edit>>)
      /\ vs.described => /\ Final(manifests[current]) = applying.edit
                  /\ FilesAfter(manifests[current].recs, Len(manifests[current].recs))
                       = vs.files \union opening.added
      /\ applying.edit.added = opening.added /\ applying.edit.deleted = {}
  BY DEF OpeningInv, Opening, ApplyingInv
<1>2. vs.manifest \in DOMAIN manifests
  BY <1>1
<1>3. m \in ManifestType /\ Len(m.recs) \in Nat
  BY <1>2 DEF TypeOK, ManifestType
<1>4. CASE vs.described
  BY <1>1, <1>2, <1>3, <1>4 DEF Final
<1>5. CASE ~vs.described
  <2>. DEFINE s == <<Snapshot(vs.files), applying.edit>>
  <2>1. /\ m.recs = s /\ Len(s) = 2 /\ s[1] = Snapshot(vs.files) /\ s[2] = applying.edit
    BY <1>1, <1>5 DEF NewManifest
  <2>. HIDE DEF s
  <2>2. FilesAfter(s, 1) = (FilesAfter(s, 1 - 1) \ s[1].deleted) \union s[1].added
    BY FilesAfterStep
  <2>3. FilesAfter(s, 1 - 1) = {}
    BY FilesAfterNone
  <2>4. FilesAfter(s, 1) = vs.files
    BY <2>1, <2>2, <2>3 DEF Snapshot
  <2>5. FilesAfter(s, 2) = (FilesAfter(s, 2 - 1) \ s[2].deleted) \union s[2].added
    BY FilesAfterStep
  <2>6. 2 - 1 = 1
    OBVIOUS
  <2>7. FilesAfter(s, 2) = vs.files \union opening.added
    BY <1>1, <2>1, <2>4, <2>5, <2>6
  <2>8. QED
    BY <1>2, <1>3, <2>1, <2>7
<1>6. QED
  BY <1>4, <1>5

(* The manifest is synced, and files that are no longer needed go.          *)
SyncsAndDeletes(n, v, inUse) ==
  /\ n \in DOMAIN manifests' /\ manifests'[n].recs = manifests[n].recs
  /\ manifests'[n].synced = Len(manifests[n].recs)
  /\ \A t \in v.files \union inUse : t \in DOMAIN tables => t \in DOMAIN tables' /\ tables'[t] = tables[t]
  /\ \A m \in DOMAIN logs : m >= v.log => m \in DOMAIN logs' /\ logs'[m] = logs[m]
  /\ \A m \in DOMAIN logs' : m \in DOMAIN logs /\ logs'[m] = logs[m]
  /\ IsBounded(DOMAIN logs')
  /\ \A m \in DOMAIN logs' : logs'[m] \in LogType(issued') /\ logs'[m].synced <= Len(logs'[m].recs)
  /\ IsBounded(DOMAIN tables')
  /\ \A m \in DOMAIN tables' : tables'[m] \in TableType(issued')
  /\ \A m \in DOMAIN manifests' : manifests'[m] \in ManifestType /\ manifests'[m].synced <= Len(manifests'[m].recs)
  /\ \A m \in DOMAIN manifests' : m \in DOMAIN manifests /\ manifests'[m].end = manifests[m].end

LEMMA SyncedAndDeleted ==
  ASSUME TypeOK, issued' = issued, NEW n \in DOMAIN manifests, NEW v, NEW inUse, v.manifest = n, n \in Nat,
         v.log \in Nat, DeleteObsoleteFiles(v, inUse, ManifestSynced(n))
  PROVE  SyncsAndDeletes(n, v, inUse)
<1>. DEFINE described == ManifestSynced(n)
<1>1. DeletesOnly(v, inUse, described)
  BY DeletionKeeps
<1>2. /\ manifests[n] \in ManifestType
      /\ \A m \in DOMAIN manifests : manifests[m] \in ManifestType /\ manifests[m].synced <= Len(manifests[m].recs)
  BY DEF TypeOK
<1>3. /\ DOMAIN described = DOMAIN manifests
      /\ described[n] = Synced(manifests[n])
      /\ \A m \in DOMAIN manifests : m # n => described[m] = manifests[m]
  BY DEF ManifestSynced
<1>4. /\ Synced(manifests[n]) \in ManifestType /\ Synced(manifests[n]).recs = manifests[n].recs
      /\ Synced(manifests[n]).synced = Len(manifests[n].recs) /\ Len(manifests[n].recs) \in Nat
      /\ Synced(manifests[n]).end = manifests[n].end
  BY <1>2 DEF Synced, ManifestType
<1>. HIDE DEF described
<1>5. \A m \in DOMAIN described : described[m] \in ManifestType /\ described[m].synced <= Len(described[m].recs)
  BY <1>2, <1>3, <1>4
<1>6. /\ IsBounded(DOMAIN logs')
      /\ \A m \in DOMAIN logs' : logs'[m] \in LogType(issued') /\ logs'[m].synced <= Len(logs'[m].recs)
      /\ IsBounded(DOMAIN tables')
      /\ \A m \in DOMAIN tables' : tables'[m] \in TableType(issued')
      /\ \A m \in DOMAIN manifests' : manifests'[m] \in ManifestType /\ manifests'[m].synced <= Len(manifests'[m].recs)
  BY <1>1, <1>5, DeletionTypes
<1>6a. \A k \in DOMAIN manifests' : k \in DOMAIN manifests /\ manifests'[k].end = manifests[k].end
  BY <1>1, <1>3, <1>4 DEF DeletesOnly
<1>7. n \in DOMAIN manifests' /\ manifests'[n] = Synced(manifests[n])
  BY <1>1, <1>3 DEF DeletesOnly
<1>8. \A t \in v.files \union inUse : t \in DOMAIN tables => t \in DOMAIN tables' /\ tables'[t] = tables[t]
  BY <1>1 DEF DeletesOnly
<1>9. DOMAIN logs \subseteq Nat
  BY DEF TypeOK, IsBounded
<1>10. \A m \in DOMAIN logs : m >= v.log => m \in DOMAIN logs' /\ logs'[m] = logs[m]
  BY <1>1, <1>9 DEF DeletesOnly
<1>11. \A m \in DOMAIN logs' : m \in DOMAIN logs /\ logs'[m] = logs[m]
  BY <1>1 DEF DeletesOnly
<1>12. QED
  BY <1>4, <1>6, <1>6a, <1>7, <1>8, <1>10, <1>11 DEF SyncsAndDeletes

LEMMA ApplyOpeningIInv == ASSUME IInv, ApplyOpening PROVE IInv'
<1>. USE DEF history, jobs
<1>. DEFINE e == applying.edit
            m == manifests[vs.manifest]
            files == vs.files \union opening.added
<1>1. /\ pc = "applying" /\ pc' = "up" /\ created' = TRUE /\ opening' = NotOpening
      /\ vs' = Applied(vs, e) /\ current' = vs.manifest /\ applying' = None
      /\ DeleteObsoleteFiles(vs', {}, ManifestSynced(vs.manifest))
      /\ UNCHANGED <<issued, acked, durable, repaired, mem, imm, logFile, writing, flush, compaction,
                     held, bgError, reuse>>
  BY DEF ApplyOpening, OpenReturns
<1>2. /\ TypeOK /\ DiskInv /\ EndsAreGood /\ OpeningInv /\ ApplyingInv /\ LogIsOpen
      /\ current # 0 /\ current \in DOMAIN manifests
  BY <1>1 DEF IInv, OpeningInv, Opening, DiskInv
<1>3. /\ Quiet /\ imm = {} /\ ~bgError /\ vs.manifest < vs.next
      /\ (vs.described => reuse) /\ (vs.described => vs.manifest = current)
      /\ (~vs.described => vs.manifest > current)
      /\ \A t \in files : t \in DOMAIN tables /\ tables[t].ok /\ t < vs.next
      /\ opening.todo = {} /\ logFile # 0 /\ logFile \in DOMAIN logs
      /\ \A n \in DOMAIN logs : n < vs.next
      /\ \A r \in mem : \E k \in 1..Len(logs[logFile].recs) : logs[logFile].recs[k] = r
      /\ \A id \in acked : InTables(tables, files, id) \/ InSet(mem, id)
      /\ mem # {} => reuse
  BY <1>1, <1>2 DEF OpeningInv, Opening, LogIsOpen, LeftInLogs
<1>4. e.log = logFile /\ e.added = opening.added /\ e.deleted = {} /\ e.next = vs.next /\ e.last \in 0..issued
  BY <1>1, <1>2 DEF ApplyingInv
<1>5. /\ vs.manifest \in DOMAIN manifests /\ m \in ManifestType /\ Len(m.recs) \in Nat /\ Len(m.recs) > 0
      /\ m.recs[Len(m.recs)] = e /\ FilesAfter(m.recs, Len(m.recs)) = files
  BY <1>1, <1>2, OpeningIsWritten
<1>6. /\ vs \in VersionType /\ vs.manifest \in Nat /\ vs.next \in Nat /\ logFile \in Nat /\ current \in Nat
      /\ files \in SUBSET Nat /\ reuse \in BOOLEAN /\ DOMAIN logs \subseteq Nat /\ issued \in Nat
      /\ durable \subseteq acked /\ e \in EditType
  <2>1. applying \in Application
    BY <1>1, <1>2 DEF ApplyingInv, TypeOK
  <2>2. QED
    BY <1>2, <2>1 DEF TypeOK, VersionType, OpeningType, IsBounded, Application
<1>. HIDE DEF e
<1>7. /\ vs'.log = logFile /\ vs'.files = files /\ vs'.manifest = vs.manifest /\ vs'.next = vs.next
      /\ vs'.described = TRUE /\ vs'.last = vs.last /\ vs' \in VersionType
  BY <1>1, <1>4, <1>6 DEF Applied, VersionType
<1>. HIDE DEF files
<1>8. SyncsAndDeletes(vs.manifest, vs', {})
  BY <1>1, <1>2, <1>5, <1>6, <1>7, SyncedAndDeleted
<1>9. /\ vs.manifest \in DOMAIN manifests' /\ manifests'[vs.manifest].recs = m.recs
      /\ manifests'[vs.manifest].synced = Len(m.recs)
      /\ \A t \in files : t \in DOMAIN tables' /\ tables'[t] = tables[t]
      /\ logFile \in DOMAIN logs' /\ logs'[logFile] = logs[logFile]
      /\ \A n \in DOMAIN logs' : n \in DOMAIN logs
      /\ \A n \in DOMAIN manifests' : n \in DOMAIN manifests /\ manifests'[n].end = manifests[n].end
  BY <1>3, <1>6, <1>7, <1>8 DEF SyncsAndDeletes
<1>. HIDE DEF m
<1>10. Ends(manifests[current])' = {Len(m.recs)}
  BY <1>1, <1>5, <1>9 DEF Ends
<1>11. TypeOK'
  <2>1. (opening \in OpeningType)'
    BY <1>1, <1>6 DEF OpeningType, NotOpening
  <2>2. (vs \in VersionType)'
    BY <1>1, <1>7 DEF VersionType
  <2>3. QED
    BY <1>1, <1>2, <1>6, <1>8, <2>1, <2>2 DEF TypeOK, SyncsAndDeletes
<1>12. \A id \in acked : InTables(tables', files, id) \/ InSet(mem, id)
  <2>1. ASSUME NEW id, InTables(tables, files, id) PROVE InTables(tables', files, id)
    <3>1. PICK t \in files : \E r \in tables[t].recs : r.id = id
      BY <2>1 DEF InTables
    <3>2. tables'[t] = tables[t]
      BY <1>9
    <3>3. QED
      BY <3>1, <3>2 DEF InTables
  <2>2. QED
    BY <1>3, <2>1
<1>13. Good(e, files, tables', logs', current', issued', acked', Promised')
  <2>1. ASSUME NEW id, InSet(mem, id) PROVE InLogs(logs', logFile, id)
    <3>1. PICK r \in mem : r.id = id
      BY <2>1 DEF InSet
    <3>2. PICK k \in 1..Len(logs'[logFile].recs) : logs'[logFile].recs[k] = r
      BY <1>3, <1>9
    <3>3. logFile >= logFile
      BY <1>6
    <3>4. QED
      BY <1>9, <3>1, <3>2, <3>3 DEF InLogs
  <2>2. \A id \in acked : InTables(tables', files, id) \/ InLogs(logs', logFile, id)
    BY <1>12, <2>1
  <2>3. \A id \in Promised' : InTables(tables', files, id)
    BY <1>1, <1>3, <1>6, <1>12 DEF Promised, InSet
  <2>4. \A f \in files : f \in DOMAIN tables' /\ tables'[f].ok /\ f < e.next
    BY <1>3, <1>4, <1>9
  <2>5. e.next \in Nat /\ e.log \in Nat /\ e.log < e.next /\ vs.manifest < e.next
    BY <1>3, <1>4, <1>6
  <2>6. QED
    BY <1>1, <1>4, <1>6, <2>2, <2>3, <2>4, <2>5 DEF Good
<1>14. DiskInv'
  <2>1. EndsAreGood'
    <3>1. Final(manifests'[current']) = e /\ e.next <= e.next
      BY <1>1, <1>4, <1>5, <1>6, <1>9 DEF Final
    <3>2. manifests'[current'].recs = m.recs
      BY <1>1, <1>9
    <3>3. QED
      BY <1>5, <1>10, <1>13, <3>1, <3>2 DEF EndsAreGood
  <2>2. current' # 0
    BY <1>1, <1>2, <1>3, <1>6
  <2>3. QED
    BY <1>1, <1>5, <1>9, <2>1, <2>2 DEF DiskInv
<1>15. UpInv'
  <2>1. \A n \in Ends(manifests[current])' : manifests'[current'].recs[n].next <= vs'.next
                                               /\ manifests'[current'].recs[n].log <= logFile
    BY <1>1, <1>4, <1>5, <1>6, <1>7, <1>9, <1>10
  <2>2. current' # 0
    BY <1>1, <1>2, <1>3, <1>6
  <2>3. \A t \in files \union held : t \in DOMAIN tables' /\ tables'[t].ok /\ t < vs'.next
    BY <1>3, <1>7, <1>9 DEF Quiet
  <2>4. \A r \in mem : \E k \in 1..Len(logs'[logFile].recs) : logs'[logFile].recs[k] = r
    BY <1>3, <1>9
  <2>5. \A n \in DOMAIN logs' : n < vs'.next
    BY <1>3, <1>7, <1>9
  <2>6. vs'.manifest < vs'.next /\ vs'.log <= logFile /\ logFile < vs'.next
    BY <1>3, <1>6, <1>7
  <2>7. ~reuse => mem = {}
    BY <1>3
  <2>8. writing' = None
    BY <1>1, <1>3 DEF Quiet
  <2>9. \A id \in acked' : InSet(mem', id) \/ InTables(tables', vs'.files, id)
    BY <1>1, <1>7, <1>12
  <2>10. Has(tables, vs.files, logs, vs.log, acked, Promised)'
    <3>1. Has(tables', files, logs', e.log, acked', Promised')
      BY <1>13, GoodHas
    <3>2. QED
      BY <1>4, <1>7, <3>1
  <2>11. QED
    BY <1>1, <1>7, <1>9, <2>1, <2>2, <2>3, <2>4, <2>5, <2>6, <2>7, <2>8, <2>9, <2>10 DEF UpInv, Quiet
<1>16. FlushInv' /\ CompactionInv' /\ EditInv'
  BY <1>1, <1>3 DEF FlushInv, CompactionInv, EditInv, Quiet
<1>17. ManifestInv'
  BY <1>1, <1>3, <1>4, <1>5, <1>7, <1>9 DEF ManifestInv, Settled, Logged
<1>18. WholeInv' /\ WorkInv'
  <2>1. m.end = "whole"
    <3>1. CASE vs.described
      BY <1>1, <1>3, <1>5, <3>1 DEF IInv, WholeInv, m
    <3>2. CASE ~vs.described
      BY <1>1, <1>2, <3>2 DEF ApplyingInv, NewManifest, m
    <3>3. QED
      BY <3>1, <3>2
  <2>2. manifests'[current'].end = "whole"
    BY <1>1, <1>9, <2>1 DEF m
  <2>3. reuse' => \A n \in DOMAIN manifests' : manifests'[n].end = "whole"
    BY <1>1, <1>9 DEF IInv, WholeInv
  <2>4. QED
    BY <1>1, <1>3, <2>2, <2>3 DEF WholeInv, WorkInv
<1>19. QED
  BY <1>1, <1>11, <1>14, <1>15, <1>16, <1>17, <1>18, WhenUp DEF IInv

-----------------------------------------------------------------------------
(* The process stops: nothing of it is left.                                *)
DiskTypes ==
  /\ IsBounded(DOMAIN logs)
  /\ \A n \in DOMAIN logs : logs[n] \in LogType(issued) /\ logs[n].synced <= Len(logs[n].recs)
  /\ IsBounded(DOMAIN tables)
  /\ \A n \in DOMAIN tables : tables[n] \in TableType(issued)
  /\ \A n \in DOMAIN manifests : manifests[n] \in ManifestType /\ manifests[n].synced <= Len(manifests[n].recs)

LEMMA WhenStopped ==
  ASSUME TypeOK, Stopped, pc' = "down", DiskInv', DiskTypes', WholeInv', current' = current, issued' = issued,
         reuse' = reuse, created' = created, repaired' = repaired, durable' = durable,
         acked' \in {acked, durable}
  PROVE  IInv'
<1>1. (vs \in VersionType)' /\ (opening \in OpeningType)'
  BY DEF Stopped, Fresh, NotOpening, VersionType, OpeningType, TypeOK
<1>2. TypeOK'
  BY <1>1 DEF TypeOK, Stopped, DiskTypes
<1>3. AsleepInv' /\ CreatingInv' /\ RefusedInv'
  BY DEF Stopped, AsleepInv, CreatingInv, RefusedInv, Quiet
<1>4. QED
  BY <1>2, <1>3, WhenAsleep DEF IInv

LEMMA ProcessStopsIInv == ASSUME IInv, ProcessStops PROVE IInv'
<1>1. /\ Stopped /\ pc' = "down" /\ TypeOK /\ DiskInv
      /\ UNCHANGED <<logs, manifests, tables, current, reuse, issued, acked, durable, created, repaired>>
  BY DEF ProcessStops, IInv, disk
<1>2. DiskInv'
  BY <1>1 DEF DiskInv, EndsAreGood, Ends, Promised
<1>3. DiskTypes'
  BY <1>1 DEF DiskTypes, TypeOK
<1>4. WholeInv'
  BY <1>1, WholeStays DEF IInv
<1>5. QED
  BY <1>1, <1>2, <1>3, <1>4, WhenStopped

(* Under reuse_logs, which is not in Faults, a manifest stays as it was.    *)
LEMMA OpenFailsIInv == ASSUME IInv, TRUE \notin Faults, OpenFails PROVE IInv'
<1>1. /\ Stopped /\ pc' = "down" /\ TypeOK /\ DiskInv
      /\ UNCHANGED <<logs, tables, current, reuse, issued, acked, durable, created, repaired>>
  BY DEF OpenFails, IInv
<1>2. /\ DOMAIN manifests' \subseteq DOMAIN manifests
      /\ \A n \in DOMAIN manifests' : manifests'[n] = manifests[n]
      /\ current # 0 => current \in DOMAIN manifests'
  <2>1. CASE pc = "creating"
    <3>1. manifests' = Without(manifests, {1}) /\ current = 0
      BY <2>1 DEF OpenFails, IInv, CreatingInv
    <3>2. QED
      BY <3>1 DEF Without, Restrict
  <2>2. CASE pc = "applying" /\ ~vs.described
    <3>1. manifests' = Without(manifests, {vs.manifest})
      BY <2>2 DEF OpenFails
    <3>2. vs.manifest > current
      BY <2>2 DEF IInv, OpeningInv, Opening
    <3>3. vs.manifest # current
      BY <1>1, <3>2 DEF TypeOK, VersionType
    <3>4. QED
      BY <1>1, <3>1, <3>3 DEF Without, Restrict, DiskInv
  <2>3. CASE pc = "starting" /\ vs.described /\ opening.save
    <3>1. manifests' = [manifests EXCEPT ![current] = CutShort(@)]
      BY <2>3 DEF OpenFails
    <3>2. reuse /\ reuse \in BOOLEAN
      BY <1>1, <2>3 DEF IInv, OpeningInv, Opening, TypeOK
    <3>3. CutShort(manifests[current]) = manifests[current]
      BY <3>2 DEF CutShort
    <3>4. QED
      BY <1>1, <3>1, <3>3 DEF DiskInv
  <2>4. CASE /\ pc # "creating" /\ ~(pc = "applying" /\ ~vs.described)
             /\ ~(pc = "starting" /\ vs.described /\ opening.save)
    <3>1. manifests' = manifests
      BY <2>4 DEF OpenFails
    <3>2. QED
      BY <1>1, <3>1 DEF DiskInv
  <2>5. QED
    BY <2>1, <2>2, <2>3, <2>4
<1>3. DiskInv'
  BY <1>1, <1>2 DEF DiskInv, EndsAreGood, Ends, Promised
<1>4. DiskTypes'
  BY <1>1, <1>2 DEF DiskTypes, TypeOK
<1>5. WholeInv'
  BY <1>1, <1>2 DEF IInv, WholeInv
<1>6. QED
  BY <1>1, <1>3, <1>4, <1>5, WhenStopped

-----------------------------------------------------------------------------
(* An open database.                                                        *)
LEMMA UpIs ==
  ASSUME IInv, pc = "up"
  PROVE  /\ TypeOK /\ DiskInv /\ EndsAreGood /\ UpInv /\ FlushInv /\ CompactionInv /\ ManifestInv /\ WorkInv /\ EditInv
         /\ current # 0 /\ current \in DOMAIN manifests /\ created /\ vs.manifest = current
         /\ vs \in VersionType /\ vs.next \in Nat \ {0} /\ vs.log \in Nat /\ vs.files \in SUBSET Nat
         /\ vs.manifest \in Nat /\ vs.last \in 0..issued /\ opening \in OpeningType
         /\ logFile \in Nat /\ logFile \in DOMAIN logs /\ DOMAIN logs \subseteq Nat \ {0}
         /\ DOMAIN tables \subseteq Nat \ {0}
         /\ issued \in Nat /\ reuse \in BOOLEAN /\ manifests[current] \in ManifestType
         /\ manifests[current].recs \in Seq(EditType) /\ Len(manifests[current].recs) \in Nat
<1>1. TypeOK /\ DiskInv /\ UpInv /\ FlushInv /\ CompactionInv /\ ManifestInv /\ WorkInv /\ EditInv
  BY DEF IInv
<1>2. current # 0 /\ created /\ vs.manifest = current /\ logFile \in DOMAIN logs /\ vs.manifest < vs.next
  BY <1>1 DEF UpInv
<1>3. EndsAreGood /\ current \in DOMAIN manifests
  BY <1>1, <1>2 DEF DiskInv
<1>4. vs \in VersionType /\ opening \in OpeningType /\ manifests[current] \in ManifestType
  BY <1>1, <1>3 DEF TypeOK
<1>5. DOMAIN logs \subseteq Nat \ {0} /\ DOMAIN tables \subseteq Nat \ {0}
  BY <1>1 DEF TypeOK, IsBounded
<1>6. vs.next \in Nat \ {0}
  BY <1>2, <1>4 DEF VersionType
<1>7. QED
  BY <1>1, <1>2, <1>3, <1>4, <1>5, <1>6 DEF TypeOK, VersionType, ManifestType

LEMMA AppendedLog ==
  ASSUME NEW w \in Nat, NEW f \in LogType(w), f.synced <= Len(f.recs), NEW r \in Records(w)
  PROVE  /\ Appended(f, r) \in LogType(w) /\ Appended(f, r).synced <= Len(Appended(f, r).recs)
         /\ Appended(f, r).synced = f.synced /\ Len(Appended(f, r).recs) = Len(f.recs) + 1
         /\ Appended(f, r).recs[Len(f.recs) + 1] = r /\ Len(f.recs) \in Nat
         /\ Longer(f, Appended(f, r))
<1>. DEFINE more == Append(f.recs, r)
<1>1. /\ f.recs \in Seq(Records(w)) /\ more \in Seq(Records(w)) /\ Len(more) = Len(f.recs) + 1
      /\ more[Len(f.recs) + 1] = r /\ Len(f.recs) \in Nat /\ f.synced \in Nat
      /\ \A k \in 1..Len(f.recs) : more[k] = f.recs[k]
  BY DEF LogType
<1>2. Appended(f, r) = [f EXCEPT !.recs = more]
  BY DEF Appended
<1>. HIDE DEF more
<1>3. Appended(f, r).recs = more /\ Appended(f, r).synced = f.synced /\ Appended(f, r) \in LogType(w)
  BY <1>1, <1>2 DEF LogType
<1>. DEFINE g == Appended(f, r)
<1>4. Longer(f, g)
  <2>1. g.recs = more /\ g.synced = f.synced
    BY <1>3
  <2>. HIDE DEF g
  <2>2. \A k \in 1..f.synced : k \in 1..g.synced /\ k \in 1..Len(f.recs)
    BY <1>1, <2>1
  <2>3. \A k \in 1..Len(f.recs) : k \in 1..Len(g.recs) /\ g.recs[k] = f.recs[k]
    BY <1>1, <2>1
  <2>4. QED
    BY <2>2, <2>3 DEF Longer
<1>5. Appended(f, r).synced <= Len(Appended(f, r).recs)
  BY <1>1, <1>3
<1>6. QED
  BY <1>1, <1>3, <1>4, <1>5

(* An append that succeeds or fails, and what of it a reader finds.         *)
Adds(f, r) == {[f EXCEPT !.torn = TRUE]} \union AddRecord(f, r)

LEMMA AddedToLog ==
  ASSUME NEW w \in Nat, NEW f \in LogType(w), f.synced <= Len(f.recs), NEW r \in Records(w),
         NEW g \in Adds(f, r)
  PROVE  /\ g \in LogType(w) /\ g.synced <= Len(g.recs) /\ g.synced = f.synced /\ Longer(f, g)
         /\ g.torn \/ \E k \in 1..Len(g.recs) : g.recs[k] = r
<1>1. CASE g = Appended(f, r)
  <2>1. /\ g \in LogType(w) /\ g.synced <= Len(g.recs) /\ g.synced = f.synced /\ Longer(f, g)
        /\ Len(g.recs) = Len(f.recs) + 1 /\ g.recs[Len(f.recs) + 1] = r /\ Len(f.recs) \in Nat
    BY <1>1, AppendedLog
  <2>2. Len(g.recs) \in 1..Len(g.recs) /\ g.recs[Len(g.recs)] = r
    BY <2>1
  <2>3. QED
    BY <2>1, <2>2
<1>2. CASE g.recs = f.recs /\ g.synced = f.synced /\ g.torn /\ g \in LogType(w)
  BY <1>2 DEF Longer
<1>3. g = Appended(f, r) \/ (g = f /\ f.torn) \/ g = [f EXCEPT !.torn = TRUE]
  BY DEF Adds, AddRecord
<1>4. ASSUME g = [f EXCEPT !.torn = TRUE]
      PROVE  g.recs = f.recs /\ g.synced = f.synced /\ g.torn /\ g \in LogType(w)
  BY <1>4 DEF LogType
<1>5. QED
  BY <1>1, <1>2, <1>3, <1>4

LEMMA TypesGrow ==
  ASSUME TypeOK, issued' \in Nat, issued <= issued'
  PROVE  /\ Records(issued) \subseteq Records(issued')
         /\ \A n \in DOMAIN logs : logs[n] \in LogType(issued')
         /\ \A n \in DOMAIN tables : tables[n] \in TableType(issued')
<1>1. issued \in Nat /\ 1..issued \subseteq 1..issued'
  BY DEF TypeOK
<1>2. Records(issued) \subseteq Records(issued')
  BY <1>1 DEF Records
<1>3. ASSUME NEW n \in DOMAIN logs PROVE logs[n] \in LogType(issued')
  <2>1. logs[n] \in LogType(issued)
    BY DEF TypeOK
  <2>2. Seq(Records(issued)) \subseteq Seq(Records(issued'))
    BY <1>2
  <2>3. QED
    BY <2>1, <2>2 DEF LogType
<1>4. ASSUME NEW n \in DOMAIN tables PROVE tables[n] \in TableType(issued')
  <2>1. tables[n] \in TableType(issued)
    BY DEF TypeOK
  <2>2. QED
    BY <1>2, <2>1 DEF TableType
<1>5. QED
  BY <1>2, <1>3, <1>4

(* Without an error the version is that of the manifest: work that goes on  *)
(* after the first error finds it there.                                    *)
LEMMA WorkGoesOn ==
  ASSUME ManifestInv, WorkInv, pc = "up", manifests' = manifests, current' = current,
         applying' = applying \/ (~Logged /\ ~Logged'), vs'.files = vs.files
  PROVE  Working => WorkInv'
  BY DEF ManifestInv, WorkInv, Settled, Logged, Working, Final

LEMMA AppendIInv ==
  ASSUME IInv, pc = "up", pc' = "up", ~bgError, writing = None, issued' = issued + 1,
         NEW record, record = [seq |-> vs.last + 1, id |-> issued + 1],
         NEW log \in Adds(logs[logFile], record), logs' = [logs EXCEPT ![logFile] = log],
         writing' \in {None, record}, writing' = record => log \in AddRecord(logs[logFile], record),
         vs' \in [log : Nat, next : Nat, last : 0..issued', manifest : Nat, described : BOOLEAN, files : SUBSET Nat],
         vs'.log = vs.log, vs'.next = vs.next, vs'.files = vs.files, vs'.manifest = vs.manifest,
         UNCHANGED <<manifests, tables, current, mem, imm, logFile, opening, flush, compaction,
                     applying, held, bgError, reuse, acked, durable, created, repaired>>
  PROVE  IInv'
<1>1. /\ pc = "up" /\ pc' = "up" /\ ~bgError /\ writing = None /\ issued' = issued + 1
      /\ UNCHANGED <<manifests, tables, current, mem, imm, logFile, opening, flush, compaction,
                     applying, held, bgError, reuse, acked, durable, created, repaired>>
  OBVIOUS
<1>2. /\ TypeOK /\ DiskInv /\ EndsAreGood /\ UpInv /\ FlushInv /\ CompactionInv /\ ManifestInv /\ WorkInv /\ EditInv
      /\ vs \in VersionType /\ vs.last \in 0..issued /\ opening \in OpeningType /\ issued \in Nat
      /\ logFile \in DOMAIN logs /\ acked \subseteq 1..issued
  BY <1>1, UpIs DEF TypeOK
<1>3. /\ Records(issued) \subseteq Records(issued')
      /\ \A n \in DOMAIN logs : logs[n] \in LogType(issued')
      /\ \A n \in DOMAIN tables : tables[n] \in TableType(issued')
  BY <1>1, <1>2, TypesGrow
<1>4. record \in Records(issued') /\ record.id = issued'
  BY <1>1, <1>2 DEF Records
<1>5. logs[logFile] \in LogType(issued') /\ logs[logFile].synced <= Len(logs[logFile].recs)
  BY <1>2, <1>3 DEF TypeOK
<1>6. /\ DOMAIN logs' = DOMAIN logs /\ \A n \in DOMAIN logs : n # logFile => logs'[n] = logs[n]
      /\ logs'[logFile] = log
  BY <1>1, <1>2
<1>7. /\ logs'[logFile] \in LogType(issued') /\ logs'[logFile].synced <= Len(logs'[logFile].recs)
      /\ logs'[logFile].synced = logs[logFile].synced
      /\ Longer(logs[logFile], logs'[logFile])
      /\ logs'[logFile].torn \/ \E k \in 1..Len(logs'[logFile].recs) : logs'[logFile].recs[k] = record
  <2>1. issued' \in Nat
    BY <1>1, <1>2
  <2>2. QED
    BY <1>4, <1>5, <1>6, <2>1, AddedToLog
<1>8. TypeOK'
  <2>1. \A n \in DOMAIN logs' : logs'[n] \in LogType(issued') /\ logs'[n].synced <= Len(logs'[n].recs)
    BY <1>2, <1>3, <1>6, <1>7 DEF TypeOK
  <2>2. (vs \in VersionType)' /\ (opening \in OpeningType)'
    <3>1. 0..issued \subseteq 0..issued'
      BY <1>1, <1>2
    <3>2. (vs \in VersionType)'
      BY DEF VersionType
    <3>3. QED
      BY <1>1, <1>2, <3>1, <3>2 DEF OpeningType
  <2>3. acked \subseteq 1..issued' /\ issued' \in Nat
    BY <1>1, <1>2
  <2>4. mem \in SUBSET Records(issued') /\ imm \in SUBSET Records(issued')
    BY <1>2, <1>3 DEF TypeOK
  <2>5. QED
    BY <1>1, <1>2, <1>3, <1>4, <1>6, <2>1, <2>2, <2>3, <2>4 DEF TypeOK
<1>9. DiskInv'
  <2>1. ASSUME NEW from PROVE Grows(logs, logs', from)
    BY <1>6, <1>7 DEF Grows, Longer
  <2>2. EndsAreGood'
    <3>1. issued' \in Nat /\ issued <= issued'
      BY <1>1, <1>2
    <3>2. \A files : Keeps(tables, tables', files)
      BY <1>1, TablesStay
    <3>3. QED
      BY <1>1, <1>2, <2>1, <3>1, <3>2, EndsStay
  <2>3. QED
    BY <1>1, <1>2, <2>2 DEF DiskInv, UpInv
<1>10. Ends(manifests[current])' = Ends(manifests[current])
  BY <1>1 DEF Ends
<1>11. UpInv'
  <2>1. \A r : (\E k \in 1..Len(logs[logFile].recs) : logs[logFile].recs[k] = r) =>
               (\E k \in 1..Len(logs'[logFile].recs) : logs'[logFile].recs[k] = r)
    BY <1>7 DEF Longer
  <2>2. \A r : (\E k \in 1..logs[logFile].synced : logs[logFile].recs[k] = r) =>
               (\E k \in 1..logs'[logFile].synced : logs'[logFile].recs[k] = r)
    BY <1>7 DEF Longer
  <2>3. writing' # None => /\ writing'.id = issued' /\ issued' \notin acked
                           /\ \A r \in mem : r.id # issued'
                           /\ \/ logs'[logFile].torn
                              \/ \E k \in 1..Len(logs'[logFile].recs) : logs'[logFile].recs[k] = writing'
    <3>1. issued' \notin acked /\ \A r \in mem : r.id # issued'
      BY <1>1, <1>2 DEF TypeOK, Records
    <3>2. QED
      BY <1>4, <1>7, <3>1
  <2>4. \A r \in mem : r.id \in acked => \E k \in 1..Len(logs'[logFile].recs) : logs'[logFile].recs[k] = r
    BY <1>1, <1>2, <2>1 DEF UpInv
  <2>5. ~reuse => \A r \in mem : r.id \in durable =>
                     \E k \in 1..logs'[logFile].synced : logs'[logFile].recs[k] = r
    BY <1>1, <1>2, <2>2 DEF UpInv
  <2>6. \A id \in acked' : InSet(mem', id) \/ InSet(imm', id) \/ InTables(tables', vs'.files, id)
    BY <1>1, <1>2 DEF UpInv
  <2>7. Has(tables, vs.files, logs, vs.log, acked, Promised)'
    <3>1. Has(tables, vs.files, logs, vs.log, acked, Promised) /\ vs.files \subseteq DOMAIN tables
      BY <1>1, <1>2 DEF UpInv
    <3>2. Grows(logs, logs', vs.log)
      BY <1>6, <1>7 DEF Grows, Longer
    <3>3. Has(tables, vs.files, logs', vs.log, acked, Promised)
      BY <3>1, <3>2, TablesStay, HasStays
    <3>4. QED
      BY <1>1, <3>3 DEF Promised
  <2>8. QED
    BY <1>1, <1>2, <1>6, <1>10, <2>3, <2>4, <2>5, <2>6, <2>7 DEF UpInv
<1>12. FlushInv' /\ CompactionInv' /\ ManifestInv'
  BY <1>1, <1>2 DEF FlushInv, CompactionInv, ManifestInv, Settled, Logged, Final
<1>13. EditInv'
  <2>1. 0..issued \subseteq 0..issued'
    BY <1>1, <1>2
  <2>2. QED
    BY <1>1, <1>2, <1>10, <2>1 DEF EditInv
<1>14. WholeInv' /\ WorkInv'
  BY <1>1, WholeStays DEF IInv, WorkInv
<1>15. QED
  BY <1>1, <1>8, <1>9, <1>11, <1>12, <1>13, <1>14, WhenUp DEF IInv

LEMMA WriteToLogIInv == ASSUME IInv, WriteToLog PROVE IInv'
<1>1. /\ pc = "up" /\ pc' = "up" /\ ~bgError /\ writing = None /\ issued' = issued + 1
      /\ writing' = [seq |-> vs.last + 1, id |-> issued + 1]
      /\ UNCHANGED <<manifests, tables, current, vs, mem, imm, logFile, opening, flush, compaction,
                     applying, held, bgError, reuse, acked, durable, created, repaired>>
  BY DEF WriteToLog, MayWrite
<1>2. PICK log \in AddRecord(logs[logFile], writing') : logs' = [logs EXCEPT ![logFile] = log]
  BY DEF WriteToLog
<1>3. log \in Adds(logs[logFile], writing')
  BY DEF Adds
<1>4. vs \in [log : Nat, next : Nat, last : 0..issued', manifest : Nat, described : BOOLEAN, files : SUBSET Nat]
  <2>1. vs \in VersionType /\ issued \in Nat
    BY <1>1, UpIs
  <2>2. 0..issued \subseteq 0..issued'
    BY <1>1, <2>1
  <2>3. QED
    BY <2>1, <2>2 DEF VersionType
<1>5. QED
  BY <1>1, <1>2, <1>3, <1>4, AppendIInv

LEMMA AppendFailsIInv == ASSUME IInv, AppendFails PROVE IInv'
<1>. DEFINE record == [seq |-> vs.last + 1, id |-> issued + 1]
<1>1. /\ pc = "up" /\ pc' = "up" /\ ~bgError /\ writing = None /\ issued' = issued + 1
      /\ vs' = [vs EXCEPT !.last = @ + 1] /\ writing' = None
      /\ UNCHANGED <<manifests, tables, current, mem, imm, logFile, opening, flush, compaction,
                     applying, held, bgError, reuse, acked, durable, created, repaired>>
  BY DEF AppendFails, MayWrite, jobs
<1>2. PICK log \in Adds(logs[logFile], record) : logs' = [logs EXCEPT ![logFile] = log]
  BY DEF AppendFails, Adds
<1>3. vs \in VersionType /\ issued \in Nat /\ vs.last \in 0..issued
  BY <1>1, UpIs
<1>4. /\ vs' \in [log : Nat, next : Nat, last : 0..issued', manifest : Nat, described : BOOLEAN, files : SUBSET Nat]
      /\ vs'.log = vs.log /\ vs'.next = vs.next /\ vs'.files = vs.files /\ vs'.manifest = vs.manifest
  <2>1. vs.last + 1 \in 0..issued'
    BY <1>1, <1>3
  <2>2. QED
    BY <1>1, <1>3, <2>1 DEF VersionType
<1>5. writing' # record
  BY <1>1, <1>3, NoneAssumption, UpIs
<1>6. QED
  BY <1>1, <1>2, <1>4, <1>5, AppendIInv

LEMMA SyncFailsIInv == ASSUME IInv, pc = "up", SyncFails PROVE IInv'
<1>. USE DEF disk
<1>1. /\ writing # None /\ pc' = "up" /\ vs' = [vs EXCEPT !.last = writing.seq]
      /\ writing' = None /\ bgError' = TRUE
      /\ UNCHANGED <<disk, mem, imm, logFile, opening, flush, compaction, applying, held, reuse,
                     issued, acked, durable, created, repaired>>
  BY DEF SyncFails
<1>2. /\ TypeOK /\ DiskInv /\ EndsAreGood /\ UpInv /\ FlushInv /\ CompactionInv /\ ManifestInv /\ WorkInv /\ EditInv
      /\ vs \in VersionType /\ opening \in OpeningType /\ issued \in Nat
  BY UpIs
<1>3. writing \in Records(issued) /\ writing.seq \in 0..issued
  BY <1>1, <1>2 DEF TypeOK, Records
<1>4. /\ vs' \in VersionType /\ vs'.log = vs.log /\ vs'.files = vs.files /\ vs'.manifest = vs.manifest
      /\ vs'.next = vs.next
  BY <1>1, <1>2, <1>3 DEF VersionType
<1>5. TypeOK'
  BY <1>1, <1>2, <1>4 DEF TypeOK, VersionType, OpeningType
<1>6. DiskInv'
  BY <1>1, <1>2 DEF DiskInv, EndsAreGood, Ends, Promised
<1>7. UpInv'
  BY <1>1, <1>2, <1>4 DEF UpInv, Ends, Promised
<1>8. FlushInv' /\ CompactionInv' /\ ManifestInv' /\ EditInv'
  BY <1>1, <1>2, <1>4 DEF FlushInv, CompactionInv, ManifestInv, EditInv, Ends
<1>9. WholeInv' /\ WorkInv'
  <2>1. Working' => Working
    BY <1>1 DEF Working
  <2>2. QED
    BY <1>1, <1>2, <1>4, <2>1, WorkGoesOn, WholeStays DEF IInv, WorkInv
<1>10. QED
  BY <1>1, <1>5, <1>6, <1>7, <1>8, <1>9, WhenUp DEF IInv


LEMMA WriteReturnsIInv == ASSUME IInv, NEW sync \in BOOLEAN, pc = "up", WriteReturns(sync) PROVE IInv'
<1>1. /\ writing # None /\ pc' = "up"
      /\ logs' = IF sync THEN [logs EXCEPT ![logFile] = Synced(@)] ELSE logs
      /\ mem' = mem \union {writing} /\ vs' = [vs EXCEPT !.last = writing.seq]
      /\ logs[logFile].torn => acked' = acked /\ durable' = durable
      /\ ~logs[logFile].torn => /\ acked' = acked \union {writing.id}
                                /\ durable' = IF sync THEN durable \union {writing.id} ELSE durable
      /\ writing' = None
      /\ UNCHANGED <<manifests, tables, current, imm, logFile, opening, flush, compaction, applying,
                     held, bgError, reuse, issued, created, repaired>>
  BY DEF WriteReturns
<1>2. /\ TypeOK /\ DiskInv /\ EndsAreGood /\ UpInv /\ FlushInv /\ CompactionInv /\ ManifestInv /\ WorkInv /\ EditInv
      /\ vs \in VersionType /\ vs.last \in 0..issued /\ opening \in OpeningType /\ issued \in Nat
      /\ logFile \in DOMAIN logs /\ DOMAIN logs \subseteq Nat /\ acked \subseteq 1..issued /\ durable \subseteq acked
      /\ logFile \in Nat
  BY UpIs DEF TypeOK
<1>3. writing \in Records(issued) /\ writing.id = issued /\ issued \notin acked /\ writing.seq \in 1..issued
      /\ issued \in 1..issued
  BY <1>1, <1>2 DEF TypeOK, UpInv, Records
<1>4. logs[logFile] \in LogType(issued) /\ logs[logFile].synced <= Len(logs[logFile].recs)
  BY <1>2 DEF TypeOK
<1>5. /\ DOMAIN logs' = DOMAIN logs /\ \A n \in DOMAIN logs : n # logFile => logs'[n] = logs[n]
      /\ logs'[logFile] = IF sync THEN Synced(logs[logFile]) ELSE logs[logFile]
  BY <1>1, <1>2
<1>6. /\ logs'[logFile] \in LogType(issued) /\ logs'[logFile].recs = logs[logFile].recs
      /\ logs'[logFile].synced = IF sync THEN Len(logs[logFile].recs) ELSE logs[logFile].synced
      /\ Len(logs[logFile].recs) \in Nat /\ logs[logFile].synced \in Nat
  BY <1>4, <1>5 DEF Synced, LogType
<1>7. Longer(logs[logFile], logs'[logFile])
  BY <1>4, <1>6 DEF Longer
<1>8. vs' \in VersionType /\ vs'.log = vs.log /\ vs'.files = vs.files /\ vs'.manifest = vs.manifest /\ vs'.next = vs.next
  BY <1>1, <1>2, <1>3 DEF VersionType
<1>9. TypeOK'
  <2>1. \A n \in DOMAIN logs' : logs'[n] \in LogType(issued) /\ logs'[n].synced <= Len(logs'[n].recs)
    BY <1>2, <1>4, <1>5, <1>6 DEF TypeOK
  <2>2. (vs \in VersionType)' /\ (opening \in OpeningType)'
    BY <1>1, <1>2, <1>8 DEF VersionType, OpeningType
  <2>3. mem' \in SUBSET Records(issued)
    BY <1>1, <1>2, <1>3 DEF TypeOK
  <2>4. durable' \subseteq acked' /\ acked' \subseteq 1..issued
    BY <1>1, <1>2, <1>3
  <2>5. QED
    BY <1>1, <1>2, <1>5, <2>1, <2>2, <2>3, <2>4 DEF TypeOK
<1>10. Ends(manifests[current])' = Ends(manifests[current])
  BY <1>1 DEF Ends
<1>11. EndsAreGood'
  <2>1. ASSUME NEW n \in Ends(manifests[current])
        PROVE  Good(manifests[current].recs[n], FilesAfter(manifests[current].recs, n), tables, logs',
                    current, issued, acked', Promised')
    <3>. DEFINE e == manifests[current].recs[n]
                files == FilesAfter(manifests[current].recs, n)
    <3>1. Good(e, files, tables, logs, current, issued, acked, Promised)
      BY <1>2 DEF EndsAreGood
    <3>2. Grows(logs, logs', e.log)
      BY <1>5, <1>7 DEF Grows, Longer
    <3>3. Good(e, files, tables, logs', current, issued, acked, Promised)
      BY <1>2, <3>1, <3>2, TablesStay, GoodStays
    <3>4. logFile >= e.log /\ logFile \in DOMAIN logs'
      <4>1. e.log <= logFile /\ e.log \in Nat
        BY <1>2, <3>1 DEF UpInv, Good
      <4>2. QED
        BY <1>2, <1>5, <4>1
    <3>5. ~logs[logFile].torn => \E k \in 1..Len(logs[logFile].recs) : logs[logFile].recs[k] = writing
      BY <1>1, <1>2 DEF UpInv
    <3>6. ~logs[logFile].torn => InLogs(logs', e.log, writing.id)
      BY <1>6, <3>4, <3>5 DEF InLogs
    <3>7. ~logs[logFile].torn /\ sync => InSynced(logs', e.log, writing.id)
      BY <1>6, <3>4, <3>5 DEF InSynced
    <3>8. /\ Promised' \subseteq IF sync /\ ~logs[logFile].torn THEN Promised \union {writing.id} ELSE Promised
          /\ acked' \subseteq IF ~logs[logFile].torn THEN acked \union {writing.id} ELSE acked
      BY <1>1 DEF Promised
    <3>. HIDE DEF e, files
    <3>9. \A id \in acked' : InTables(tables, files, id) \/ InLogs(logs', e.log, id)
      BY <1>1, <3>3, <3>6, <3>8 DEF Good
    <3>10. \A id \in Promised' : InTables(tables, files, id) \/ InSynced(logs', e.log, id)
      BY <1>1, <3>3, <3>7, <3>8 DEF Good
    <3>11. Good(e, files, tables, logs', current, issued, acked', Promised')
      BY <3>3, <3>9, <3>10 DEF Good
    <3>12. QED
      BY <3>11 DEF e, files
  <2>2. QED
    BY <1>1, <1>2, <1>10, <2>1 DEF EndsAreGood
<1>12. DiskInv'
  BY <1>1, <1>2, <1>11 DEF DiskInv, UpInv
<1>13. UpInv'
  <2>1. ~logs[logFile].torn => \E k \in 1..Len(logs[logFile].recs) : logs[logFile].recs[k] = writing
    BY <1>1, <1>2 DEF UpInv
  <2>2. \A r \in mem' : r.id \in acked' => \E k \in 1..Len(logs'[logFile].recs) : logs'[logFile].recs[k] = r
    <3>1. ASSUME NEW r \in mem', r.id \in acked'
          PROVE  \E k \in 1..Len(logs[logFile].recs) : logs[logFile].recs[k] = r
      <4>1. CASE r = writing
        BY <1>1, <1>3, <2>1, <3>1, <4>1
      <4>2. CASE r # writing /\ r.id \in acked
        BY <1>1, <1>2, <4>2 DEF UpInv
      <4>3. CASE r # writing /\ r.id = issued
        <5>1. r \in mem
          BY <1>1, <4>3
        <5>2. QED
          BY <1>1, <1>2, <4>3, <5>1 DEF UpInv
      <4>4. QED
        BY <1>1, <1>3, <3>1, <4>1, <4>2, <4>3
    <3>2. QED
      BY <1>6, <3>1
  <2>3. ~reuse => \A r \in mem' : r.id \in durable' =>
                     \E k \in 1..logs'[logFile].synced : logs'[logFile].recs[k] = r
    <3>. SUFFICES ASSUME ~reuse, NEW r \in mem', r.id \in durable'
                  PROVE  \E k \in 1..logs'[logFile].synced : logs'[logFile].recs[k] = r
      OBVIOUS
    <3>1. CASE sync
      <4>1. r.id \in acked'
        BY <1>1, <1>2
      <4>2. QED
        BY <1>6, <2>2, <3>1, <4>1
    <3>2. CASE ~sync
      <4>1. r \in mem /\ r.id \in durable
        BY <1>1, <1>2, <1>3, <3>2
      <4>2. QED
        BY <1>2, <1>6, <3>2, <4>1 DEF UpInv
    <3>3. QED
      BY <3>1, <3>2
  <2>4. \A id \in acked' : InSet(mem', id) \/ InSet(imm', id) \/ InTables(tables', vs'.files, id)
    <3>1. ASSUME NEW id \in acked
          PROVE  InSet(mem', id) \/ InSet(imm', id) \/ InTables(tables', vs'.files, id)
      <4>1. InSet(mem, id) \/ InSet(imm, id) \/ InTables(tables, vs.files, id)
        BY <1>2, <1>1 DEF UpInv
      <4>2. InSet(mem, id) => InSet(mem', id)
        BY <1>1 DEF InSet
      <4>3. QED
        BY <1>1, <1>8, <4>1, <4>2
    <3>2. InSet(mem', writing.id) /\ acked' \subseteq acked \union {writing.id}
      BY <1>1 DEF InSet
    <3>3. QED
      BY <1>1, <3>1, <3>2
  <2>5. /\ current' # 0 /\ created' /\ vs'.manifest = current' /\ vs'.manifest < vs'.next /\ vs'.log <= logFile'
        /\ logFile' < vs'.next /\ logFile' \in DOMAIN logs' /\ \A n \in DOMAIN logs' : n < vs'.next
    BY <1>1, <1>2, <1>5, <1>8 DEF UpInv
  <2>6. \A n \in Ends(manifests[current])' : /\ manifests'[current'].recs[n].next <= vs'.next
                                             /\ manifests'[current'].recs[n].log <= logFile'
    BY <1>1, <1>2, <1>8, <1>10 DEF UpInv
  <2>7. \A t \in vs'.files \union held' : t \in DOMAIN tables' /\ tables'[t].ok /\ t < vs'.next
    BY <1>1, <1>2, <1>8 DEF UpInv
  <2>8. logFile' = logFile /\ reuse' = reuse /\ writing' = None
    BY <1>1
  <2>9. Has(tables, vs.files, logs, vs.log, acked, Promised)'
    <3>1. Has(tables, vs.files, logs, vs.log, acked, Promised) /\ vs.files \subseteq DOMAIN tables
      BY <1>2 DEF UpInv
    <3>2. Grows(logs, logs', vs.log)
      BY <1>5, <1>7 DEF Grows, Longer
    <3>3. Has(tables, vs.files, logs', vs.log, acked, Promised)
      BY <3>1, <3>2, TablesStay, HasStays
    <3>4. logFile >= vs.log /\ logFile \in DOMAIN logs'
      BY <1>2, <1>5 DEF UpInv, VersionType
    <3>5. ~logs[logFile].torn => \E k \in 1..Len(logs[logFile].recs) : logs[logFile].recs[k] = writing
      BY <1>1, <1>2 DEF UpInv
    <3>6. ~logs[logFile].torn => InLogs(logs', vs.log, writing.id)
      BY <1>6, <3>4, <3>5 DEF InLogs
    <3>7. ~logs[logFile].torn /\ sync => InSynced(logs', vs.log, writing.id)
      BY <1>6, <3>4, <3>5 DEF InSynced
    <3>8. /\ Promised' \subseteq IF sync /\ ~logs[logFile].torn THEN Promised \union {writing.id} ELSE Promised
          /\ acked' \subseteq IF ~logs[logFile].torn THEN acked \union {writing.id} ELSE acked
      BY <1>1 DEF Promised
    <3>9. Has(tables, vs.files, logs', vs.log, acked', Promised')
      BY <3>3, <3>6, <3>7, <3>8 DEF Has
    <3>10. QED
      BY <1>1, <1>8, <3>9
  <2>10. QED
    BY <2>2, <2>3, <2>4, <2>5, <2>6, <2>7, <2>8, <2>9 DEF UpInv
<1>14. FlushInv' /\ CompactionInv' /\ ManifestInv' /\ EditInv'
  BY <1>1, <1>2, <1>8, <1>10 DEF FlushInv, CompactionInv, ManifestInv, EditInv, Settled, Logged, Final
<1>15. WholeInv' /\ WorkInv'
  <2>1. Working' => Working
    BY <1>1 DEF Working
  <2>2. QED
    BY <1>1, <1>2, <1>8, <2>1, WorkGoesOn, WholeStays DEF IInv, WorkInv
<1>16. QED
  BY <1>1, <1>9, <1>12, <1>13, <1>14, <1>15, WhenUp DEF IInv

(* A file number is taken.                                                  *)
LEMMA NumberTaken ==
  ASSUME vs \in VersionType, vs' = [vs EXCEPT !.next = @ + 1], issued' = issued
  PROVE  /\ (vs \in VersionType)' /\ vs'.log = vs.log /\ vs'.files = vs.files /\ vs'.manifest = vs.manifest
         /\ vs'.next = vs.next + 1 /\ vs'.last = vs.last
  BY DEF VersionType

LEMMA SwitchMemTableIInv == ASSUME IInv, SwitchMemTable PROVE IInv'
<1>. USE DEF jobs, history
<1>1. /\ pc = "up" /\ pc' = "up" /\ ~bgError /\ writing = None /\ imm = {}
      /\ logs' = With(logs, vs.next, NewLog) /\ logFile' = vs.next
      /\ vs' = [vs EXCEPT !.next = @ + 1] /\ imm' = mem /\ mem' = {}
      /\ UNCHANGED <<manifests, tables, current, opening, jobs, bgError, reuse, history>>
  BY DEF SwitchMemTable
<1>2. /\ TypeOK /\ DiskInv /\ EndsAreGood /\ UpInv /\ FlushInv /\ CompactionInv /\ ManifestInv /\ WorkInv /\ EditInv
      /\ vs \in VersionType /\ vs.next \in Nat \ {0} /\ opening \in OpeningType /\ issued \in Nat
      /\ logFile \in Nat /\ vs.log \in Nat /\ vs.manifest \in Nat /\ DOMAIN logs \subseteq Nat
      /\ vs.files \in SUBSET Nat /\ DOMAIN tables \subseteq Nat
  BY <1>1, UpIs
<1>3. /\ (vs \in VersionType)' /\ vs'.log = vs.log /\ vs'.files = vs.files /\ vs'.manifest = vs.manifest
      /\ vs'.next = vs.next + 1 /\ vs'.last = vs.last
  BY <1>1, <1>2, NumberTaken
<1>4. vs.next \notin DOMAIN logs /\ \A m \in DOMAIN logs : m < vs.next
  BY <1>1, <1>2 DEF UpInv
<1>5. /\ DOMAIN logs' = DOMAIN logs \union {vs.next} /\ logs'[vs.next] = NewLog
      /\ \A m \in DOMAIN logs : logs'[m] = logs[m]
  BY <1>1, <1>4 DEF With, Joined
<1>6. NewLog \in LogType(issued) /\ NewLog.synced = 0 /\ 0 <= Len(NewLog.recs)
  BY DEF NewLog, LogType
<1>7. TypeOK'
  <2>1. IsBounded(DOMAIN logs')
    BY <1>2, <1>5, BoundedGrows DEF TypeOK
  <2>2. \A n \in DOMAIN logs' : logs'[n] \in LogType(issued) /\ logs'[n].synced <= Len(logs'[n].recs)
    BY <1>2, <1>5, <1>6 DEF TypeOK
  <2>3. (opening \in OpeningType)' /\ logFile' \in Nat
    BY <1>1, <1>2 DEF OpeningType
  <2>4. QED
    BY <1>1, <1>2, <1>3, <2>1, <2>2, <2>3 DEF TypeOK
<1>8. DiskInv'
  <2>1. ASSUME NEW from PROVE Grows(logs, logs', from)
    BY <1>1, <1>4, NewLogGrows
  <2>2. \A files : Keeps(tables, tables', files)
    BY <1>1, TablesStay
  <2>3. EndsAreGood'
    BY <1>1, <1>2, <2>1, <2>2, EndsStay
  <2>4. QED
    BY <1>1, <1>2, <2>3 DEF DiskInv, UpInv
<1>9. \A n \in Ends(manifests[current]) : manifests[current].recs[n].next \in Nat /\ manifests[current].recs[n].log \in Nat
  BY <1>2 DEF EndsAreGood, Good
<1>10. Ends(manifests[current])' = Ends(manifests[current])
  BY <1>1 DEF Ends
<1>11. UpInv'
  <2>1. \A n \in Ends(manifests[current])' : /\ manifests'[current'].recs[n].next <= vs'.next
                                             /\ manifests'[current'].recs[n].log <= logFile'
    <3>1. ASSUME NEW n \in Ends(manifests[current])
          PROVE  manifests[current].recs[n].next <= vs.next + 1 /\ manifests[current].recs[n].log <= vs.next
      <4>1. manifests[current].recs[n].next <= vs.next /\ manifests[current].recs[n].log <= logFile /\ logFile < vs.next
        BY <1>1, <1>2 DEF UpInv
      <4>2. QED
        BY <1>2, <1>9, <4>1
    <3>2. QED
      BY <1>1, <1>3, <1>10, <3>1
  <2>2. \A t \in vs.files \union held : t \in DOMAIN tables /\ tables[t].ok /\ t < vs.next
    BY <1>1, <1>2 DEF UpInv
  <2>3. \A t \in vs'.files \union held' : t \in DOMAIN tables' /\ tables'[t].ok /\ t < vs'.next
    BY <1>1, <1>2, <1>3, <2>2
  <2>4. \A id \in acked' : InSet(imm', id) \/ InTables(tables', vs'.files, id)
    BY <1>1, <1>2, <1>3 DEF UpInv, InSet
  <2>5. \A m \in DOMAIN logs' : m < vs'.next
    BY <1>2, <1>3, <1>4, <1>5
  <2>6. /\ current' # 0 /\ created' /\ vs'.manifest = current' /\ vs'.manifest < vs'.next /\ vs'.log <= logFile'
        /\ logFile' < vs'.next /\ logFile' \in DOMAIN logs' /\ mem' = {} /\ writing' = None
    BY <1>1, <1>2, <1>3, <1>5 DEF UpInv
  <2>7. Has(tables, vs.files, logs, vs.log, acked, Promised)'
    <3>1. Has(tables, vs.files, logs, vs.log, acked, Promised) /\ vs.files \subseteq DOMAIN tables
      BY <1>1, <1>2 DEF UpInv
    <3>2. Grows(logs, logs', vs.log)
      BY <1>1, <1>4, NewLogGrows
    <3>3. Has(tables, vs.files, logs', vs.log, acked, Promised)
      BY <3>1, <3>2, TablesStay, HasStays
    <3>4. QED
      BY <1>1, <1>3, <3>3 DEF Promised
  <2>8. QED
    BY <2>1, <2>3, <2>4, <2>5, <2>6, <2>7 DEF UpInv
<1>12. FlushInv'
  BY <1>1, <1>2, <1>3 DEF FlushInv
<1>13. CompactionInv'
  BY <1>1, <1>2, <1>3 DEF CompactionInv, TypeOK
<1>14. ManifestInv'
  BY <1>1, <1>2, <1>3 DEF ManifestInv, Settled, Logged, Final
<1>15. EditInv'
  BY <1>1, <1>2, <1>3, <1>10 DEF EditInv
<1>16. WholeInv' /\ WorkInv'
  BY <1>1, WholeStays DEF IInv, WorkInv
<1>17. QED
  BY <1>1, <1>7, <1>8, <1>11, <1>12, <1>13, <1>14, <1>15, <1>16, WhenUp DEF IInv

LEMMA NewIteratorIInv == ASSUME IInv, NewIterator PROVE IInv'
<1>. USE DEF history, disk
<1>1. /\ pc = "up" /\ pc' = "up" /\ held' = vs.files
      /\ UNCHANGED <<disk, vs, mem, imm, logFile, opening, writing, flush, compaction, applying, bgError,
                     reuse, history>>
  BY DEF NewIterator
<1>2. /\ TypeOK /\ DiskInv /\ EndsAreGood /\ UpInv /\ FlushInv /\ CompactionInv /\ ManifestInv /\ WorkInv /\ EditInv
      /\ vs.files \in SUBSET Nat
  BY <1>1, UpIs
<1>3. TypeOK'
  BY <1>1, <1>2 DEF TypeOK, VersionType, OpeningType
<1>4. DiskInv'
  BY <1>1, <1>2 DEF DiskInv, EndsAreGood, Ends, Promised
<1>5. Ends(manifests[current])' = Ends(manifests[current])
  BY <1>1 DEF Ends
<1>6. UpInv'
  BY <1>1, <1>2, <1>5 DEF UpInv, InSet, InTables, Has, InLogs, InSynced, Promised
<1>7. FlushInv' /\ CompactionInv' /\ ManifestInv' /\ EditInv'
  BY <1>1, <1>2, <1>5 DEF FlushInv, CompactionInv, ManifestInv, EditInv, Settled, Logged, Final
<1>8. WholeInv' /\ WorkInv'
  BY <1>1, WholeStays DEF IInv, WorkInv, Working, Settled, Logged, Final
<1>9. QED
  BY <1>1, <1>3, <1>4, <1>6, <1>7, <1>8, WhenUp DEF IInv

LEMMA DeleteIteratorIInv == ASSUME IInv, DeleteIterator PROVE IInv'
<1>. USE DEF history, disk
<1>1. /\ pc = "up" /\ pc' = "up" /\ held' = {}
      /\ UNCHANGED <<disk, vs, mem, imm, logFile, opening, writing, flush, compaction, applying, bgError,
                     reuse, history>>
  BY DEF DeleteIterator, IInv, OnlyUp, Quiet
<1>2. /\ TypeOK /\ DiskInv /\ EndsAreGood /\ UpInv /\ FlushInv /\ CompactionInv /\ ManifestInv /\ WorkInv /\ EditInv
  BY <1>1, UpIs
<1>3. TypeOK'
  BY <1>1, <1>2 DEF TypeOK, VersionType, OpeningType
<1>4. DiskInv'
  BY <1>1, <1>2 DEF DiskInv, EndsAreGood, Ends, Promised
<1>5. Ends(manifests[current])' = Ends(manifests[current])
  BY <1>1 DEF Ends
<1>6. UpInv'
  BY <1>1, <1>2, <1>5 DEF UpInv, InSet, InTables, Has, InLogs, InSynced, Promised
<1>7. FlushInv' /\ CompactionInv' /\ ManifestInv' /\ EditInv'
  BY <1>1, <1>2, <1>5 DEF FlushInv, CompactionInv, ManifestInv, EditInv, Settled, Logged, Final
<1>8. WholeInv' /\ WorkInv'
  BY <1>1, WholeStays DEF IInv, WorkInv, Working, Settled, Logged, Final
<1>9. QED
  BY <1>1, <1>3, <1>4, <1>6, <1>7, <1>8, WhenUp DEF IInv

(* Tables change that no version has: what they hold does not matter.       *)
SameButTables ==
  /\ UNCHANGED <<logs, manifests, current, mem, imm, logFile, opening, writing, held, reuse, issued,
                 acked, durable, created, repaired>>
  /\ (vs \in VersionType)' /\ vs'.log = vs.log /\ vs'.files = vs.files /\ vs'.manifest = vs.manifest
  /\ vs.next <= vs'.next

LEMMA OtherTables ==
  ASSUME IInv, pc = "up", SameButTables,
         \A t \in vs.files \union held : t \in DOMAIN tables' /\ tables'[t] = tables[t],
         \A n \in Ends(manifests[current]) : Keeps(tables, tables', FilesAfter(manifests[current].recs, n))
  PROVE  DiskInv' /\ UpInv' /\ Ends(manifests[current])' = Ends(manifests[current])
<1>. USE DEF SameButTables
<1>1. /\ TypeOK /\ DiskInv /\ EndsAreGood /\ UpInv
      /\ vs \in VersionType /\ vs.next \in Nat \ {0} /\ vs'.next \in Nat /\ issued \in Nat
      /\ logFile \in Nat /\ vs.log \in Nat /\ vs.manifest \in Nat /\ DOMAIN logs \subseteq Nat
      /\ vs.files \in SUBSET Nat /\ DOMAIN tables \subseteq Nat /\ current # 0
  BY UpIs DEF VersionType
<1>2. Ends(manifests[current])' = Ends(manifests[current])
  BY DEF Ends
<1>3. DiskInv'
  <2>1. \A from : Grows(logs, logs', from)
    BY LogsStay
  <2>2. issued' = issued /\ issued <= issued'
    BY <1>1
  <2>3. manifests'[current] = manifests[current]
    OBVIOUS
  <2>4. EndsAreGood'
    BY <1>1, <2>1, <2>2, <2>3, EndsStay
  <2>5. QED
    BY <1>1, <2>4 DEF DiskInv
<1>4. UpInv'
  <2>1. \A n \in Ends(manifests[current])' : /\ manifests'[current'].recs[n].next <= vs'.next
                                             /\ manifests'[current'].recs[n].log <= logFile'
    <3>1. \A n \in Ends(manifests[current]) : manifests[current].recs[n].next \in Nat
      BY <1>1 DEF EndsAreGood, Good
    <3>2. ASSUME NEW n \in Ends(manifests[current])
          PROVE  manifests[current].recs[n].next <= vs'.next /\ manifests[current].recs[n].log <= logFile
      <4>1. manifests[current].recs[n].next <= vs.next /\ manifests[current].recs[n].log <= logFile
        BY <1>1 DEF UpInv
      <4>2. QED
        BY <1>1, <3>1, <4>1
    <3>3. QED
      BY <1>2, <3>2
  <2>2. \A t \in vs'.files \union held' : t \in DOMAIN tables' /\ tables'[t].ok /\ t < vs'.next
    <3>1. \A t \in vs.files \union held : t \in DOMAIN tables /\ tables[t].ok /\ t < vs.next
      BY <1>1 DEF UpInv
    <3>2. QED
      BY <1>1, <3>1
  <2>3. \A id : InTables(tables, vs.files, id) => InTables(tables', vs'.files, id)
    <3>1. ASSUME NEW id, InTables(tables, vs.files, id) PROVE InTables(tables', vs.files, id)
      <4>1. PICK t \in vs.files : \E r \in tables[t].recs : r.id = id
        BY <3>1 DEF InTables
      <4>2. tables'[t] = tables[t]
        OBVIOUS
      <4>3. QED
        BY <4>1, <4>2 DEF InTables
    <3>2. QED
      BY <3>1
  <2>4. \A id \in acked' : InSet(mem', id) \/ InSet(imm', id) \/ InTables(tables', vs'.files, id)
    BY <1>1, <2>3 DEF UpInv
  <2>5. /\ current' # 0 /\ created' /\ vs'.manifest = current' /\ vs'.manifest < vs'.next /\ vs'.log <= logFile'
        /\ logFile' < vs'.next /\ logFile' \in DOMAIN logs'
    BY <1>1 DEF UpInv
  <2>6. \A m \in DOMAIN logs' : m < vs'.next
    <3>1. \A m \in DOMAIN logs : m < vs.next
      BY <1>1 DEF UpInv
    <3>2. QED
      BY <1>1, <3>1
  <2>7. Has(tables, vs.files, logs, vs.log, acked, Promised)'
    <3>1. Has(tables, vs.files, logs, vs.log, acked, Promised) /\ vs.files \subseteq DOMAIN tables
      BY <1>1 DEF UpInv
    <3>2. Keeps(tables, tables', vs.files)
      BY DEF Keeps
    <3>3. Has(tables', vs.files, logs, vs.log, acked, Promised)
      BY <3>1, <3>2, LogsStay, HasStays
    <3>4. QED
      BY <3>3 DEF Promised
  <2>8. /\ \A r \in mem' : r.id \in acked' => \E k \in 1..Len(logs'[logFile].recs) : logs'[logFile].recs[k] = r
        /\ writing' # None => /\ writing'.id = issued' /\ issued' \notin acked' /\ \A r \in mem' : r.id # issued'
                              /\ \/ logs'[logFile].torn
                                 \/ \E k \in 1..Len(logs'[logFile].recs) : logs'[logFile].recs[k] = writing'
        /\ ~reuse' => \A r \in mem' : r.id \in durable' =>
                        \E k \in 1..logs'[logFile].synced : logs'[logFile].recs[k] = r
    BY <1>1 DEF UpInv
  <2>9. QED
    BY <2>1, <2>2, <2>4, <2>5, <2>6, <2>7, <2>8 DEF UpInv
<1>5. QED
  BY <1>2, <1>3, <1>4

(* A table that is being built is in no version.                            *)
LEMMA UnfinishedTable ==
  ASSUME EndsAreGood, NEW n, ~tables[n].ok,
         \A t \in DOMAIN tables : t # n => t \in DOMAIN tables' /\ tables'[t] = tables[t]
  PROVE  \A m \in Ends(manifests[current]) : Keeps(tables, tables', FilesAfter(manifests[current].recs, m))
  BY DEF EndsAreGood, Good, Keeps

LEMMA NewTableUp ==
  ASSUME IInv, pc = "up", vs' = [vs EXCEPT !.next = @ + 1],
         tables' = With(tables, vs.next, [recs |-> {}, ok |-> FALSE]),
         UNCHANGED <<logs, manifests, current, mem, imm, logFile, opening, writing, held, reuse, issued,
                     acked, durable, created, repaired>>
  PROVE  /\ DiskTypes' /\ (vs \in VersionType)' /\ (opening \in OpeningType)' /\ DiskInv' /\ UpInv'
         /\ Ends(manifests[current])' = Ends(manifests[current])
         /\ vs'.log = vs.log /\ vs'.files = vs.files /\ vs'.manifest = vs.manifest /\ vs'.next = vs.next + 1
         /\ DOMAIN tables' = DOMAIN tables \union {vs.next}
         /\ \A t \in vs.files \union held : t # vs.next
<1>1. /\ TypeOK /\ DiskInv /\ EndsAreGood /\ UpInv
      /\ vs \in VersionType /\ vs.next \in Nat \ {0} /\ issued \in Nat /\ opening \in OpeningType
      /\ vs.files \in SUBSET Nat
  BY UpIs
<1>2. /\ (vs \in VersionType)' /\ vs'.log = vs.log /\ vs'.files = vs.files /\ vs'.manifest = vs.manifest
      /\ vs'.next = vs.next + 1 /\ vs'.last = vs.last
  BY <1>1, NumberTaken
<1>3. /\ DOMAIN tables' = DOMAIN tables \union {vs.next} /\ tables'[vs.next] = [recs |-> {}, ok |-> FALSE]
      /\ \A t \in DOMAIN tables : t # vs.next => tables'[t] = tables[t]
  BY DEF With, Joined
<1>4. DiskTypes'
  <2>1. IsBounded(DOMAIN tables')
    BY <1>1, <1>3, BoundedGrows DEF TypeOK
  <2>2. \A n \in DOMAIN tables' : tables'[n] \in TableType(issued)
    <3>1. [recs |-> {}, ok |-> FALSE] \in TableType(issued)
      BY DEF TableType
    <3>2. \A n \in DOMAIN tables : tables[n] \in TableType(issued)
      BY <1>1 DEF TypeOK
    <3>3. QED
      BY <1>3, <3>1, <3>2
  <2>3. logs' = logs /\ manifests' = manifests /\ issued' = issued
    OBVIOUS
  <2>4. /\ IsBounded(DOMAIN logs)
        /\ \A n \in DOMAIN logs : logs[n] \in LogType(issued) /\ logs[n].synced <= Len(logs[n].recs)
        /\ \A n \in DOMAIN manifests : manifests[n] \in ManifestType /\ manifests[n].synced <= Len(manifests[n].recs)
    BY <1>1 DEF TypeOK
  <2>5. QED
    BY <2>1, <2>2, <2>3, <2>4 DEF DiskTypes
<1>5. \A t \in vs.files \union held : t \in DOMAIN tables /\ t < vs.next
  BY <1>1 DEF UpInv
<1>6. \A t \in vs.files \union held : t # vs.next
  BY <1>1, <1>5
<1>7. \A t \in vs.files \union held : t \in DOMAIN tables' /\ tables'[t] = tables[t]
  BY <1>3, <1>5, <1>6
<1>8. \A n \in Ends(manifests[current]) : manifests[current].recs[n].next <= vs.next
  BY <1>1 DEF UpInv
<1>9. \A n \in Ends(manifests[current]) : Keeps(tables, tables', FilesAfter(manifests[current].recs, n))
  BY <1>1, <1>8, NewTableKeeps
<1>10. SameButTables
  BY <1>1, <1>2 DEF SameButTables
<1>11. DiskInv' /\ UpInv' /\ Ends(manifests[current])' = Ends(manifests[current])
  BY <1>7, <1>9, <1>10, OtherTables
<1>12. (opening \in OpeningType)'
  BY <1>1 DEF OpeningType
<1>13. QED
  BY <1>2, <1>3, <1>4, <1>6, <1>11, <1>12

LEMMA StartFlushIInv == ASSUME IInv, StartFlush PROVE IInv'
<1>. USE DEF history
<1>1. /\ pc = "up" /\ pc' = "up" /\ (~bgError \/ compaction # None)
      /\ flush = None /\ applying = None /\ imm # {}
      /\ flush' = vs.next /\ vs' = [vs EXCEPT !.next = @ + 1]
      /\ tables' = With(tables, vs.next, [recs |-> {}, ok |-> FALSE])
      /\ UNCHANGED <<logs, manifests, current, mem, imm, logFile, opening, writing, compaction, applying,
                     held, bgError, reuse, issued, acked, durable, created, repaired>>
  BY DEF StartFlush, Idle
<1>2. /\ DiskTypes' /\ (vs \in VersionType)' /\ (opening \in OpeningType)' /\ DiskInv' /\ UpInv'
      /\ Ends(manifests[current])' = Ends(manifests[current])
      /\ vs'.log = vs.log /\ vs'.files = vs.files /\ vs'.manifest = vs.manifest /\ vs'.next = vs.next + 1
      /\ DOMAIN tables' = DOMAIN tables \union {vs.next}
      /\ \A t \in vs.files \union held : t # vs.next
  BY <1>1, NewTableUp
<1>3. TypeOK /\ CompactionInv /\ ManifestInv /\ WorkInv /\ vs.next \in Nat
  BY <1>1, UpIs
<1>4. TypeOK'
  BY <1>1, <1>2, <1>3 DEF TypeOK, DiskTypes
<1>5. compaction # None => compaction.out < vs.next /\ compaction.out \in Nat
  BY <1>1, <1>3 DEF CompactionInv, TypeOK
<1>6. FlushInv'
  BY <1>1, <1>2, <1>3, <1>5 DEF FlushInv, With, Joined
<1>7. CompactionInv'
  BY <1>1, <1>2, <1>3, <1>5 DEF CompactionInv, With, Joined
<1>8. ManifestInv' /\ EditInv'
  BY <1>1, <1>2, <1>3 DEF ManifestInv, EditInv, Settled, Logged, Final
<1>9. WholeInv' /\ WorkInv'
  <2>1. bgError => Working
    BY <1>1 DEF Working
  <2>2. (bgError' <=> bgError) /\ (~bgError' => WorkInv')
    BY <1>1 DEF WorkInv
  <2>3. QED
    BY <1>1, <1>2, <1>3, <2>1, <2>2, WorkGoesOn, WholeStays DEF IInv
<1>10. QED
  BY <1>1, <1>2, <1>4, <1>6, <1>7, <1>8, <1>9, WhenUp DEF IInv

LEMMA StartCompactionIInv == ASSUME IInv, StartCompaction PROVE IInv'
<1>. USE DEF history
<1>1. /\ pc = "up" /\ pc' = "up" /\ ~bgError /\ flush = None /\ applying = None
      /\ vs' = [vs EXCEPT !.next = @ + 1]
      /\ tables' = With(tables, vs.next, [recs |-> {}, ok |-> FALSE])
      /\ UNCHANGED <<logs, manifests, current, mem, imm, logFile, opening, writing, flush, applying,
                     held, bgError, reuse, issued, acked, durable, created, repaired>>
  BY DEF StartCompaction, Idle
<1>2. PICK inputs \in SUBSET vs.files : compaction' = [inputs |-> inputs, out |-> vs.next]
  BY DEF StartCompaction
<1>3. /\ DiskTypes' /\ (vs \in VersionType)' /\ (opening \in OpeningType)' /\ DiskInv' /\ UpInv'
      /\ Ends(manifests[current])' = Ends(manifests[current])
      /\ vs'.log = vs.log /\ vs'.files = vs.files /\ vs'.manifest = vs.manifest /\ vs'.next = vs.next + 1
      /\ DOMAIN tables' = DOMAIN tables \union {vs.next}
      /\ \A t \in vs.files \union held : t # vs.next
  BY <1>1, NewTableUp
<1>4. TypeOK /\ ManifestInv /\ vs.next \in Nat /\ vs.files \in SUBSET Nat
  BY <1>1, UpIs
<1>5. TypeOK'
  <2>1. compaction' \in [inputs : SUBSET Nat, out : Nat]
    BY <1>2, <1>4
  <2>2. QED
    BY <1>1, <1>3, <1>4, <2>1 DEF TypeOK, DiskTypes
<1>6. FlushInv' /\ EditInv'
  BY <1>1 DEF FlushInv, EditInv
<1>7. CompactionInv'
  BY <1>1, <1>2, <1>3, <1>4 DEF CompactionInv, With, Joined
<1>8. ManifestInv'
  BY <1>1, <1>3, <1>4 DEF ManifestInv, Settled, Logged, Final
<1>9. WholeInv' /\ WorkInv'
  BY <1>1, WholeStays DEF IInv, WorkInv
<1>10. QED
  BY <1>1, <1>3, <1>5, <1>6, <1>7, <1>8, <1>9, WhenUp DEF IInv

(* While no edit is being written the manifest has one end, the version.    *)
LEMMA OneEnd ==
  ASSUME IInv, pc = "up", ~bgError, ~Logged, NEW edits, edits = manifests[current].recs
  PROVE  /\ Len(edits) \in Nat /\ Len(edits) > 0 /\ Ends(manifests[current]) = {Len(edits)}
         /\ FilesAfter(edits, Len(edits)) = vs.files /\ edits[Len(edits)].log = vs.log
         /\ reuse \/ manifests[current].synced = Len(edits)
<1>1. ManifestInv /\ Len(edits) \in Nat /\ reuse \in BOOLEAN
  BY UpIs
<1>2. /\ Len(edits) > 0 /\ FilesAfter(edits, Len(edits)) = vs.files /\ edits[Len(edits)].log = vs.log
      /\ reuse \/ manifests[current].synced = Len(edits)
  BY <1>1 DEF ManifestInv, Settled
<1>3. Ends(manifests[current]) = {Len(edits)}
  BY <1>1, <1>2 DEF Ends
<1>4. QED
  BY <1>1, <1>2, <1>3

LEMMA FinishFlushIInv == ASSUME IInv, FinishFlush PROVE IInv'
<1>. USE DEF history
<1>. DEFINE table == [recs |-> imm, ok |-> TRUE]
            edit == Edit(logFile, vs, {flush}, {})
<1>1. /\ pc = "up" /\ pc' = "up" /\ flush # None /\ flush' = None
      /\ tables' = [tables EXCEPT ![flush] = table]
      /\ applying' = [edit |-> edit, by |-> "flush", logged |-> FALSE]
      /\ UNCHANGED <<logs, manifests, current, vs, mem, imm, logFile, opening, writing, compaction, held,
                     bgError, reuse, issued, acked, durable, created, repaired>>
  BY DEF FinishFlush, LogAfterFlush, IInv, OnlyUp, Quiet
<1>2. /\ TypeOK /\ UpInv /\ FlushInv /\ CompactionInv /\ ManifestInv /\ WorkInv /\ vs \in VersionType
      /\ opening \in OpeningType /\ vs.next \in Nat /\ vs.last \in 0..issued /\ logFile \in Nat
      /\ EndsAreGood
  BY <1>1, UpIs
<1>3. /\ flush \in DOMAIN tables /\ ~tables[flush].ok /\ flush < vs.next /\ flush \notin vs.files \union held
      /\ applying = None /\ imm # {} /\ flush \in Nat
      /\ compaction # None => compaction.out # flush
  BY <1>1, <1>2 DEF FlushInv, TypeOK
<1>4. /\ edit.log = logFile /\ edit.next = vs.next /\ edit.last = vs.last /\ edit.added = {flush}
      /\ edit.deleted = {} /\ edit \in EditType
  BY <1>2, <1>3 DEF Edit, EditType
<1>. HIDE DEF edit
<1>5. applying' \in Application /\ applying' # None
  <2>1. applying' \in Application
    BY <1>1, <1>4 DEF Application
  <2>2. QED
    BY <2>1, NoneAssumption
<1>6. /\ DOMAIN tables' = DOMAIN tables /\ tables'[flush] = table
      /\ \A t \in DOMAIN tables : t # flush => tables'[t] = tables[t]
  BY <1>1, <1>3
<1>7. TypeOK'
  <2>1. table \in TableType(issued)
    BY <1>2 DEF TypeOK, TableType
  <2>2. \A t \in DOMAIN tables' : tables'[t] \in TableType(issued)
    BY <1>2, <1>6, <2>1 DEF TypeOK
  <2>3. (vs \in VersionType)' /\ (opening \in OpeningType)'
    BY <1>1, <1>2 DEF VersionType, OpeningType
  <2>4. QED
    BY <1>1, <1>2, <1>5, <1>6, <2>2, <2>3 DEF TypeOK
<1>8. \A t \in vs.files \union held : t \in DOMAIN tables' /\ tables'[t] = tables[t]
  BY <1>2, <1>3, <1>6, <1>1 DEF UpInv
<1>9. \A n \in Ends(manifests[current]) : Keeps(tables, tables', FilesAfter(manifests[current].recs, n))
  BY <1>2, <1>3, <1>6, UnfinishedTable
<1>10. SameButTables
  <2>1. (vs \in VersionType)' /\ vs.next <= vs.next
    BY <1>1, <1>2 DEF VersionType
  <2>2. QED
    BY <1>1, <2>1 DEF SameButTables
<1>11. DiskInv' /\ UpInv' /\ Ends(manifests[current])' = Ends(manifests[current])
  BY <1>1, <1>8, <1>9, <1>10, OtherTables
<1>12. FlushInv' /\ CompactionInv'
  BY <1>1, <1>2, <1>3, <1>6 DEF FlushInv, CompactionInv
<1>13. ManifestInv'
  BY <1>1, <1>2, <1>3 DEF ManifestInv, Settled, Logged
<1>14. EditInv'
  <2>1. applying'.edit = edit /\ applying'.by = "flush"
    BY <1>1
  <2>2. /\ \A f \in vs.files : f < vs.next
        /\ \A n \in Ends(manifests[current]) : manifests[current].recs[n].next <= vs.next
        /\ vs.manifest < vs.next /\ logFile < vs.next
    BY <1>1, <1>2 DEF UpInv
  <2>3. vs.next <= vs.next
    BY <1>2
  <2>4. \E t \in DOMAIN tables' :
         /\ applying'.edit.added = {t} /\ t < applying'.edit.next /\ tables'[t].ok
         /\ tables'[t].recs = imm' /\ applying'.edit.deleted = {} /\ applying'.edit.log = logFile'
         /\ imm' # {} /\ t \notin vs'.files
         /\ compaction' # None => compaction'.out # t
    BY <1>1, <1>3, <1>4, <1>6, <2>1
  <2>5. QED
    BY <1>1, <1>2, <1>3, <1>4, <1>11, <2>1, <2>2, <2>3, <2>4 DEF EditInv
<1>15. WholeInv' /\ WorkInv'
  <2>1. Working /\ ~Logged /\ ~Logged'
    BY <1>1, <1>3 DEF Working, Logged
  <2>2. QED
    BY <1>1, <1>2, <2>1, WorkGoesOn, WholeStays DEF IInv
<1>16. QED
  BY <1>1, <1>7, <1>11, <1>12, <1>13, <1>14, <1>15, WhenUp DEF IInv

LEMMA FinishCompactionIInv == ASSUME IInv, FinishCompaction PROVE IInv'
<1>. USE DEF history
<1>. DEFINE table == [recs |-> UNION {tables[n].recs : n \in compaction.inputs}, ok |-> TRUE]
            edit == Edit(vs.log, vs, {compaction.out}, compaction.inputs)
            out == compaction.out
<1>1. /\ pc = "up" /\ pc' = "up" /\ flush = None /\ applying = None /\ compaction # None
      /\ tables' = [tables EXCEPT ![out] = table]
      /\ applying' = [edit |-> edit, by |-> "compaction", logged |-> FALSE]
      /\ UNCHANGED <<logs, manifests, current, vs, mem, imm, logFile, opening, writing, flush, compaction,
                     held, bgError, reuse, issued, acked, durable, created, repaired>>
  BY DEF FinishCompaction, Idle
<1>2. /\ TypeOK /\ UpInv /\ FlushInv /\ CompactionInv /\ ManifestInv /\ WorkInv /\ vs \in VersionType
      /\ opening \in OpeningType /\ vs.next \in Nat /\ vs.last \in 0..issued /\ logFile \in Nat
      /\ EndsAreGood /\ vs.log \in Nat
  BY <1>1, UpIs
<1>3. /\ compaction.inputs \subseteq vs.files /\ out \in DOMAIN tables /\ out \notin vs.files \union held
      /\ out < vs.next /\ out \in Nat /\ compaction.inputs \in SUBSET Nat
      /\ compaction \in [inputs : SUBSET Nat, out : Nat] /\ ~tables[out].ok
  BY <1>1, <1>2 DEF CompactionInv, TypeOK
<1>4. /\ edit.log = vs.log /\ edit.next = vs.next /\ edit.last = vs.last /\ edit.added = {out}
      /\ edit.deleted = compaction.inputs /\ edit \in EditType
  BY <1>2, <1>3 DEF Edit, EditType
<1>. HIDE DEF edit
<1>5. applying' \in Application /\ applying' # None
  <2>1. applying' \in Application
    BY <1>1, <1>4 DEF Application
  <2>2. QED
    BY <2>1, NoneAssumption
<1>6. /\ DOMAIN tables' = DOMAIN tables /\ tables'[out] = table
      /\ \A t \in DOMAIN tables : t # out => tables'[t] = tables[t]
  BY <1>1, <1>3
<1>7. \A t \in vs.files \union held : t \in DOMAIN tables /\ t \in DOMAIN tables' /\ tables'[t] = tables[t]
  BY <1>2, <1>3, <1>6, <1>1 DEF UpInv
<1>8. TypeOK'
  <2>1. table \in TableType(issued)
    <3>1. \A n \in compaction.inputs : tables[n] \in TableType(issued)
      BY <1>2, <1>3, <1>7 DEF TypeOK
    <3>2. \A n \in compaction.inputs : tables[n].recs \in SUBSET Records(issued)
      BY <3>1 DEF TableType
    <3>3. UNION {tables[n].recs : n \in compaction.inputs} \in SUBSET Records(issued)
      BY <3>2
    <3>4. QED
      BY <3>3 DEF TableType
  <2>2. \A t \in DOMAIN tables' : tables'[t] \in TableType(issued)
    <3>1. \A t \in DOMAIN tables : tables[t] \in TableType(issued)
      BY <1>2 DEF TypeOK
    <3>2. QED
      BY <1>6, <2>1, <3>1
  <2>3. (vs \in VersionType)' /\ (opening \in OpeningType)'
    BY <1>1, <1>2 DEF VersionType, OpeningType
  <2>4. QED
    BY <1>1, <1>2, <1>5, <1>6, <2>2, <2>3 DEF TypeOK
<1>9. \A n \in Ends(manifests[current]) : Keeps(tables, tables', FilesAfter(manifests[current].recs, n))
  BY <1>2, <1>3, <1>6, UnfinishedTable
<1>10. SameButTables
  <2>1. (vs \in VersionType)' /\ vs.next <= vs.next
    BY <1>1, <1>2 DEF VersionType
  <2>2. QED
    BY <1>1, <2>1 DEF SameButTables
<1>11. DiskInv' /\ UpInv' /\ Ends(manifests[current])' = Ends(manifests[current])
  BY <1>1, <1>7, <1>9, <1>10, OtherTables
<1>12. FlushInv' /\ CompactionInv'
  <2>1. applying' # None /\ applying'.by # "flush"
    BY <1>1, <1>5
  <2>2. QED
    BY <1>1, <1>2, <1>6, <2>1 DEF FlushInv, CompactionInv
<1>13. ManifestInv'
  BY <1>1, <1>2 DEF ManifestInv, Settled, Logged
<1>14. EditInv'
  <2>1. applying'.edit = edit /\ applying'.by = "compaction"
    BY <1>1
  <2>2. /\ \A f \in vs.files : f < vs.next
        /\ \A n \in Ends(manifests[current]) : manifests[current].recs[n].next <= vs.next
        /\ vs.manifest < vs.next /\ vs.log < vs.next
    BY <1>1, <1>2 DEF UpInv
  <2>3. vs.next <= vs.next
    BY <1>2
  <2>4. UNION {tables'[n].recs : n \in compaction.inputs} = UNION {tables[n].recs : n \in compaction.inputs}
    BY <1>3, <1>7
  <2>. DEFINE U(T) == UNION {T[n].recs : n \in compaction.inputs}
  <2>. HIDE DEF U
  <2>5. table.recs = U(tables') /\ table.ok
    BY <2>4 DEF U
  <2>. HIDE DEF table
  <2>6. \E t \in DOMAIN tables' :
         /\ applying'.edit.added = {t} /\ t < applying'.edit.next /\ tables'[t].ok
         /\ compaction' # None /\ t = compaction'.out /\ applying'.edit.deleted = compaction'.inputs
         /\ applying'.edit.log = vs'.log
         /\ tables'[t].recs = U(tables')
    BY <1>1, <1>3, <1>4, <1>6, <2>1, <2>5
  <2>7. QED
    BY <1>1, <1>2, <1>3, <1>4, <1>11, <2>1, <2>2, <2>3, <2>6 DEF EditInv, U
<1>15. WholeInv' /\ WorkInv'
  <2>1. Working /\ ~Logged /\ ~Logged'
    BY <1>1 DEF Working, Logged
  <2>2. QED
    BY <1>1, <1>2, <2>1, WorkGoesOn, WholeStays DEF IInv
<1>16. QED
  BY <1>1, <1>8, <1>11, <1>12, <1>13, <1>14, <1>15, WhenUp DEF IInv

LEMMA FlushFailsIInv == ASSUME IInv, FlushFails PROVE IInv'
<1>1. /\ pc = "up" /\ pc' = "up" /\ flush # None /\ flush' = None /\ bgError' = TRUE
      /\ tables' = Without(tables, {flush})
      /\ UNCHANGED <<logs, manifests, current, vs, mem, imm, logFile, opening, writing, compaction,
                     applying, held, reuse, issued, acked, durable, created, repaired>>
  BY DEF FlushFails, IInv, OnlyUp, Quiet
<1>2. /\ TypeOK /\ UpInv /\ FlushInv /\ CompactionInv /\ ManifestInv /\ WorkInv /\ vs \in VersionType /\ EndsAreGood
      /\ opening \in OpeningType /\ vs.next \in Nat
  BY <1>1, UpIs
<1>3. /\ ~tables[flush].ok /\ flush \notin vs.files \union held /\ applying = None
      /\ compaction # None => compaction.out # flush
  BY <1>1, <1>2 DEF FlushInv
<1>4. /\ DOMAIN tables' \subseteq DOMAIN tables /\ \A t \in DOMAIN tables' : tables'[t] = tables[t]
      /\ \A t \in DOMAIN tables : t # flush => t \in DOMAIN tables' /\ tables'[t] = tables[t]
  BY <1>1 DEF Without, Restrict
<1>5. \A t \in vs.files \union held : t \in DOMAIN tables' /\ tables'[t] = tables[t]
  BY <1>1, <1>2, <1>3, <1>4 DEF UpInv
<1>6. \A n \in Ends(manifests[current]) : Keeps(tables, tables', FilesAfter(manifests[current].recs, n))
  BY <1>2, <1>3, <1>4, UnfinishedTable
<1>7. SameButTables
  <2>1. (vs \in VersionType)' /\ vs.next <= vs.next
    BY <1>1, <1>2 DEF VersionType
  <2>2. QED
    BY <1>1, <2>1 DEF SameButTables
<1>8. DiskInv' /\ UpInv'
  BY <1>1, <1>5, <1>6, <1>7, OtherTables
<1>9. TypeOK'
  <2>1. IsBounded(DOMAIN tables')
    BY <1>2, <1>4 DEF TypeOK, IsBounded
  <2>2. \A t \in DOMAIN tables' : tables'[t] \in TableType(issued)
    BY <1>2, <1>4 DEF TypeOK
  <2>3. (vs \in VersionType)' /\ (opening \in OpeningType)'
    BY <1>1, <1>2 DEF VersionType, OpeningType
  <2>4. QED
    BY <1>1, <1>2, <2>1, <2>2, <2>3 DEF TypeOK
<1>10. FlushInv' /\ CompactionInv' /\ ManifestInv' /\ EditInv'
  BY <1>1, <1>2, <1>3, <1>4 DEF FlushInv, CompactionInv, ManifestInv, EditInv
<1>11. WholeInv' /\ WorkInv'
  <2>1. Working
    BY <1>1 DEF Working
  <2>2. QED
    BY <1>1, <1>2, <2>1, WorkGoesOn, WholeStays DEF IInv
<1>12. QED
  BY <1>1, <1>8, <1>9, <1>10, <1>11, WhenUp DEF IInv

LEMMA CompactionFailsIInv == ASSUME IInv, CompactionFails PROVE IInv'
<1>. USE DEF disk
<1>1. /\ pc = "up" /\ pc' = "up" /\ flush = None /\ applying = None /\ compaction' = None /\ bgError' = TRUE
      /\ UNCHANGED <<disk, vs, mem, imm, logFile, opening, writing, flush, applying, held, reuse,
                     issued, acked, durable, created, repaired>>
  BY DEF CompactionFails, Idle
<1>2. /\ TypeOK /\ DiskInv /\ UpInv /\ FlushInv /\ ManifestInv /\ EditInv
  BY <1>1, UpIs
<1>3. TypeOK'
  BY <1>1, <1>2 DEF TypeOK, VersionType, OpeningType
<1>4. DiskInv'
  BY <1>1, <1>2 DEF DiskInv, EndsAreGood, Ends, Promised
<1>5. UpInv'
  BY <1>1, <1>2 DEF UpInv, Ends, Promised
<1>6. FlushInv' /\ CompactionInv' /\ ManifestInv' /\ EditInv'
  BY <1>1, <1>2 DEF FlushInv, CompactionInv, ManifestInv, EditInv
<1>7. WholeInv' /\ WorkInv'
  BY <1>1, WholeStays DEF IInv, WorkInv, Working
<1>8. QED
  BY <1>1, <1>3, <1>4, <1>5, <1>6, <1>7, WhenUp DEF IInv

(* What is said of an open database does not depend on how its manifest     *)
(* ends behind the edits that can be read.                                  *)
SameEdits ==
  /\ DOMAIN manifests' = DOMAIN manifests
  /\ \A n \in DOMAIN manifests : n # current => manifests'[n] = manifests[n]
  /\ manifests'[current] \in ManifestType
  /\ manifests'[current].recs = manifests[current].recs
  /\ manifests'[current].synced = manifests[current].synced
  /\ UNCHANGED <<logs, tables, current, vs, mem, imm, logFile, opening, writing, flush, held, reuse, issued,
                 acked, durable, created, repaired>>

LEMMA WithSameEdits ==
  ASSUME IInv, pc = "up", SameEdits
  PROVE  /\ DiskTypes' /\ DiskInv' /\ UpInv' /\ (vs \in VersionType)' /\ (opening \in OpeningType)'
         /\ Ends(manifests[current])' = Ends(manifests[current])
<1>. USE DEF SameEdits
<1>1. /\ TypeOK /\ DiskInv /\ EndsAreGood /\ UpInv /\ issued \in Nat /\ current \in DOMAIN manifests
      /\ vs \in VersionType /\ opening \in OpeningType
  BY UpIs
<1>2. Ends(manifests[current])' = Ends(manifests[current])
  BY DEF Ends
<1>3. DiskTypes'
  BY <1>1 DEF DiskTypes, TypeOK
<1>4. EndsAreGood'
  <2>1. (\A from : Grows(logs, logs', from)) /\ (\A files : Keeps(tables, tables', files)) /\ issued <= issued'
    BY <1>1, LogsStay, TablesStay
  <2>2. QED
    BY <1>1, <2>1, EndsStay
<1>5. DiskInv'
  BY <1>1, <1>4 DEF DiskInv
<1>6. UpInv'
  BY <1>1, <1>2 DEF UpInv, Promised
<1>7. (vs \in VersionType)' /\ (opening \in OpeningType)'
  BY <1>1 DEF VersionType, OpeningType
<1>8. QED
  BY <1>2, <1>3, <1>5, <1>6, <1>7

(* The edit that is in the manifest is that of the flush: it adds a table.  *)
LEMMA FlushIsAdded ==
  ASSUME IInv, pc = "up", Logged, applying.by = "flush", ~bgError \/ manifests[current].end # "broken",
         NEW edits, edits = manifests[current].recs
  PROVE  Len(edits) > 0 /\ vs.files \subseteq FilesAfter(edits, Len(edits))
<1>1. ManifestInv /\ WorkInv /\ EditInv /\ edits \in Seq(EditType) /\ Len(edits) \in Nat
  BY UpIs
<1>2. /\ Len(edits) - 1 > 0 /\ vs.files \subseteq FilesAfter(edits, Len(edits) - 1)
      /\ edits[Len(edits)] = applying.edit
  <2>1. applying # None /\ applying.logged
    BY DEF Logged
  <2>2. CASE ~bgError
    BY <1>1, <2>2 DEF ManifestInv, Settled, Final
  <2>3. CASE bgError
    BY <1>1, <2>1, <2>3 DEF WorkInv, Settled, Final, Working
  <2>4. QED
    BY <2>2, <2>3
<1>3. applying.edit.deleted = {}
  BY <1>1 DEF EditInv, Logged
<1>4. Len(edits) > 0
  BY <1>1, <1>2
<1>5. FilesAfter(edits, Len(edits))
        = (FilesAfter(edits, Len(edits) - 1) \ edits[Len(edits)].deleted) \union edits[Len(edits)].added
  BY <1>1, <1>4, FilesAfterStep
<1>6. QED
  BY <1>2, <1>3, <1>4, <1>5

LEMMA EditFailsIInv == ASSUME IInv, TRUE \notin Faults, EditFails PROVE IInv'
<1>. DEFINE m == manifests[current]
            edits == m.recs
<1>1. /\ pc = "up" /\ pc' = "up" /\ applying # None /\ applying' = None /\ bgError' = TRUE
      /\ compaction' = IF applying.by = "flush" THEN compaction ELSE None
      /\ manifests' = IF applying.logged THEN manifests ELSE [manifests EXCEPT ![vs.manifest] = CutShort(@)]
      /\ UNCHANGED <<logs, tables, current, vs, mem, imm, logFile, opening, writing, flush, held,
                     reuse, issued, acked, durable, created, repaired>>
  BY DEF EditFails
<1>2. /\ TypeOK /\ DiskInv /\ UpInv /\ FlushInv /\ CompactionInv /\ ManifestInv /\ WorkInv /\ EditInv
      /\ current \in DOMAIN manifests /\ vs.manifest = current /\ m \in ManifestType
      /\ edits \in Seq(EditType) /\ Len(edits) \in Nat /\ reuse \in BOOLEAN
  BY <1>1, UpIs
<1>3. flush = None
  BY <1>1, <1>2 DEF EditInv
<1>4. /\ CutShort(m) \in ManifestType /\ CutShort(m).recs = m.recs /\ CutShort(m).synced = m.synced
      /\ reuse => CutShort(m) = m
      /\ CutShort(m).end = "broken" <=> m.end = "broken"
  <2>1. CASE m.end = "whole" /\ reuse \in Faults
    <3>1. CutShort(m) = [m EXCEPT !.end = "torn"] /\ ~reuse
      BY <1>2, <2>1 DEF CutShort
    <3>2. QED
      BY <1>2, <2>1, <3>1 DEF ManifestType
  <2>2. CASE ~(m.end = "whole" /\ reuse \in Faults)
    BY <1>2, <2>2 DEF CutShort
  <2>3. QED
    BY <2>1, <2>2
<1>5. /\ DOMAIN manifests' = DOMAIN manifests /\ \A n \in DOMAIN manifests : n # current => manifests'[n] = manifests[n]
      /\ manifests'[current] = IF applying.logged THEN m ELSE CutShort(m)
  BY <1>1, <1>2
<1>. HIDE DEF m
<1>6. SameEdits
  BY <1>1, <1>2, <1>4, <1>5 DEF SameEdits, m
<1>7. /\ DiskTypes' /\ DiskInv' /\ UpInv' /\ (vs \in VersionType)' /\ (opening \in OpeningType)'
  BY <1>1, <1>6, WithSameEdits
<1>8. TypeOK'
  <2>1. compaction' \in [inputs : SUBSET Nat, out : Nat] \union {None}
    BY <1>1, <1>2 DEF TypeOK
  <2>2. QED
    BY <1>1, <1>2, <1>7, <2>1 DEF TypeOK, DiskTypes
<1>9. CompactionInv'
  BY <1>1, <1>2 DEF CompactionInv
<1>10. FlushInv' /\ ManifestInv' /\ EditInv'
  BY <1>1, <1>3 DEF FlushInv, ManifestInv, EditInv
<1>11. WholeInv'
  <2>1. reuse => \A n \in DOMAIN manifests' : manifests'[n].end = "whole"
    BY <1>2, <1>4, <1>5 DEF IInv, WholeInv, m
  <2>2. QED
    BY <1>1, <2>1 DEF WholeInv
<1>12. WorkInv'
  <2>. SUFFICES ASSUME Working', manifests'[current].end # "broken"
                PROVE  /\ Settled(manifests[current].recs)' > 0
                       /\ vs.files \subseteq FilesAfter(manifests'[current].recs, Settled(manifests[current].recs)')
                       /\ ~Logged'
    BY <1>1 DEF WorkInv
  <2>1. applying.by = "flush" /\ ~Logged'
    BY <1>1, <1>3 DEF Working, Logged
  <2>2. m.end # "broken"
    BY <1>4, <1>5
  <2>3. manifests'[current].recs = edits /\ Settled(manifests[current].recs)' = Len(edits)
    BY <1>1, <1>4, <1>5, <2>1 DEF Settled
  <2>4. Len(edits) > 0 /\ vs.files \subseteq FilesAfter(edits, Len(edits))
    <3>1. CASE applying.logged
      BY <1>1, <2>1, <2>2, <3>1, FlushIsAdded DEF Logged, m
    <3>2. CASE ~applying.logged
      <4>1. ~Logged /\ Working
        BY <1>1, <3>2 DEF Logged, Working
      <4>2. CASE ~bgError
        BY <1>1, <1>2, <4>1, <4>2 DEF ManifestInv, Settled, m
      <4>3. CASE bgError
        BY <1>1, <1>2, <2>2, <4>1, <4>3 DEF WorkInv, Settled, m
      <4>4. QED
        BY <4>2, <4>3
    <3>3. QED
      BY <3>1, <3>2
  <2>5. QED
    BY <2>1, <2>3, <2>4
<1>13. QED
  BY <1>1, <1>7, <1>8, <1>9, <1>10, <1>11, <1>12, WhenUp DEF IInv

(* An edit that is ready describes a good end.                              *)
EditIs(t) ==
  /\ t \in DOMAIN tables /\ applying.edit.added = {t} /\ t < applying.edit.next /\ tables[t].ok
  /\ applying.by = "flush" =>
       /\ tables[t].recs = imm /\ applying.edit.deleted = {} /\ applying.edit.log = logFile
       /\ imm # {} /\ t \notin vs.files
       /\ compaction # None => compaction.out # t
  /\ applying.by # "flush" =>
       /\ compaction # None /\ t = compaction.out /\ applying.edit.deleted = compaction.inputs
       /\ applying.edit.log = vs.log
       /\ tables[t].recs = UNION {tables[n].recs : n \in compaction.inputs}

LEMMA EditHas ==
  ASSUME EditInv, pc = "up", applying # None
  PROVE  \E t : EditIs(t)
  BY DEF EditInv, EditIs

(* The tables after the edit have what the tables before it and, when it is *)
(* that of a flush, imm_ had.                                               *)
After == (vs.files \ applying.edit.deleted) \union applying.edit.added

LEMMA EditKeepsRecords ==
  ASSUME NEW t, EditIs(t), NEW id
  PROVE  /\ InTables(tables, vs.files, id) => InTables(tables, After, id)
         /\ applying.by = "flush" /\ InSet(imm, id) => InTables(tables, After, id)
<1>1. t \in After
  BY DEF EditIs, After
<1>2. applying.by = "flush" /\ InSet(imm, id) => InTables(tables, After, id)
  BY <1>1 DEF EditIs, InSet, InTables
<1>3. ASSUME InTables(tables, vs.files, id) PROVE InTables(tables, After, id)
  <2>1. PICK f \in vs.files : \E r \in tables[f].recs : r.id = id
    BY <1>3 DEF InTables
  <2>2. CASE f \notin applying.edit.deleted
    BY <2>1, <2>2 DEF After, InTables
  <2>3. CASE f \in applying.edit.deleted
    <3>1. tables[t].recs = UNION {tables[n].recs : n \in compaction.inputs} /\ f \in compaction.inputs
      BY <2>3 DEF EditIs
    <3>2. tables[f].recs \subseteq tables[t].recs
      BY <3>1
    <3>3. QED
      BY <1>1, <2>1, <3>2 DEF InTables
  <2>4. QED
    BY <2>2, <2>3
<1>4. QED
  BY <1>2, <1>3

LEMMA EditHasWrites ==
  ASSUME IInv, pc = "up", applying # None
  PROVE  Has(tables, After, logs, applying.edit.log, acked, Promised)
<1>. DEFINE e == applying.edit
<1>1. /\ TypeOK /\ UpInv /\ EditInv /\ logFile \in Nat /\ logFile \in DOMAIN logs
  BY UpIs
<1>2. Has(tables, vs.files, logs, vs.log, acked, Promised)
  BY <1>1 DEF UpInv
<1>3. PICK t : EditIs(t)
  BY <1>1, EditHas
<1>4. CASE applying.by = "flush"
  <2>1. e.log = logFile
    BY <1>3, <1>4 DEF EditIs
  <2>2. ASSUME NEW id \in acked, InSet(mem, id) PROVE InLogs(logs, e.log, id)
    <3>1. PICK r \in mem : r.id = id
      BY <2>2 DEF InSet
    <3>2. PICK k \in 1..Len(logs[logFile].recs) : logs[logFile].recs[k] = r
      BY <1>1, <2>2, <3>1 DEF UpInv
    <3>3. logFile >= e.log
      BY <1>1, <2>1
    <3>4. QED
      BY <1>1, <3>1, <3>2, <3>3 DEF InLogs
  <2>3. ASSUME NEW id \in Promised, InSet(mem, id) PROVE InSynced(logs, e.log, id)
    <3>1. PICK r \in mem : r.id = id
      BY <2>3 DEF InSet
    <3>2. ~reuse /\ id \in durable
      BY DEF Promised
    <3>3. PICK k \in 1..logs[logFile].synced : logs[logFile].recs[k] = r
      BY <1>1, <3>1, <3>2 DEF UpInv
    <3>4. logFile >= e.log
      BY <1>1, <2>1
    <3>5. QED
      BY <1>1, <3>1, <3>3, <3>4 DEF InSynced
  <2>4. ASSUME NEW id \in acked PROVE InSet(mem, id) \/ InTables(tables, After, id)
    <3>1. InSet(mem, id) \/ InSet(imm, id) \/ InTables(tables, vs.files, id)
      BY <1>1 DEF UpInv
    <3>2. QED
      BY <1>3, <1>4, <3>1, EditKeepsRecords
  <2>5. \A id \in acked : InTables(tables, After, id) \/ InLogs(logs, e.log, id)
    BY <2>2, <2>4
  <2>6. Promised \subseteq acked
    BY <1>1 DEF Promised, TypeOK
  <2>7. \A id \in Promised : InTables(tables, After, id) \/ InSynced(logs, e.log, id)
    BY <2>3, <2>4, <2>6
  <2>8. QED
    BY <2>5, <2>7 DEF Has
<1>5. CASE applying.by # "flush"
  <2>1. e.log = vs.log
    BY <1>3, <1>5 DEF EditIs
  <2>2. \A id : InTables(tables, vs.files, id) => InTables(tables, After, id)
    BY <1>3, EditKeepsRecords
  <2>3. \A id \in acked : InTables(tables, After, id) \/ InLogs(logs, e.log, id)
    BY <1>2, <2>1, <2>2 DEF Has
  <2>4. \A id \in Promised : InTables(tables, After, id) \/ InSynced(logs, e.log, id)
    BY <1>2, <2>1, <2>2 DEF Has
  <2>5. QED
    BY <2>3, <2>4 DEF Has
<1>6. QED
  BY <1>4, <1>5

(* The edit after tables that are there, all of the version among them.     *)
LEMMA EditIsGood ==
  ASSUME IInv, pc = "up", applying # None, NEW files, vs.files \subseteq files,
         \A f \in files : f \in DOMAIN tables /\ tables[f].ok /\ f < applying.edit.next,
         NEW more, more = (files \ applying.edit.deleted) \union applying.edit.added
  PROVE  Good(applying.edit, more, tables, logs, current, issued, acked, Promised)
<1>. DEFINE e == applying.edit
<1>1. /\ TypeOK /\ UpInv /\ EditInv /\ vs.manifest = current
  BY UpIs
<1>2. /\ e.next \in Nat /\ e.log \in Nat /\ e.log < e.next /\ e.last \in 0..issued /\ current < e.next
  BY <1>1 DEF EditInv
<1>3. e \in EditType
  BY <1>1 DEF TypeOK, Application
<1>4. PICK t : EditIs(t)
  BY <1>1, EditHas
<1>5. \A f \in more : f \in DOMAIN tables /\ tables[f].ok /\ f < e.next
  BY <1>4 DEF EditIs
<1>6. After \subseteq more
  BY DEF After
<1>7. \A id : InTables(tables, After, id) => InTables(tables, more, id)
  BY <1>6 DEF InTables
<1>8. Has(tables, After, logs, e.log, acked, Promised)
  BY EditHasWrites
<1>9. QED
  BY <1>2, <1>3, <1>5, <1>7, <1>8 DEF Good, Has

(* Edits that are in the manifest are good, and the edit being written is   *)
(* behind them.                                                             *)
LEMMA EndOfManifest ==
  ASSUME IInv, pc = "up", NEW edits, edits = manifests[current].recs
  PROVE  /\ Len(edits) \in Nat /\ Len(edits) > 0 /\ Len(edits) \in Ends(manifests[current])
         /\ \A f \in FilesAfter(edits, Len(edits)) :
               f \in DOMAIN tables /\ tables[f].ok /\ f < edits[Len(edits)].next
         /\ edits[Len(edits)].next \in Nat
<1>1. DiskInv /\ EndsAreGood /\ created /\ Len(edits) \in Nat
  BY UpIs
<1>2. Len(edits) > 0
  BY <1>1 DEF DiskInv
<1>3. Len(edits) \in Ends(manifests[current])
  BY <1>1, <1>2 DEF Ends
<1>4. Good(edits[Len(edits)], FilesAfter(edits, Len(edits)), tables, logs, current, issued, acked, Promised)
  BY <1>1, <1>3 DEF EndsAreGood
<1>5. QED
  BY <1>1, <1>2, <1>3, <1>4 DEF Good

LEMMA LogEditAppends ==
  ASSUME IInv, LogEdit, manifests' = [manifests EXCEPT ![vs.manifest] = Appended(@, applying.edit)],
         ~bgError \/ manifests[current].end # "broken"
  PROVE  IInv'
<1>. USE DEF history
<1>. DEFINE edits == manifests[current].recs
            e == applying.edit
            more == Append(edits, e)
<1>1. /\ pc = "up" /\ pc' = "up" /\ applying # None /\ ~applying.logged
      /\ manifests' = [manifests EXCEPT ![vs.manifest] = Appended(@, e)]
      /\ applying' = [applying EXCEPT !.logged = TRUE]
      /\ UNCHANGED <<logs, tables, current, vs, mem, imm, logFile, opening, writing, flush, compaction,
                     held, bgError, reuse, issued, acked, durable, created, repaired>>
  BY DEF LogEdit
<1>2. /\ TypeOK /\ DiskInv /\ UpInv /\ FlushInv /\ CompactionInv /\ ManifestInv /\ WorkInv /\ EditInv /\ EndsAreGood
      /\ vs \in VersionType /\ opening \in OpeningType /\ vs.next \in Nat /\ logFile \in Nat /\ vs.manifest = current
      /\ current \in DOMAIN manifests /\ manifests[current] \in ManifestType /\ edits \in Seq(EditType)
      /\ vs.log \in Nat /\ reuse \in BOOLEAN /\ issued \in Nat
  BY <1>1, UpIs
<1>3. applying \in Application /\ e \in EditType /\ ~Logged
  BY <1>1, <1>2 DEF TypeOK, Application, Logged
<1>4. /\ applying' \in Application /\ applying' # None /\ applying'.logged /\ applying'.edit = e
      /\ applying'.by = applying.by
  <2>1. /\ applying' \in Application /\ applying'.logged /\ applying'.edit = e /\ applying'.by = applying.by
    BY <1>1, <1>3 DEF Application
  <2>2. QED
    BY <2>1, NoneAssumption
<1>5. /\ e.next \in Nat /\ e.next <= vs.next /\ e.log \in Nat /\ e.log < e.next /\ flush = None
      /\ \A n \in Ends(manifests[current]) : edits[n].next <= e.next
  BY <1>1, <1>2 DEF EditInv
<1>6. e.log <= logFile
  <2>1. PICK t : EditIs(t)
    BY <1>1, <1>2, EditHas
  <2>2. vs.log <= logFile
    BY <1>1, <1>2 DEF UpInv
  <2>3. QED
    BY <1>2, <2>1, <2>2 DEF EditIs
<1>7. /\ Len(edits) \in Nat /\ Len(edits) > 0 /\ Len(edits) \in Ends(manifests[current])
      /\ \A f \in FilesAfter(edits, Len(edits)) :
            f \in DOMAIN tables /\ tables[f].ok /\ f < edits[Len(edits)].next
      /\ edits[Len(edits)].next \in Nat
  BY <1>1, EndOfManifest
<1>8. /\ DOMAIN manifests' = DOMAIN manifests
      /\ \A n \in DOMAIN manifests : n # current => manifests'[n] = manifests[n]
      /\ manifests'[current].recs = more /\ manifests'[current].synced = manifests[current].synced
      /\ manifests'[current].end = manifests[current].end
      /\ manifests'[current] \in ManifestType
  <2>1. manifests'[current] = Appended(manifests[current], e)
    BY <1>1, <1>2
  <2>2. /\ Appended(manifests[current], e).recs = more
        /\ Appended(manifests[current], e).synced = manifests[current].synced
        /\ Appended(manifests[current], e).end = manifests[current].end
        /\ Appended(manifests[current], e) \in ManifestType
    BY <1>2, <1>3, AppendedManifest
  <2>3. QED
    BY <1>1, <1>2, <2>1, <2>2
<1>9. AppendsTo(edits, e, more)
  BY <1>2, <1>3, AppendedFiles
<1>. HIDE DEF more
<1>10. /\ Len(more) = Len(edits) + 1 /\ more[Len(edits) + 1] = e
       /\ \A n \in 1..Len(edits) : more[n] = edits[n] /\ FilesAfter(more, n) = FilesAfter(edits, n)
       /\ FilesAfter(more, Len(edits) + 1) = (FilesAfter(edits, Len(edits)) \ e.deleted) \union e.added
  BY <1>7, <1>9 DEF AppendsTo
<1>11. /\ \A n \in Ends(manifests[current])' : n \in Ends(manifests[current]) \/ n = Len(edits) + 1
       /\ \A n \in Ends(manifests[current]) : n \in 1..Len(edits)
       /\ Len(more) > 0
  BY <1>1, <1>7, <1>8, <1>10 DEF Ends
<1>12. TypeOK'
  <2>1. \A n \in DOMAIN manifests' : manifests'[n] \in ManifestType /\ manifests'[n].synced <= Len(manifests'[n].recs)
    <3>1. manifests[current].synced <= Len(edits) /\ manifests[current].synced \in Nat
      BY <1>2 DEF TypeOK, ManifestType
    <3>2. manifests'[current].synced <= Len(manifests'[current].recs)
      BY <1>7, <1>8, <1>10, <3>1
    <3>3. QED
      BY <1>2, <1>8, <3>2 DEF TypeOK
  <2>2. (vs \in VersionType)' /\ (opening \in OpeningType)'
    BY <1>1, <1>2 DEF VersionType, OpeningType
  <2>3. QED
    BY <1>1, <1>2, <1>4, <2>1, <2>2 DEF TypeOK
<1>13. /\ Settled(manifests[current].recs)' = Len(edits) /\ Logged'
       /\ Final(manifests[current])' = e
  BY <1>1, <1>4, <1>7, <1>8, <1>10 DEF Settled, Logged, Final
<1>14. /\ ~bgError => vs.files = FilesAfter(edits, Len(edits)) /\ edits[Len(edits)].log = vs.log
                      /\ (reuse \/ manifests[current].synced = Len(edits))
       /\ vs.files \subseteq FilesAfter(edits, Len(edits))
  <2>1. CASE ~bgError
    BY <1>1, <1>3, <2>1, OneEnd
  <2>2. CASE bgError
    BY <1>1, <1>2, <1>3, <2>2 DEF WorkInv, Settled, Working
  <2>3. QED
    BY <2>1, <2>2
<1>15. \A n \in Ends(manifests[current])' :
          /\ Good(more[n], FilesAfter(more, n), tables, logs, current, issued, acked, Promised)
          /\ more[n].next <= e.next
  <2>1. Good(e, FilesAfter(more, Len(edits) + 1), tables, logs, current, issued, acked, Promised)
    <3>1. \A f \in FilesAfter(edits, Len(edits)) : f \in DOMAIN tables /\ tables[f].ok /\ f < e.next
      <4>1. edits[Len(edits)].next <= e.next
        BY <1>5, <1>7
      <4>2. FilesAfter(edits, Len(edits)) \subseteq Nat
        BY <1>2, <1>7 DEF TypeOK, IsBounded
      <4>3. \A a, b, c \in Nat : a < b /\ b <= c => a < c
        OBVIOUS
      <4>4. QED
        BY <1>5, <1>7, <4>1, <4>2, <4>3
    <3>2. QED
      BY <1>1, <1>10, <1>14, <3>1, EditIsGood
  <2>2. \A n \in Ends(manifests[current]) :
           Good(edits[n], FilesAfter(edits, n), tables, logs, current, issued, acked, Promised)
    BY <1>2 DEF EndsAreGood
  <2>3. e.next <= e.next
    BY <1>5
  <2>4. QED
    BY <1>5, <1>10, <1>11, <2>1, <2>2, <2>3
<1>16. DiskInv'
  <2>1. Final(manifests'[current]) = e
    BY <1>8, <1>10 DEF Final
  <2>2. EndsAreGood'
    <3>1. Promised' = Promised
      BY <1>1 DEF Promised
    <3>2. QED
      BY <1>1, <1>8, <1>15, <2>1, <3>1 DEF EndsAreGood
  <2>3. current' # 0 /\ current' \in DOMAIN manifests'
    BY <1>1, <1>2, <1>8 DEF UpInv
  <2>4. reuse \/ manifests'[current].synced > 0
    BY <1>1, <1>2, <1>8 DEF DiskInv, UpInv
  <2>5. created' => /\ Len(manifests'[current'].recs) > 0
                    /\ (reuse' \/ manifests'[current'].synced > 0)
    BY <1>1, <1>8, <1>11, <2>4
  <2>6. acked' # {} => created' \/ repaired'
    BY <1>1, <1>2 DEF DiskInv
  <2>7. QED
    BY <2>2, <2>3, <2>5, <2>6 DEF DiskInv
<1>17. UpInv'
  <2>1. \A n \in Ends(manifests[current])' : /\ manifests'[current'].recs[n].next <= vs'.next
                                             /\ manifests'[current'].recs[n].log <= logFile'
    <3>1. \A n \in Ends(manifests[current]) : edits[n].next <= vs.next /\ edits[n].log <= logFile
      BY <1>1, <1>2 DEF UpInv
    <3>2. QED
      BY <1>1, <1>5, <1>6, <1>8, <1>10, <1>11, <3>1
  <2>2. UpInv /\ created' = created /\ Promised' = Promised
    BY <1>1, <1>2 DEF Promised
  <2>3. QED
    BY <1>1, <2>1, <2>2 DEF UpInv
<1>18. FlushInv' /\ CompactionInv'
  <2>1. (applying' = None \/ applying'.by = "flush") => (applying = None \/ applying.by = "flush")
    BY <1>4
  <2>2. QED
    BY <1>1, <1>2, <1>5, <2>1 DEF FlushInv, CompactionInv
<1>19. ManifestInv' /\ WorkInv'
  <2>1. Settled(manifests[current].recs)' > 0
    BY <1>7, <1>13
  <2>2. FilesAfter(manifests'[current'].recs, Settled(manifests[current].recs)') = FilesAfter(edits, Len(edits))
        /\ manifests'[current'].recs[Len(edits)] = edits[Len(edits)]
    BY <1>1, <1>7, <1>8, <1>10, <1>13
  <2>3. Final(manifests[current])' = applying'.edit
    BY <1>4, <1>13
  <2>4. ManifestInv'
    BY <1>1, <1>8, <1>13, <1>14, <2>1, <2>2, <2>3 DEF ManifestInv
  <2>5. WorkInv'
    BY <1>1, <1>8, <1>13, <1>14, <2>1, <2>2, <2>3 DEF WorkInv
  <2>6. QED
    BY <2>4, <2>5
<1>20. EditInv'
  <2>1. \A n \in Ends(manifests[current])' : manifests'[current'].recs[n].next <= e.next
    BY <1>1, <1>8, <1>15
  <2>2. QED
    BY <1>1, <1>2, <1>4, <2>1 DEF EditInv
<1>21. WholeInv'
  BY <1>1, <1>2, <1>8 DEF IInv, WholeInv
<1>22. QED
  BY <1>1, <1>12, <1>16, <1>17, <1>18, <1>19, <1>20, <1>21, WhenUp DEF IInv

(* The edit went behind one that was cut short, and a reader stops there.   *)
LEMMA LogEditBreaks ==
  ASSUME IInv, LogEdit, manifests[current].end # "whole",
         manifests' = [manifests EXCEPT ![vs.manifest] = [@ EXCEPT !.end = "broken"]]
  PROVE  IInv'
<1>. DEFINE m == [manifests[current] EXCEPT !.end = "broken"]
<1>1. /\ pc = "up" /\ pc' = "up" /\ applying # None /\ ~applying.logged
      /\ applying' = [applying EXCEPT !.logged = TRUE]
      /\ UNCHANGED <<logs, tables, current, vs, mem, imm, logFile, opening, writing, flush, compaction,
                     held, bgError, reuse, issued, acked, durable, created, repaired>>
  BY DEF LogEdit, history
<1>2. /\ TypeOK /\ DiskInv /\ UpInv /\ FlushInv /\ CompactionInv /\ ManifestInv /\ EditInv
      /\ current \in DOMAIN manifests /\ vs.manifest = current /\ manifests[current] \in ManifestType
      /\ reuse \in BOOLEAN
  BY <1>1, UpIs
<1>3. /\ m \in ManifestType /\ m.recs = manifests[current].recs /\ m.synced = manifests[current].synced
      /\ m.end = "broken"
  BY <1>2 DEF ManifestType
<1>4. /\ DOMAIN manifests' = DOMAIN manifests /\ \A n \in DOMAIN manifests : n # current => manifests'[n] = manifests[n]
      /\ manifests'[current] = m
  BY <1>1, <1>2
<1>. HIDE DEF m
<1>5. ~reuse /\ bgError
  BY <1>1, <1>2 DEF IInv, WholeInv
<1>6. SameEdits
  BY <1>1, <1>2, <1>3, <1>4 DEF SameEdits
<1>7. /\ DiskTypes' /\ DiskInv' /\ UpInv' /\ (vs \in VersionType)' /\ (opening \in OpeningType)'
      /\ Ends(manifests[current])' = Ends(manifests[current])
  BY <1>1, <1>6, WithSameEdits
<1>8. /\ applying' \in Application /\ applying' # None /\ applying'.logged /\ applying'.edit = applying.edit
      /\ applying'.by = applying.by
  <2>1. applying \in Application
    BY <1>1, <1>2 DEF TypeOK
  <2>2. /\ applying' \in Application /\ applying'.logged /\ applying'.edit = applying.edit
        /\ applying'.by = applying.by
    BY <1>1, <2>1 DEF Application
  <2>3. QED
    BY <2>2, NoneAssumption
<1>9. TypeOK'
  BY <1>1, <1>2, <1>7, <1>8 DEF TypeOK, DiskTypes
<1>10. FlushInv' /\ CompactionInv'
  <2>1. (applying' = None \/ applying'.by = "flush") => (applying = None \/ applying.by = "flush")
    BY <1>8
  <2>2. flush = None
    BY <1>1, <1>2 DEF EditInv
  <2>3. QED
    BY <1>1, <1>2, <2>1, <2>2 DEF FlushInv, CompactionInv
<1>11. ManifestInv' /\ WorkInv'
  BY <1>1, <1>3, <1>4, <1>5 DEF ManifestInv, WorkInv
<1>12. EditInv'
  <2>1. \A n \in Ends(manifests[current])' : manifests'[current'].recs[n].next <= applying'.edit.next
    BY <1>1, <1>2, <1>3, <1>4, <1>7, <1>8 DEF EditInv
  <2>2. QED
    BY <1>1, <1>2, <1>8, <2>1 DEF EditInv
<1>13. WholeInv'
  BY <1>1, <1>5 DEF WholeInv
<1>14. QED
  BY <1>1, <1>7, <1>9, <1>10, <1>11, <1>12, <1>13, WhenUp DEF IInv

LEMMA LogEditIInv == ASSUME IInv, LogEdit PROVE IInv'
<1>. DEFINE m == manifests[vs.manifest]
<1>1. pc = "up" /\ vs.manifest = current /\ manifests[current] \in ManifestType
  BY UpIs DEF LogEdit
<1>2. PICK x \in AddEdit(m, applying.edit) : manifests' = [manifests EXCEPT ![vs.manifest] = x]
  BY DEF LogEdit
<1>3. \/ m.end # "broken" /\ x = Appended(m, applying.edit)
      \/ m.end # "whole" /\ x = [m EXCEPT !.end = "broken"]
  BY <1>2 DEF AddEdit
<1>4. CASE m.end # "broken" /\ x = Appended(m, applying.edit)
  <2>1. manifests' = [manifests EXCEPT ![vs.manifest] = Appended(@, applying.edit)]
    BY <1>2, <1>4
  <2>2. QED
    BY <1>1, <1>4, <2>1, LogEditAppends
<1>5. CASE m.end # "whole" /\ x = [m EXCEPT !.end = "broken"]
  <2>1. manifests' = [manifests EXCEPT ![vs.manifest] = [@ EXCEPT !.end = "broken"]]
    BY <1>2, <1>5
  <2>2. QED
    BY <1>1, <1>5, <2>1, LogEditBreaks
<1>6. QED
  BY <1>3, <1>4, <1>5

LEMMA NothingIsDeleted ==
  ASSUME NEW v, NEW inUse, NEW described, bgError, DeleteObsoleteFiles(v, inUse, described)
  PROVE  /\ \A f \in DOMAIN tables : f \in DOMAIN tables' /\ tables'[f] = tables[f]
         /\ \A m \in DOMAIN logs : m \in DOMAIN logs' /\ logs'[m] = logs[m]
<1>1. tables' = Without(tables, {}) /\ logs' = Without(logs, {})
  BY DEF DeleteObsoleteFiles
<1>2. QED
  BY <1>1 DEF Without, Restrict

LEMMA ApplyEditIInv == ASSUME IInv, ApplyEdit PROVE IInv'
<1>. USE DEF history
<1>. DEFINE edits == manifests[current].recs
            end == edits[Len(edits)]
            all == FilesAfter(edits, Len(edits))
            e == applying.edit
            inUse == IF applying.by = "flush" THEN Pending \union InVersions ELSE held
<1>1. /\ pc = "up" /\ pc' = "up" /\ applying # None /\ applying.logged /\ applying' = None
      /\ vs' = Applied(vs, e)
      /\ applying.by = "flush" => imm' = {} /\ UNCHANGED compaction
      /\ applying.by # "flush" => compaction' = None /\ UNCHANGED imm
      /\ DeleteObsoleteFiles(vs', inUse, ManifestSynced(vs.manifest))
      /\ UNCHANGED <<current, mem, logFile, opening, writing, flush, held, bgError, reuse, issued, acked,
                     durable, created, repaired>>
  BY DEF ApplyEdit
<1>2. /\ TypeOK /\ DiskInv /\ UpInv /\ FlushInv /\ CompactionInv /\ ManifestInv /\ WorkInv /\ EditInv /\ EndsAreGood
      /\ vs \in VersionType /\ opening \in OpeningType /\ vs.next \in Nat /\ logFile \in Nat /\ vs.manifest = current
      /\ current \in DOMAIN manifests /\ manifests[current] \in ManifestType /\ edits \in Seq(EditType)
      /\ vs.log \in Nat /\ reuse \in BOOLEAN /\ issued \in Nat /\ vs.files \in SUBSET Nat /\ Len(edits) \in Nat
      /\ current \in Nat /\ current # 0 /\ created /\ logFile \in DOMAIN logs /\ DOMAIN logs \subseteq Nat
  BY <1>1, UpIs
<1>3. applying \in Application /\ e \in EditType /\ Logged /\ e.added \in SUBSET Nat
  BY <1>1, <1>2 DEF TypeOK, Application, Logged, EditType
<1>4. /\ flush = None /\ e.next \in Nat /\ e.next <= vs.next /\ e.log \in Nat
      /\ \A f \in vs.files : f < e.next
  BY <1>1, <1>2 DEF EditInv
<1>5. PICK t : EditIs(t)
  BY <1>1, <1>2, EditHas
<1>6. Len(edits) > 0 /\ Len(edits) \in Ends(manifests[current])
  BY <1>1, EndOfManifest
<1>7. ~bgError => /\ Len(edits) - 1 > 0 /\ FilesAfter(edits, Len(edits) - 1) = vs.files /\ end = e /\ all = After
  <2>. SUFFICES ASSUME ~bgError
                PROVE  Len(edits) - 1 > 0 /\ FilesAfter(edits, Len(edits) - 1) = vs.files /\ end = e /\ all = After
    OBVIOUS
  <2>1. Len(edits) - 1 > 0 /\ FilesAfter(edits, Len(edits) - 1) = vs.files /\ end = e
    BY <1>1, <1>2, <1>3 DEF ManifestInv, Settled, Final
  <2>2. QED
    BY <1>2, <1>6, <2>1, FilesAfterStep DEF After
<1>8. bgError /\ manifests[current].end # "broken" => After \subseteq all
  <2>. SUFFICES ASSUME bgError, manifests[current].end # "broken" PROVE After \subseteq all
    OBVIOUS
  <2>1. vs.files \subseteq FilesAfter(edits, Len(edits) - 1) /\ end = e
    BY <1>1, <1>2, <1>3 DEF WorkInv, Working, Settled, Final
  <2>2. all = (FilesAfter(edits, Len(edits) - 1) \ end.deleted) \union end.added
    BY <1>2, <1>6, FilesAfterStep
  <2>3. QED
    BY <2>1, <2>2 DEF After
<1>9. /\ vs'.log = e.log /\ vs'.files = After /\ vs'.manifest = vs.manifest /\ vs'.next = vs.next
      /\ (vs \in VersionType)'
  <2>1. After \in SUBSET Nat
    BY <1>2, <1>3 DEF After
  <2>2. vs' = [vs EXCEPT !.files = After, !.log = e.log, !.described = TRUE]
    BY <1>1 DEF Applied, After
  <2>3. QED
    BY <1>1, <1>2, <1>4, <2>1, <2>2 DEF VersionType
<1>10. e.log <= logFile
  <2>1. vs.log <= logFile
    BY <1>1, <1>2 DEF UpInv
  <2>2. QED
    BY <1>2, <1>5, <2>1 DEF EditIs
<1>11. SyncsAndDeletes(current, vs', inUse)
  BY <1>1, <1>2, <1>4, <1>9, SyncedAndDeleted
<1>. HIDE DEF inUse
<1>12. /\ current \in DOMAIN manifests' /\ manifests'[current].recs = edits
       /\ manifests'[current].synced = Len(edits) /\ manifests'[current].end = manifests[current].end
       /\ \A n \in DOMAIN manifests' : n \in DOMAIN manifests /\ manifests'[n].end = manifests[n].end
       /\ \A f \in After \union inUse : f \in DOMAIN tables => f \in DOMAIN tables' /\ tables'[f] = tables[f]
       /\ \A m \in DOMAIN logs : m >= e.log => m \in DOMAIN logs' /\ logs'[m] = logs[m]
       /\ \A m \in DOMAIN logs' : m \in DOMAIN logs /\ logs'[m] = logs[m]
  BY <1>9, <1>11 DEF SyncsAndDeletes
<1>13. TypeOK'
  <2>1. DiskTypes'
    BY <1>11 DEF SyncsAndDeletes, DiskTypes
  <2>2. (opening \in OpeningType)'
    BY <1>1, <1>2 DEF OpeningType
  <2>3. imm' \in SUBSET Records(issued) /\ compaction' \in [inputs : SUBSET Nat, out : Nat] \union {None}
    BY <1>1, <1>2 DEF TypeOK
  <2>4. QED
    BY <1>1, <1>2, <1>9, <2>1, <2>2, <2>3 DEF TypeOK, DiskTypes
<1>14. Ends(manifests[current])' = {Len(edits)}
  BY <1>1, <1>2, <1>6, <1>12 DEF Ends
<1>15. Good(end, all, tables, logs, current, issued, acked, Promised) /\ end.next \in Nat
  BY <1>2, <1>6 DEF EndsAreGood, Good
<1>16. \A f \in After : f \in DOMAIN tables /\ f \in DOMAIN tables' /\ tables'[f] = tables[f]
                        /\ tables[f].ok /\ f < e.next
  <2>1. \A f \in After : f \in DOMAIN tables /\ tables[f].ok /\ f < e.next
    BY <1>1, <1>2, <1>4, <1>5 DEF After, UpInv, EditIs
  <2>2. QED
    BY <1>12, <2>1
<1>17. DiskInv'
  <2>1. Keeps(tables, tables', all) /\ Grows(logs, logs', end.log)
    <3>1. CASE ~bgError
      BY <1>7, <1>12, <3>1 DEF Keeps, Grows, Longer
    <3>2. CASE bgError
      <4>1. /\ \A f \in DOMAIN tables : f \in DOMAIN tables' /\ tables'[f] = tables[f]
            /\ \A m \in DOMAIN logs : m \in DOMAIN logs' /\ logs'[m] = logs[m]
        BY <1>1, <3>2, NothingIsDeleted
      <4>2. QED
        BY <4>1 DEF Keeps, Grows, Longer
    <3>3. QED
      BY <3>1, <3>2
  <2>2. Good(end, all, tables', logs', current, issued, acked, Promised)
    BY <1>2, <1>15, <2>1, GoodStays
  <2>3. Promised' = Promised
    BY <1>1 DEF Promised
  <2>4. Final(manifests'[current]) = end /\ end.next <= end.next
    BY <1>12, <1>15 DEF Final
  <2>5. EndsAreGood'
    BY <1>1, <1>12, <1>14, <2>2, <2>3, <2>4 DEF EndsAreGood
  <2>6. QED
    BY <1>1, <1>2, <1>6, <1>12, <2>5 DEF DiskInv
<1>18. UpInv'
  <2>1. \A n \in Ends(manifests[current])' : /\ manifests'[current'].recs[n].next <= vs'.next
                                             /\ manifests'[current'].recs[n].log <= logFile'
    <3>1. end.next <= vs.next /\ end.log <= logFile
      BY <1>1, <1>2, <1>6 DEF UpInv
    <3>2. QED
      BY <1>1, <1>9, <1>12, <1>14, <3>1
  <2>2. \A f \in vs'.files \union held' : f \in DOMAIN tables' /\ tables'[f].ok /\ f < vs'.next
    <3>1. ASSUME NEW f \in After PROVE f \in DOMAIN tables' /\ tables'[f].ok /\ f < vs.next
      <4>1. f \in DOMAIN tables' /\ tables'[f].ok /\ f < e.next /\ f \in Nat
        BY <1>9, <1>16 DEF VersionType
      <4>2. QED
        BY <1>2, <1>4, <4>1
    <3>2. ASSUME NEW f \in held PROVE f \in DOMAIN tables' /\ tables'[f].ok /\ f < vs.next
      <4>1. f \in DOMAIN tables /\ tables[f].ok /\ f < vs.next
        BY <1>1, <1>2 DEF UpInv
      <4>2. f \in inUse
        BY DEF inUse, InVersions
      <4>3. QED
        BY <1>12, <4>1, <4>2
    <3>3. QED
      BY <1>1, <1>9, <3>1, <3>2
  <2>3. logFile \in DOMAIN logs' /\ logs'[logFile] = logs[logFile]
    BY <1>2, <1>4, <1>10, <1>12
  <2>4. Has(tables', After, logs', e.log, acked, Promised)
    <3>1. Keeps(tables, tables', After) /\ After \subseteq DOMAIN tables
      BY <1>16 DEF Keeps
    <3>2. Grows(logs, logs', e.log)
      BY <1>12 DEF Grows, Longer
    <3>3. Has(tables, After, logs, e.log, acked, Promised)
      BY <1>1, EditHasWrites
    <3>4. QED
      BY <3>1, <3>2, <3>3, HasStays
  <2>5. ASSUME NEW id \in acked PROVE InSet(mem, id) \/ InSet(imm', id) \/ InTables(tables', After, id)
    <3>1. InSet(mem, id) \/ InSet(imm, id) \/ InTables(tables, vs.files, id)
      BY <1>1, <1>2 DEF UpInv
    <3>2. /\ InTables(tables, vs.files, id) => InTables(tables, After, id)
          /\ applying.by = "flush" /\ InSet(imm, id) => InTables(tables, After, id)
      BY <1>5, EditKeepsRecords
    <3>3. applying.by # "flush" => imm' = imm
      BY <1>1
    <3>4. InTables(tables, After, id) => InTables(tables', After, id)
      BY <1>16 DEF InTables
    <3>5. QED
      BY <3>1, <3>2, <3>3, <3>4
  <2>6. /\ current' # 0 /\ created' /\ vs'.manifest = current' /\ vs'.manifest < vs'.next /\ vs'.log <= logFile'
        /\ logFile' < vs'.next /\ \A n \in DOMAIN logs' : n < vs'.next
    BY <1>1, <1>2, <1>9, <1>10, <1>12 DEF UpInv
  <2>7. /\ \A r \in mem : r.id \in acked => \E k \in 1..Len(logs[logFile].recs) : logs[logFile].recs[k] = r
        /\ writing # None => /\ writing.id = issued /\ issued \notin acked /\ \A r \in mem : r.id # issued
                             /\ \/ logs[logFile].torn
                                \/ \E k \in 1..Len(logs[logFile].recs) : logs[logFile].recs[k] = writing
        /\ ~reuse => \A r \in mem : r.id \in durable =>
                        \E k \in 1..logs[logFile].synced : logs[logFile].recs[k] = r
    BY <1>1, <1>2 DEF UpInv
  <2>8. /\ \A r \in mem' : r.id \in acked' => \E k \in 1..Len(logs'[logFile'].recs) : logs'[logFile'].recs[k] = r
        /\ writing' # None => /\ writing'.id = issued' /\ issued' \notin acked' /\ \A r \in mem' : r.id # issued'
                              /\ \/ logs'[logFile'].torn
                                 \/ \E k \in 1..Len(logs'[logFile'].recs) : logs'[logFile'].recs[k] = writing'
        /\ ~reuse' => \A r \in mem' : r.id \in durable' =>
                        \E k \in 1..logs'[logFile'].synced : logs'[logFile'].recs[k] = r
    BY <1>1, <2>3, <2>7
  <2>9. \A id \in acked' : InSet(mem', id) \/ InSet(imm', id) \/ InTables(tables', vs'.files, id)
    BY <1>1, <1>9, <2>5
  <2>10. logFile' \in DOMAIN logs' /\ Promised' = Promised
    BY <1>1, <2>3 DEF Promised
  <2>11. Has(tables', vs'.files, logs', vs'.log, acked', Promised')
    BY <1>1, <1>9, <2>4, <2>10
  <2>12. QED
    BY <2>1, <2>2, <2>6, <2>8, <2>9, <2>10, <2>11 DEF UpInv
<1>19. FlushInv' /\ EditInv'
  BY <1>1, <1>4 DEF FlushInv, EditInv
<1>20. CompactionInv'
  <2>. SUFFICES ASSUME compaction' # None
                PROVE  /\ compaction'.inputs \subseteq vs'.files /\ compaction'.out \in DOMAIN tables'
                       /\ compaction'.out \notin vs'.files \union held' /\ compaction'.out < vs'.next
                       /\ ~tables'[compaction'.out].ok
    BY DEF CompactionInv
  <2>1. applying.by = "flush" /\ compaction' = compaction
    BY <1>1
  <2>2. /\ compaction.inputs \subseteq vs.files /\ compaction.out \in DOMAIN tables
        /\ compaction.out \notin vs.files \union held /\ compaction.out < vs.next
        /\ ~tables[compaction.out].ok
    BY <1>1, <1>2, <2>1 DEF CompactionInv
  <2>3. compaction.out # t /\ e.deleted = {} /\ e.added = {t}
    BY <1>5, <2>1 DEF EditIs
  <2>4. compaction.out \in inUse
    BY <2>1 DEF inUse, Pending
  <2>5. compaction.inputs \subseteq After /\ compaction.out \notin After
    BY <2>2, <2>3 DEF After
  <2>6. compaction.out \in DOMAIN tables' /\ tables'[compaction.out] = tables[compaction.out]
    BY <1>12, <2>2, <2>4
  <2>7. QED
    BY <1>1, <1>9, <2>1, <2>2, <2>5, <2>6
<1>21. ManifestInv' /\ WorkInv'
  <2>1. ~Logged' /\ Settled(manifests[current].recs)' = Len(edits)
    BY <1>1, <1>12 DEF Logged, Settled
  <2>2. ManifestInv'
    BY <1>1, <1>2, <1>6, <1>7, <1>9, <1>12, <2>1 DEF ManifestInv
  <2>3. WorkInv'
    BY <1>1, <1>2, <1>6, <1>8, <1>9, <1>12, <2>1 DEF WorkInv
  <2>4. QED
    BY <2>2, <2>3
<1>22. WholeInv'
  BY <1>1, <1>12 DEF IInv, WholeInv
<1>23. QED
  BY <1>1, <1>13, <1>17, <1>18, <1>19, <1>20, <1>21, <1>22, WhenUp DEF IInv

-----------------------------------------------------------------------------
(* The power fails.  A file is cut at an end at or behind its last sync.    *)
CutOf(X, f, g) ==
  /\ g.recs \in Seq(X) /\ g.synced \in Nat /\ g.synced = Len(g.recs)
  /\ g.synced \in f.synced..Len(f.recs)
  /\ \A k \in 1..Len(g.recs) : g.recs[k] = f.recs[k]

LEMMA CutIs ==
  ASSUME NEW X, NEW f, f.recs \in Seq(X), f.synced \in Nat, f.synced <= Len(f.recs),
         NEW g, NEW recs \in Kept(f), g.recs = recs, g.synced = Len(recs)
  PROVE  CutOf(X, f, g)
<1>2. PICK n \in f.synced..Len(f.recs) : recs = SubSeq(f.recs, 1, n)
  BY DEF Kept
<1>3. Len(f.recs) \in Nat /\ n \in Nat /\ n <= Len(f.recs)
  OBVIOUS
<1>. DEFINE s == f.recs
<1>. HIDE DEF s
<1>4. s \in Seq(X) /\ n <= Len(s) /\ recs = SubSeq(s, 1, n)
  BY <1>2, <1>3 DEF s
<1>5. recs \in Seq(X) /\ Len(recs) = n /\ \A k \in 1..n : recs[k] = s[k]
  BY <1>3, <1>4
<1>6. QED
  BY <1>3, <1>5 DEF s, CutOf

LEMMA LogCutIs ==
  ASSUME NEW w, NEW f \in LogType(w), f.synced <= Len(f.recs), reuse \in BOOLEAN, NEW g \in LogCuts(f)
  PROVE  CutOf(Records(w), f, g) /\ g \in LogType(w)
<1>1. PICK recs \in Kept(f), torn \in {f.torn, reuse} : g = [recs |-> recs, synced |-> Len(recs), torn |-> torn]
  BY DEF LogCuts
<1>2. f.recs \in Seq(Records(w)) /\ f.synced \in Nat /\ f.torn \in BOOLEAN
  BY DEF LogType
<1>3. g.recs = recs /\ g.synced = Len(recs) /\ g.torn = torn /\ torn \in BOOLEAN
  BY <1>1, <1>2
<1>4. CutOf(Records(w), f, g)
  BY <1>2, <1>3, CutIs
<1>5. recs \in Seq(Records(w)) /\ Len(recs) \in Nat
  BY <1>3, <1>4 DEF CutOf
<1>6. QED
  BY <1>1, <1>3, <1>4, <1>5 DEF LogType

LEMMA ManifestCutIs ==
  ASSUME NEW f \in ManifestType, f.synced <= Len(f.recs), NEW g \in ManifestCuts(f)
  PROVE  CutOf(EditType, f, g) /\ g \in ManifestType
<1>1. PICK recs \in Kept(f), end \in {f.end, "whole"} \union IF reuse THEN {"torn"} ELSE {} :
         g = [recs |-> recs, synced |-> Len(recs), end |-> end]
  BY DEF ManifestCuts
<1>2. f.recs \in Seq(EditType) /\ f.synced \in Nat /\ f.end \in {"whole", "torn", "broken"}
  BY DEF ManifestType
<1>3. g.recs = recs /\ g.synced = Len(recs) /\ end \in {"whole", "torn", "broken"}
  BY <1>1, <1>2
<1>4. CutOf(EditType, f, g)
  BY <1>2, <1>3, CutIs
<1>5. recs \in Seq(EditType) /\ Len(recs) \in Nat
  BY <1>3, <1>4 DEF CutOf
<1>6. QED
  BY <1>1, <1>3, <1>4, <1>5 DEF ManifestType

LEMMA PowerFailsIInv == ASSUME IInv, TRUE \notin Faults, PowerFails PROVE IInv'
<1>. DEFINE m == manifests[current]
            n == Len(manifests'[current].recs)
<1>1. /\ TypeOK /\ DiskInv /\ Stopped /\ pc' = "down" /\ acked' = durable /\ reuse \in Faults
      /\ UNCHANGED <<tables, current, reuse, issued, durable, created, repaired>>
  BY DEF PowerFails, IInv
<1>2. reuse = FALSE /\ issued \in Nat /\ durable \subseteq acked
  BY <1>1 DEF TypeOK
<1>3. DOMAIN logs' = DOMAIN logs /\ \A l \in DOMAIN logs : logs'[l] \in LogCuts(logs[l])
  BY <1>2 DEF PowerFails
<1>4. DOMAIN manifests' = DOMAIN manifests /\ \A l \in DOMAIN manifests : manifests'[l] \in ManifestCuts(manifests[l])
  BY <1>2 DEF PowerFails
<1>5. \A l \in DOMAIN logs :
        /\ logs'[l] \in LogType(issued) /\ logs'[l].synced = Len(logs'[l].recs)
        /\ logs'[l].synced \in logs[l].synced..Len(logs[l].recs) /\ logs[l].synced \in Nat
        /\ \A k \in 1..Len(logs'[l].recs) : logs'[l].recs[k] = logs[l].recs[k]
  <2>1. ASSUME NEW l \in DOMAIN logs
        PROVE  /\ logs[l] \in LogType(issued) /\ logs[l].synced <= Len(logs[l].recs)
               /\ logs[l].synced \in Nat
    BY <1>1 DEF TypeOK, LogType
  <2>2. ASSUME NEW l \in DOMAIN logs
        PROVE  CutOf(Records(issued), logs[l], logs'[l]) /\ logs'[l] \in LogType(issued)
    BY <1>2, <1>3, <2>1, LogCutIs
  <2>3. QED
    BY <2>1, <2>2 DEF CutOf
<1>6. \A l \in DOMAIN manifests :
        /\ manifests'[l] \in ManifestType /\ manifests'[l].synced = Len(manifests'[l].recs)
        /\ manifests'[l].synced \in manifests[l].synced..Len(manifests[l].recs)
        /\ \A k \in 1..Len(manifests'[l].recs) : manifests'[l].recs[k] = manifests[l].recs[k]
        /\ manifests[l].synced \in Nat /\ Len(manifests[l].recs) \in Nat
  <2>1. ASSUME NEW l \in DOMAIN manifests
        PROVE  /\ manifests[l] \in ManifestType /\ manifests[l].synced <= Len(manifests[l].recs)
               /\ manifests[l].synced \in Nat /\ Len(manifests[l].recs) \in Nat
    BY <1>1 DEF TypeOK, ManifestType
  <2>2. ASSUME NEW l \in DOMAIN manifests
        PROVE  CutOf(EditType, manifests[l], manifests'[l]) /\ manifests'[l] \in ManifestType
    BY <1>4, <2>1, ManifestCutIs
  <2>3. QED
    BY <2>1, <2>2 DEF CutOf
<1>7. DiskTypes'
  <2>1. \A l \in DOMAIN logs' : logs'[l] \in LogType(issued) /\ logs'[l].synced <= Len(logs'[l].recs)
    BY <1>3, <1>5 DEF LogType
  <2>2. \A l \in DOMAIN manifests' : manifests'[l] \in ManifestType /\ manifests'[l].synced <= Len(manifests'[l].recs)
    BY <1>4, <1>6 DEF ManifestType
  <2>3. /\ IsBounded(DOMAIN logs') /\ IsBounded(DOMAIN tables)
        /\ \A l \in DOMAIN tables : tables[l] \in TableType(issued)
    BY <1>1, <1>3 DEF TypeOK
  <2>4. QED
    BY <1>1, <2>1, <2>2, <2>3 DEF DiskTypes
<1>7a. WholeInv'
  BY <1>1, <1>2 DEF WholeInv
<1>8. ASSUME NEW from, NEW id, InSynced(logs, from, id)
      PROVE  InLogs(logs', from, id) /\ InSynced(logs', from, id)
  <2>1. PICK l \in DOMAIN logs : l >= from /\ \E k \in 1..logs[l].synced : logs[l].recs[k].id = id
    BY <1>8 DEF InSynced
  <2>2. PICK k \in 1..logs[l].synced : logs[l].recs[k].id = id
    BY <2>1
  <2>3. k \in 1..logs'[l].synced /\ k \in 1..Len(logs'[l].recs)
    BY <1>5, <2>2
  <2>4. logs'[l].recs[k].id = id
    BY <1>5, <2>2, <2>3
  <2>5. QED
    BY <1>3, <2>1, <2>3, <2>4 DEF InLogs, InSynced
<1>9. CASE current = 0
  <2>1. DOMAIN logs = {} /\ DOMAIN tables = {} /\ acked = {} /\ ~created
    BY <1>1, <1>9 DEF DiskInv
  <2>2. QED
    <3>1. DiskInv'
      BY <1>1, <1>2, <1>3, <1>9, <2>1 DEF DiskInv
    <3>2. QED
      BY <1>1, <1>7, <1>7a, <3>1, WhenStopped
<1>10. CASE current # 0
  <2>1. current \in DOMAIN manifests /\ EndsAreGood
    BY <1>1, <1>10 DEF DiskInv
  <2>2. /\ n \in Nat /\ manifests'[current].synced = n /\ n >= m.synced /\ n <= Len(m.recs)
        /\ \A k \in 1..n : manifests'[current].recs[k] = m.recs[k]
        /\ m.synced \in Nat /\ Len(m.recs) \in Nat
    BY <1>6, <2>1
  <2>. HIDE DEF n
  <2>3. \A k \in Ends(manifests[current])' : k = n /\ n > 0
    <3>1. Ends(manifests[current])' = {k \in 1..n : k = n \/ (~reuse /\ k >= n)}
      BY <1>1, <2>2 DEF Ends, n
    <3>2. QED
      BY <2>2, <3>1
  <2>4. ASSUME n > 0
        PROVE  Good(m.recs[n], FilesAfter(manifests'[current].recs, n), tables, logs', current, issued,
                    durable, durable)
    <3>1. n \in Ends(manifests[current])
      BY <1>2, <2>2, <2>4 DEF Ends
    <3>2. Good(m.recs[n], FilesAfter(m.recs, n), tables, logs, current, issued, acked, durable)
      BY <1>2, <2>1, <3>1 DEF EndsAreGood, Promised
    <3>3. FilesAfter(manifests'[current].recs, n) = FilesAfter(m.recs, n)
      BY <2>2, FilesAfterSame
    <3>. DEFINE files == FilesAfter(m.recs, n)
    <3>. HIDE DEF files
    <3>4. Good(m.recs[n], files, tables, logs, current, issued, acked, durable)
      BY <3>2 DEF files
    <3>5. \A id \in durable : InTables(tables, files, id) \/ InSynced(logs, m.recs[n].log, id)
      BY <3>4 DEF Good
    <3>6. \A id \in durable : /\ InTables(tables, files, id) \/ InLogs(logs', m.recs[n].log, id)
                              /\ InTables(tables, files, id) \/ InSynced(logs', m.recs[n].log, id)
      BY <1>8, <3>5
    <3>7. Good(m.recs[n], files, tables, logs', current, issued, durable, durable)
      BY <3>4, <3>6 DEF Good
    <3>8. QED
      BY <3>3, <3>7 DEF files
  <2>5. EndsAreGood'
    <3>1. Promised' = durable
      BY <1>1, <1>2 DEF Promised
    <3>2. ASSUME NEW k \in Ends(manifests[current])'
          PROVE  /\ Good(manifests'[current].recs[k], FilesAfter(manifests'[current].recs, k), tables, logs',
                         current, issued, durable, durable)
                 /\ manifests'[current].recs[k].next <= Final(manifests'[current]).next
      <4>1. k = n /\ n > 0 /\ n \in 1..n
        BY <2>2, <2>3
      <4>2. manifests'[current].recs[n] = m.recs[n] /\ Final(manifests'[current]) = m.recs[n]
        BY <2>2, <4>1 DEF Final, n
      <4>3. m.recs[n].next <= m.recs[n].next
        BY <2>4, <4>1 DEF Good
      <4>4. QED
        BY <2>4, <4>1, <4>2, <4>3
    <3>3. QED
      BY <1>1, <3>1, <3>2 DEF EndsAreGood
  <2>6. created => n > 0
    <3>1. created => m.synced > 0
      BY <1>1, <1>2 DEF DiskInv
    <3>2. QED
      BY <2>2, <3>1
  <2>7. DiskInv'
    <3>1. current' = current /\ current' \in DOMAIN manifests'
      BY <1>1, <1>4, <2>1
    <3>2. created' => Len(manifests'[current'].recs) > 0 /\ (reuse' \/ manifests'[current'].synced > 0)
      BY <1>1, <2>2, <2>6 DEF n
    <3>3. acked' # {} => created' \/ repaired'
      BY <1>1, <1>2 DEF DiskInv
    <3>4. QED
      BY <1>10, <2>5, <3>1, <3>2, <3>3 DEF DiskInv
  <2>8. QED
    BY <1>1, <1>7, <1>7a, <2>7, WhenStopped
<1>11. QED
  BY <1>9, <1>10

-----------------------------------------------------------------------------
(* RepairDB gives every log a number of its own, above all of the directory.*)
Number(n) == NextFile + Cardinality({m \in DOMAIN logs : m < n})
NumbersAreNew ==
  /\ NextFile \in Nat \ {0} /\ Cardinality(DOMAIN logs) \in Nat
  /\ \A f \in Files : f \in Nat \ {0} /\ f < NextFile
  /\ \A n \in DOMAIN logs :
       Number(n) \in Nat /\ Number(n) >= NextFile /\ Number(n) < NextFile + Cardinality(DOMAIN logs)
  /\ \A n \in DOMAIN logs, k \in DOMAIN logs : Number(n) = Number(k) => n = k

LEMMA RepairNumbers == ASSUME TypeOK PROVE NumbersAreNew
<1>1. PICK b \in Nat : DOMAIN logs \subseteq 1..b
  BY DEF TypeOK, IsBounded
<1>2. PICK c \in Nat : DOMAIN tables \subseteq 1..c
  BY DEF TypeOK, IsBounded
<1>. DEFINE S == {0} \union Files
<1>3. NextFile \in Nat \ {0} /\ \A f \in Files : f \in Nat \ {0} /\ f < NextFile
  <2>1. S \in SUBSET (0..(b + c)) /\ S # {} /\ b + c \in Nat
    BY <1>1, <1>2 DEF Files
  <2>. HIDE DEF S
  <2>2. Max(S) \in S /\ \A x \in S : x <= Max(S)
    BY <2>1, GreatestNumber
  <2>3. Max(S) \in Nat /\ \A x \in S : x \in Nat
    <3>1. \A x \in 0..(b + c) : x \in Nat
      BY <1>1, <1>2
    <3>2. QED
      BY <2>1, <2>2, <3>1
  <2>4. NextFile = Max(S) + 1
    BY DEF NextFile, S
  <2>5. \A f \in Files : f \in S /\ f \in Nat \ {0}
    BY <1>1, <1>2 DEF Files, S
  <2>6. QED
    BY <2>2, <2>3, <2>4, <2>5
<1>. DEFINE L == DOMAIN logs
            below(n) == {m \in L : m < n}
<1>4. IsFiniteSet(L) /\ Cardinality(L) \in Nat
  <2>1. IsFiniteSet(1..b)
    BY <1>1, FS_Interval
  <2>2. IsFiniteSet(L)
    BY <1>1, <2>1, FS_Subset
  <2>3. QED
    BY <2>2, FS_CardinalityType
<1>5. \A n \in L : n \in Nat
  BY <1>1
<1>. HIDE DEF L
<1>6. ASSUME NEW n \in L
      PROVE  Cardinality(below(n)) \in Nat /\ Cardinality(below(n)) < Cardinality(L)
  <2>1. below(n) \in SUBSET L /\ n \notin below(n)
    BY <1>5
  <2>. HIDE DEF below
  <2>2. /\ IsFiniteSet(below(n)) /\ Cardinality(below(n)) <= Cardinality(L)
        /\ Cardinality(L) = Cardinality(below(n)) => L = below(n)
    BY <1>4, <2>1, FS_Subset
  <2>3. Cardinality(below(n)) \in Nat
    BY <2>2, FS_CardinalityType
  <2>4. Cardinality(L) # Cardinality(below(n))
    BY <2>1, <2>2
  <2>5. QED
    BY <1>4, <2>2, <2>3, <2>4
<1>7. ASSUME NEW n \in L, NEW k \in L, n < k
      PROVE  Cardinality(below(n)) < Cardinality(below(k))
  <2>1. below(n) \in SUBSET below(k) /\ n \in below(k) /\ n \notin below(n) /\ below(k) \in SUBSET L
    BY <1>5, <1>7
  <2>2. Cardinality(below(n)) \in Nat /\ Cardinality(below(k)) \in Nat
    BY <1>6
  <2>. HIDE DEF below
  <2>3. IsFiniteSet(below(k))
    BY <1>4, <2>1, FS_Subset
  <2>4. /\ Cardinality(below(n)) <= Cardinality(below(k))
        /\ Cardinality(below(k)) = Cardinality(below(n)) => below(k) = below(n)
    BY <2>1, <2>3, FS_Subset
  <2>5. QED
    BY <2>1, <2>2, <2>4
<1>8. \A n \in L : Number(n) = NextFile + Cardinality(below(n))
  BY DEF Number, L
<1>. HIDE DEF below
<1>9. \A n \in L : Number(n) \in Nat /\ Number(n) >= NextFile /\ Number(n) < NextFile + Cardinality(L)
  BY <1>3, <1>4, <1>6, <1>8
<1>10. \A n \in L, k \in L : Number(n) = Number(k) => n = k
  <2>1. ASSUME NEW n \in L, NEW k \in L, Number(n) = Number(k) PROVE n = k
    <3>1. Cardinality(below(n)) = Cardinality(below(k))
      BY <1>3, <1>6, <1>8, <2>1
    <3>2. ~(n < k) /\ ~(k < n)
      BY <1>6, <1>7, <3>1
    <3>3. QED
      BY <1>5, <3>2
  <2>2. QED
    BY <2>1
<1>11. QED
  BY <1>3, <1>4, <1>9, <1>10 DEF NumbersAreNew, L

(* What it finds: the tables that can be read, and a table for every log.   *)
RepairFinds(kept) ==
  /\ \A t \in DOMAIN kept :
       /\ kept[t] \in TableType(issued) /\ kept[t].ok
       /\ t \in Nat \ {0} /\ t < NextFile + Cardinality(DOMAIN logs)
  /\ \A t \in DOMAIN tables : tables[t].ok => t \in DOMAIN kept /\ kept[t] = tables[t]
  /\ \A n \in DOMAIN logs : \A k \in 1..Len(logs[n].recs) :
       Number(n) \in DOMAIN kept /\ logs[n].recs[k] \in kept[Number(n)].recs

LEMMA Repaired ==
  ASSUME TypeOK, NEW kept, kept = Joined(ConvertLogsToTables, ExtractMetaData)
  PROVE  RepairFinds(kept)
<1>. DEFINE conv == ConvertLogsToTables
            extr == ExtractMetaData
            some == {n \in DOMAIN logs : logs[n].recs # << >>}
<1>1. NumbersAreNew
  BY RepairNumbers
<1>2. \A n \in DOMAIN logs : /\ logs[n] \in LogType(issued) /\ logs[n].recs \in Seq(Records(issued))
  BY DEF TypeOK, LogType
<1>3. /\ DOMAIN conv = {Number(n) : n \in some}
      /\ \A t \in DOMAIN conv :
           conv[t] = [recs |-> ToSet(logs[CHOOSE n \in some : Number(n) = t].recs), ok |-> TRUE]
  BY DEF ConvertLogsToTables, Number
<1>4. /\ DOMAIN extr = {n \in DOMAIN tables : tables[n].ok}
      /\ \A t \in DOMAIN extr : extr[t] = tables[t]
  BY DEF ExtractMetaData, Restrict
<1>5. DOMAIN kept = DOMAIN conv \union DOMAIN extr
  BY DEF Joined
<1>6. \A t \in DOMAIN conv : kept[t] = conv[t]
  BY DEF Joined
<1>7. \A t \in DOMAIN extr : t \notin DOMAIN conv => kept[t] = extr[t]
  BY DEF Joined
<1>. HIDE DEF conv, extr
<1>8. ASSUME NEW n \in some
      PROVE  Number(n) \in DOMAIN conv /\ kept[Number(n)] = [recs |-> ToSet(logs[n].recs), ok |-> TRUE]
  <2>1. (CHOOSE k \in some : Number(k) = Number(n)) = n
    BY <1>1 DEF NumbersAreNew
  <2>2. Number(n) \in DOMAIN conv
    BY <1>3
  <2>3. QED
    BY <1>2, <1>3, <1>6, <2>1, <2>2
<1>9. \A t \in DOMAIN tables : t \in Nat \ {0} /\ t < NextFile
  BY <1>1 DEF NumbersAreNew, Files
<1>10. \A t \in DOMAIN conv : t \in Nat \ {0} /\ t >= NextFile /\ t < NextFile + Cardinality(DOMAIN logs)
  BY <1>1, <1>3 DEF NumbersAreNew
<1>11. \A t \in DOMAIN tables : t \notin DOMAIN conv
  BY <1>1, <1>9, <1>10 DEF NumbersAreNew
<1>12. ASSUME NEW t \in DOMAIN kept
       PROVE  /\ kept[t] \in TableType(issued) /\ kept[t].ok
              /\ t \in Nat \ {0} /\ t < NextFile + Cardinality(DOMAIN logs)
  <2>1. CASE t \in DOMAIN conv
    <3>1. PICK n \in some : t = Number(n)
      BY <1>3, <2>1
    <3>2. kept[t] = [recs |-> ToSet(logs[n].recs), ok |-> TRUE]
      BY <1>8, <3>1
    <3>3. ToSet(logs[n].recs) \in SUBSET Records(issued)
      BY <1>2 DEF ToSet
    <3>4. QED
      BY <1>10, <2>1, <3>2, <3>3 DEF TableType
  <2>2. CASE t \in DOMAIN extr
    <3>1. t \in DOMAIN tables /\ tables[t].ok /\ kept[t] = tables[t]
      BY <1>4, <1>7, <1>11, <2>2
    <3>2. tables[t] \in TableType(issued)
      BY <3>1 DEF TypeOK
    <3>3. t < NextFile + Cardinality(DOMAIN logs)
      BY <1>1, <1>9, <3>1 DEF NumbersAreNew
    <3>4. QED
      BY <1>9, <3>1, <3>2, <3>3
  <2>3. QED
    BY <1>5, <2>1, <2>2
<1>13. \A t \in DOMAIN tables : tables[t].ok => t \in DOMAIN kept /\ kept[t] = tables[t]
  BY <1>4, <1>5, <1>7, <1>11
<1>14. ASSUME NEW n \in DOMAIN logs, NEW k \in 1..Len(logs[n].recs)
       PROVE  Number(n) \in DOMAIN kept /\ logs[n].recs[k] \in kept[Number(n)].recs
  <2>1. n \in some
    BY <1>2
  <2>2. logs[n].recs[k] \in ToSet(logs[n].recs)
    BY DEF ToSet
  <2>. HIDE DEF some
  <2>3. Number(n) \in DOMAIN conv /\ kept[Number(n)] = [recs |-> ToSet(logs[n].recs), ok |-> TRUE]
    BY <1>8, <2>1
  <2>4. QED
    BY <1>5, <2>2, <2>3
<1>15. QED
  BY <1>12, <1>13, <1>14 DEF RepairFinds

LEMMA RepairDBIInv == ASSUME IInv, RepairDB PROVE IInv'
<1>. USE DEF jobs
<1>1. PICK kept \in {Joined(ConvertLogsToTables, ExtractMetaData)} :
        tables' = kept /\ manifests' = [m \in {1} |-> NewManifest(<<RepairedEdit(kept)>>)]
  BY DEF RepairDB
<1>2. /\ pc \in {"down", "refused"} /\ ~repaired /\ Files # {} /\ logs' = << >> /\ current' = 1 /\ pc' = "down"
      /\ created' = FALSE /\ repaired' = TRUE
      /\ UNCHANGED <<vs, mem, imm, logFile, opening, jobs, bgError, reuse, issued, acked, durable>>
  BY DEF RepairDB
<1>3. TypeOK /\ DiskInv /\ AsleepInv /\ RepairFinds(kept) /\ NumbersAreNew
  <2>1. TypeOK /\ DiskInv /\ AsleepInv
    BY DEF IInv
  <2>2. QED
    BY <1>1, <2>1, Repaired, RepairNumbers
<1>. DEFINE edit == RepairedEdit(kept)
            base == NextFile + Cardinality(DOMAIN logs)
<1>4. base \in Nat /\ 1 < base /\ issued \in Nat
  <2>1. PICK f \in Files : f \in Nat \ {0} /\ f < NextFile
    BY <1>2, <1>3 DEF NumbersAreNew
  <2>2. QED
    BY <1>3, <2>1 DEF NumbersAreNew, TypeOK
<1>5. /\ edit.log = 0 /\ edit.next = base /\ edit.added = DOMAIN kept /\ edit.deleted = {}
      /\ edit.last \in 0..issued /\ edit \in EditType
  <2>. DEFINE S == {0} \union {r.seq : r \in UNION {kept[n].recs : n \in DOMAIN kept}}
  <2>1. ASSUME NEW n \in DOMAIN kept, NEW r \in kept[n].recs PROVE r.seq \in 0..issued
    <3>1. kept[n] \in TableType(issued)
      BY <1>3 DEF RepairFinds
    <3>2. r \in Records(issued)
      BY <3>1 DEF TableType
    <3>3. QED
      BY <1>4, <3>2 DEF Records
  <2>2. S \in SUBSET (0..issued) /\ S # {}
    BY <1>4, <2>1
  <2>3. Max(S) \in 0..issued
    BY <1>4, <2>2, GreatestNumber
  <2>4. DOMAIN kept \in SUBSET Nat
    BY <1>3 DEF RepairFinds
  <2>5. edit = [log |-> 0, next |-> base, last |-> Max(S), added |-> DOMAIN kept, deleted |-> {}]
    BY DEF RepairedEdit
  <2>. HIDE DEF edit, base, S
  <2>6. QED
    BY <1>4, <2>3, <2>4, <2>5 DEF EditType
<1>. HIDE DEF edit, base
<1>6. /\ DOMAIN manifests' = {1} /\ manifests'[1].recs = <<edit>> /\ manifests'[1].synced = 0
      /\ manifests'[1] \in ManifestType /\ Len(manifests'[1].recs) = 1 /\ manifests'[1].recs[1] = edit
      /\ manifests'[1].end = "whole"
  <2>1. DOMAIN manifests' = {1} /\ manifests'[1] = NewManifest(<<edit>>)
    BY <1>1 DEF edit
  <2>2. /\ NewManifest(<<edit>>) \in ManifestType /\ NewManifest(<<edit>>).recs = <<edit>>
        /\ NewManifest(<<edit>>).synced = 0 /\ NewManifest(<<edit>>).end = "whole" /\ Len(<<edit>>) = 1
    BY <1>5 DEF NewManifest, ManifestType
  <2>3. QED
    BY <2>1, <2>2
<1>7. FilesAfter(manifests'[1].recs, 1) = DOMAIN kept
  <2>1. FilesAfter(manifests'[1].recs, 1)
          = (FilesAfter(manifests'[1].recs, 1 - 1) \ manifests'[1].recs[1].deleted) \union manifests'[1].recs[1].added
    BY FilesAfterStep
  <2>2. FilesAfter(manifests'[1].recs, 1 - 1) = {}
    BY FilesAfterNone
  <2>3. QED
    BY <1>5, <1>6, <2>1, <2>2
<1>8. ASSUME NEW id \in acked PROVE InTables(kept, DOMAIN kept, id)
  <2>. DEFINE edits == manifests[current].recs
  <2>1. created
    BY <1>2, <1>3, <1>8 DEF DiskInv
  <2>2. current # 0 /\ Len(edits) > 0
    BY <1>3, <2>1 DEF DiskInv
  <2>3. Good(edits[Len(edits)], FilesAfter(edits, Len(edits)), tables, logs, current, issued, acked, Promised)
    BY <1>3, <2>2, LastIsGood
  <2>. DEFINE files == FilesAfter(edits, Len(edits))
              from == edits[Len(edits)].log
  <2>4. /\ InTables(tables, files, id) \/ InLogs(logs, from, id)
        /\ \A f \in files : f \in DOMAIN tables /\ tables[f].ok
    BY <1>8, <2>3 DEF Good
  <2>. HIDE DEF files, from
  <2>5. CASE InTables(tables, files, id)
    <3>1. PICK f \in files : \E r \in tables[f].recs : r.id = id
      BY <2>5 DEF InTables
    <3>2. f \in DOMAIN kept /\ kept[f] = tables[f]
      BY <1>3, <2>4 DEF RepairFinds
    <3>3. QED
      BY <3>1, <3>2 DEF InTables
  <2>6. CASE InLogs(logs, from, id)
    <3>1. PICK l \in DOMAIN logs : \E k \in 1..Len(logs[l].recs) : logs[l].recs[k].id = id
      BY <2>6 DEF InLogs
    <3>2. PICK k \in 1..Len(logs[l].recs) : logs[l].recs[k].id = id
      BY <3>1
    <3>3. Number(l) \in DOMAIN kept /\ logs[l].recs[k] \in kept[Number(l)].recs
      BY <1>3 DEF RepairFinds
    <3>4. QED
      BY <3>2, <3>3 DEF InTables
  <2>7. QED
    BY <2>4, <2>5, <2>6
<1>9. durable \subseteq acked
  BY <1>3 DEF TypeOK
<1>10. Good(edit, DOMAIN kept, kept, logs', 1, issued, acked, Promised')
  <2>1. \A id \in Promised' : InTables(kept, DOMAIN kept, id)
    BY <1>2, <1>8, <1>9 DEF Promised
  <2>2. \A f \in DOMAIN kept : kept[f].ok /\ f < edit.next
    BY <1>3, <1>5 DEF RepairFinds, base
  <2>3. QED
    BY <1>4, <1>5, <1>8, <2>1, <2>2 DEF Good
<1>11. DiskInv'
  <2>1. \A n \in Ends(manifests[current])' : n = 1
    BY <1>2, <1>6 DEF Ends
  <2>2. Final(manifests'[1]) = edit /\ edit.next <= edit.next
    BY <1>4, <1>5, <1>6 DEF Final
  <2>3. EndsAreGood'
    BY <1>1, <1>2, <1>6, <1>7, <1>10, <2>1, <2>2 DEF EndsAreGood
  <2>4. QED
    BY <1>2, <1>6, <2>3 DEF DiskInv
<1>12. TypeOK'
  <2>1. IsBounded(DOMAIN tables')
    <3>1. DOMAIN kept \subseteq 1..base
      BY <1>3, <1>4 DEF RepairFinds, base
    <3>2. QED
      BY <1>1, <1>4, <3>1 DEF IsBounded
  <2>2. \A t \in DOMAIN tables' : tables'[t] \in TableType(issued)
    BY <1>1, <1>3 DEF RepairFinds
  <2>3. DOMAIN logs' = {} /\ IsBounded(DOMAIN logs')
    BY <1>2 DEF IsBounded
  <2>4. \A n \in DOMAIN manifests' : manifests'[n] \in ManifestType /\ manifests'[n].synced <= Len(manifests'[n].recs)
    BY <1>6
  <2>5. (vs \in VersionType)' /\ (opening \in OpeningType)'
    BY <1>2, <1>3 DEF TypeOK, VersionType, OpeningType
  <2>6. QED
    BY <1>2, <1>3, <2>1, <2>2, <2>3, <2>4, <2>5 DEF TypeOK
<1>13. AsleepInv' /\ CreatingInv' /\ RefusedInv'
  BY <1>2, <1>3 DEF AsleepInv, CreatingInv, RefusedInv, Quiet
<1>14. WholeInv'
  BY <1>2, <1>6 DEF WholeInv
<1>15. QED
  BY <1>2, <1>11, <1>12, <1>13, <1>14, WhenAsleep DEF IInv

-----------------------------------------------------------------------------
LEMMA StutterIInv == ASSUME IInv, UNCHANGED vars PROVE IInv'
<1>. USE DEF vars, disk, process, history, jobs
<1>1. TypeOK'
  BY DEF IInv, TypeOK, VersionType, OpeningType
<1>2. DiskInv'
  BY DEF IInv, DiskInv, EndsAreGood, Ends, Promised
<1>3. Ends(manifests[current])' = Ends(manifests[current])
  BY DEF Ends
<1>4. AsleepInv' /\ CreatingInv' /\ RefusedInv' /\ OnlyUp'
  BY DEF IInv, AsleepInv, CreatingInv, RefusedInv, OnlyUp, Quiet
<1>4a. WholeInv' /\ WorkInv'
  BY DEF IInv, WholeInv, WorkInv, Settled, Logged, Final, Working
<1>5. OpeningInv'
  <2>1. Has(tables, vs.files, logs, vs.log, acked, Promised)' = Has(tables, vs.files, logs, vs.log, acked, Promised)
    BY DEF Promised
  <2>2. QED
    BY <2>1 DEF IInv, OpeningInv, Opening, Quiet, InTables, InSet, LeftInLogs
<1>6. ReadInv' /\ LogIsOpen' /\ ApplyingInv'
  BY <1>3 DEF IInv, ReadInv, LogIsOpen, ApplyingInv, Final
<1>7. UpInv'
  BY <1>3 DEF IInv, UpInv, InSet, InTables, Promised
<1>8. FlushInv' /\ CompactionInv' /\ ManifestInv' /\ EditInv'
  BY <1>3 DEF IInv, FlushInv, CompactionInv, ManifestInv, EditInv, Settled, Logged, Final
<1>9. QED
  BY <1>1, <1>2, <1>4, <1>4a, <1>5, <1>6, <1>7, <1>8 DEF IInv

LEMMA NextIInv == ASSUME TRUE \notin Faults, IInv, [Next]_vars PROVE IInv'
<1>1. ASSUME NEW sync \in BOOLEAN, WriteReturns(sync) PROVE IInv'
  <2>1. pc = "up"
    BY <1>1 DEF IInv, OnlyUp, Quiet, WriteReturns
  <2>2. QED
    BY <1>1, <2>1, WriteReturnsIInv
<1>2. CASE SyncFails
  <2>1. pc = "up"
    BY <1>2 DEF IInv, OnlyUp, Quiet, SyncFails
  <2>2. QED
    BY <1>2, <2>1, SyncFailsIInv
<1>3. CASE NewDB \/ NewDBNamed \/ Recover \/ RecoverRefuses \/ RecoverTable \/ RecoverLogFile \/ StartLog
  BY <1>3, NewDBIInv, NewDBNamedIInv, RecoverIInv, RecoverRefusesIInv, RecoverTableIInv, RecoverLogFileIInv,
     StartLogIInv
<1>4. CASE OpenAsItWas \/ LogOpening \/ ApplyOpening \/ OpenFails
  BY <1>4, OpenAsItWasIInv, LogOpeningIInv, ApplyOpeningIInv, OpenFailsIInv
<1>5. CASE WriteToLog \/ AppendFails \/ SwitchMemTable \/ StartFlush \/ FinishFlush
  BY <1>5, WriteToLogIInv, AppendFailsIInv, SwitchMemTableIInv, StartFlushIInv, FinishFlushIInv
<1>6. CASE StartCompaction \/ FinishCompaction \/ LogEdit \/ ApplyEdit
  BY <1>6, StartCompactionIInv, FinishCompactionIInv, LogEditIInv, ApplyEditIInv
<1>7. CASE FlushFails \/ CompactionFails \/ EditFails \/ NewIterator \/ DeleteIterator
  BY <1>7, FlushFailsIInv, CompactionFailsIInv, EditFailsIInv, NewIteratorIInv, DeleteIteratorIInv
<1>8. CASE ProcessStops \/ PowerFails \/ RepairDB
  BY <1>8, ProcessStopsIInv, PowerFailsIInv, RepairDBIInv
<1>9. CASE UNCHANGED vars
  BY <1>9, StutterIInv
<1>10. QED
  BY <1>1, <1>2, <1>3, <1>4, <1>5, <1>6, <1>7, <1>8, <1>9 DEF Next

(* The inductive invariant: every end at which the manifest that CURRENT    *)
(* names may be cut makes up a database that has what was promised          *)
(* (DiskInv), and what Open, flush and compaction hold in memory is what    *)
(* the files they have written say.  The machine may stop where files do    *)
(* not go on being used; with reuse_logs only the process may.              *)
THEOREM TypesOK == ASSUME TRUE \notin Faults PROVE Spec => []IInv
<1>1. Init => IInv
  BY InitIInv
<1>2. IInv /\ [Next]_vars => IInv'
  BY NextIInv
<1>3. QED
  BY <1>1, <1>2, PTL DEF Spec

(* Every promised write is in the open database, whatever append, sync,     *)
(* flush, compaction, edit, Open or repair failed or was cut short.         *)
(* Promised is what returned, but for what was not synced when power failed *)
(* and what went to a log behind an append that failed.                     *)
THEOREM WritesSurvive == ASSUME TRUE \notin Faults PROVE Spec => []PromisedWritesSurvive
<1>1. ASSUME IInv PROVE PromisedWritesSurvive
  <2>. SUFFICES ASSUME pc = "up", NEW id \in acked PROVE \E r \in Contents : r.id = id
    BY DEF PromisedWritesSurvive
  <2>1. InSet(mem, id) \/ InSet(imm, id) \/ InTables(tables, vs.files, id)
    BY <1>1 DEF IInv, UpInv
  <2>2. \A t \in vs.files : t \in DOMAIN tables
    BY <1>1 DEF IInv, UpInv
  <2>3. QED
    BY <2>1, <2>2 DEF InSet, InTables, Contents
<1>2. IInv => PromisedWritesSurvive
  BY <1>1
<1>3. QED
  BY <1>2, TypesOK, PTL

(* No table that a version, an iterator or a compaction needs is deleted.   *)
THEOREM TablesExist == ASSUME TRUE \notin Faults PROVE Spec => []TablesInUseExist
<1>1. IInv => TablesInUseExist
  BY DEF IInv, UpInv, CompactionInv, TablesInUseExist, InVersions
<1>2. QED
  BY <1>1, TypesOK, PTL

(* A database that was open once opens again, unless a compaction put its   *)
(* edit behind one that was cut short.                                      *)
THEOREM Reopens == ASSUME TRUE \notin Faults PROVE Spec => []OpensAgain
<1>1. IInv => OpensAgain
  BY DEF IInv, RefusedInv, OpensAgain
<1>2. QED
  BY <1>1, TypesOK, PTL

-----------------------------------------------------------------------------
(* Sequence numbers.  Every end of the manifest makes up a database whose   *)
(* records are in the order of their writes, with those of its tables up to *)
(* the last number that its edit names.                                     *)
Ordered(S) == \A a \in S, b \in S : a.id < b.id => a.seq < b.seq
TableRecords(T, files) == UNION {T[t].recs : t \in files}
LogRecords(L, from) == UNION {ToSet(L[m].recs) : m \in {n \in DOMAIN L : n >= from}}
UpTo(S, last) == \A r \in S : r.seq <= last

Live(n) ==
  TableRecords(tables, FilesAfter(manifests[current].recs, n))
    \union LogRecords(logs, manifests[current].recs[n].log)
DiskSeq ==
  current # 0 =>
    \A n \in Ends(manifests[current]) :
      /\ Ordered(Live(n))
      /\ UpTo(TableRecords(tables, FilesAfter(manifests[current].recs, n)), manifests[current].recs[n].last)

Recovered == mem \union TableRecords(tables, vs.files \union opening.added) \union LogRecords(logs, vs.log)
OpenSeq ==
  Opening =>
    /\ Ordered(Recovered)
    /\ UpTo(TableRecords(tables, vs.files), vs.last)
    /\ UpTo(TableRecords(tables, opening.added), opening.max)
    /\ UpTo(mem, opening.max)
    /\ \A m \in DOMAIN logs : m >= vs.log =>
         \A k \in 1..Len(logs[m].recs) :
           \/ logs[m].recs[k].seq <= opening.max
           \/ m \in opening.todo /\ ((\A l \in opening.todo : m <= l) => k > opening.at)
    /\ pc # "recovering" => opening.max <= vs.last
    /\ IF pc = "applying" THEN applying.edit.last = vs.last ELSE Final(manifests[current]).last <= vs.last

Held == mem \union imm \union TableRecords(tables, vs.files)
All(n) == Held \union Live(n) \union LogRecords(logs, vs.log)
UpSeq ==
  pc = "up" =>
    /\ writing # None => writing.seq = vs.last + 1
    /\ UpTo(Held, vs.last)
    /\ \A n \in Ends(manifests[current]) :
         /\ Ordered(All(n))
         /\ \A r \in All(n) : r.seq <= vs.last \/ r = writing
         /\ manifests[current].recs[n].last <= vs.last

EditSeq ==
  pc = "up" /\ applying # None =>
    /\ UpTo(TableRecords(tables, After), applying.edit.last) /\ applying.edit.last <= vs.last
    /\ \A n \in Ends(manifests[current]) : manifests[current].recs[n].last <= applying.edit.last

SeqInv == ~repaired => DiskSeq /\ OpenSeq /\ UpSeq /\ EditSeq

LEMMA OrderedPart == ASSUME NEW S, NEW T, Ordered(S), T \subseteq S PROVE Ordered(T)
  BY DEF Ordered

LEMMA UpToPart == ASSUME NEW S, NEW T, NEW last, UpTo(S, last), T \subseteq S PROVE UpTo(T, last)
  BY DEF UpTo

LEMMA InLogRecords ==
  ASSUME NEW L, NEW from, NEW r
  PROVE  r \in LogRecords(L, from) <=>
           \E m \in DOMAIN L : m >= from /\ \E k \in 1..Len(L[m].recs) : r = L[m].recs[k]
<1>1. ASSUME r \in LogRecords(L, from)
      PROVE  \E m \in DOMAIN L : m >= from /\ \E k \in 1..Len(L[m].recs) : r = L[m].recs[k]
  <2>1. PICK m \in DOMAIN L : m >= from /\ r \in ToSet(L[m].recs)
    BY <1>1 DEF LogRecords
  <2>2. QED
    BY <2>1 DEF ToSet
<1>2. ASSUME NEW m \in DOMAIN L, m >= from, NEW k \in 1..Len(L[m].recs), r = L[m].recs[k]
      PROVE  r \in LogRecords(L, from)
  <2>1. r \in ToSet(L[m].recs)
    BY <1>2 DEF ToSet
  <2>2. QED
    BY <1>2, <2>1 DEF LogRecords
<1>3. QED
  BY <1>1, <1>2

LEMMA RecordsAre ==
  ASSUME TypeOK
  PROVE  /\ \A from : LogRecords(logs, from) \subseteq Records(issued)
         /\ \A files : files \subseteq DOMAIN tables => TableRecords(tables, files) \subseteq Records(issued)
<1>1. ASSUME NEW from, NEW r \in LogRecords(logs, from) PROVE r \in Records(issued)
  <2>1. PICK m \in DOMAIN logs : m >= from /\ \E k \in 1..Len(logs[m].recs) : r = logs[m].recs[k]
    BY InLogRecords
  <2>2. logs[m].recs \in Seq(Records(issued))
    BY DEF TypeOK, LogType
  <2>3. QED
    BY <2>1, <2>2
<1>2. ASSUME NEW files, files \subseteq DOMAIN tables, NEW r \in TableRecords(tables, files)
      PROVE  r \in Records(issued)
  <2>1. PICK t \in files : r \in tables[t].recs
    BY DEF TableRecords
  <2>2. tables[t] \in TableType(issued)
    BY <1>2 DEF TypeOK
  <2>3. QED
    BY <2>1, <2>2 DEF TableType
<1>3. QED
  BY <1>1, <1>2

(* Logs of which some, or their ends, may be gone, and new ones are empty.  *)
NoMore(L, M) ==
  \A m \in DOMAIN M : \A k \in 1..Len(M[m].recs) :
     m \in DOMAIN L /\ k \in 1..Len(L[m].recs) /\ M[m].recs[k] = L[m].recs[k]

LEMMA FewerRecords ==
  ASSUME NEW L, NEW M, NoMore(L, M), DOMAIN M \subseteq Nat, NEW from \in Nat, NEW to \in Nat, from <= to
  PROVE  LogRecords(M, to) \subseteq LogRecords(L, from)
<1>1. ASSUME NEW r \in LogRecords(M, to) PROVE r \in LogRecords(L, from)
  <2>1. PICK m \in DOMAIN M : m >= to /\ \E k \in 1..Len(M[m].recs) : r = M[m].recs[k]
    BY InLogRecords
  <2>2. PICK k \in 1..Len(M[m].recs) : r = M[m].recs[k]
    BY <2>1
  <2>3. m \in DOMAIN L /\ k \in 1..Len(L[m].recs) /\ r = L[m].recs[k]
    BY <2>2 DEF NoMore
  <2>4. m >= from
    BY <2>1
  <2>5. QED
    BY <2>3, <2>4, InLogRecords
<1>2. QED
  BY <1>1

LEMMA SameLogs == ASSUME NEW L PROVE NoMore(L, L)
  BY DEF NoMore

LEMMA SameRecords ==
  ASSUME NEW T, NEW U, NEW files, files \subseteq DOMAIN T, Keeps(T, U, files)
  PROVE  TableRecords(U, files) = TableRecords(T, files)
<1>1. \A t \in files : U[t] = T[t]
  BY DEF Keeps
<1>2. QED
  BY <1>1 DEF TableRecords

LEMMA SeqStays ==
  ASSUME SeqInv, UNCHANGED <<logs, manifests, tables, current, pc, vs, mem, imm, opening, writing, applying,
                             reuse, repaired>>
  PROVE  SeqInv'
<1>1. Recovered' = Recovered /\ Held' = Held /\ After' = After /\ \A n : Live(n)' = Live(n) /\ All(n)' = All(n)
  BY DEF Recovered, Held, After, Live, All
<1>2. Ends(manifests[current])' = Ends(manifests[current])
  BY DEF Ends
<1>3. ~repaired => DiskSeq' /\ OpenSeq' /\ UpSeq' /\ EditSeq'
  BY <1>1, <1>2 DEF SeqInv, DiskSeq, OpenSeq, Opening, UpSeq, EditSeq
<1>4. QED
  BY <1>3 DEF SeqInv

(* The edits and their tables stay, and logs are not appended to.          *)
LEMMA DiskSeqStays ==
  ASSUME DiskSeq, TypeOK, TypeOK', current # 0, EndsAreGood, current' = current, reuse' = reuse,
         manifests'[current].recs = manifests[current].recs,
         manifests'[current].synced = manifests[current].synced, NoMore(logs, logs'),
         \A n \in Ends(manifests[current]) : Keeps(tables, tables', FilesAfter(manifests[current].recs, n))
  PROVE  DiskSeq' /\ \A n \in Ends(manifests[current]) : Live(n)' \subseteq Live(n)
<1>1. Ends(manifests[current])' = Ends(manifests[current])
  BY DEF Ends
<1>2. ASSUME NEW n \in Ends(manifests[current])
      PROVE  /\ TableRecords(tables', FilesAfter(manifests[current].recs, n))
                  = TableRecords(tables, FilesAfter(manifests[current].recs, n))
             /\ Live(n)' \subseteq Live(n)
  <2>. DEFINE e == manifests[current].recs[n]
              files == FilesAfter(manifests[current].recs, n)
  <2>1. files \subseteq DOMAIN tables /\ e.log \in Nat
    BY DEF EndsAreGood, Good
  <2>2. TableRecords(tables', files) = TableRecords(tables, files)
    BY <2>1, SameRecords
  <2>. HIDE DEF e, files
  <2>3. DOMAIN logs' \subseteq Nat
    BY DEF TypeOK, IsBounded
  <2>4. LogRecords(logs', e.log) \subseteq LogRecords(logs, e.log)
    <3>1. e.log <= e.log
      BY <2>1
    <3>2. QED
      BY <2>1, <2>3, <3>1, FewerRecords
  <2>5. Live(n) = TableRecords(tables, files) \union LogRecords(logs, e.log)
    BY DEF Live, e, files
  <2>6. Live(n)' = TableRecords(tables', files) \union LogRecords(logs', e.log)
    BY DEF Live, e, files
  <2>7. Live(n)' \subseteq Live(n)
    BY <2>2, <2>4, <2>5, <2>6
  <2>8. QED
    BY <2>2, <2>7 DEF files
<1>3. ASSUME NEW n \in Ends(manifests[current])
      PROVE  /\ Ordered(Live(n)')
             /\ UpTo(TableRecords(tables', FilesAfter(manifests[current].recs, n)), manifests[current].recs[n].last)
  <2>1. /\ Ordered(Live(n))
        /\ UpTo(TableRecords(tables, FilesAfter(manifests[current].recs, n)), manifests[current].recs[n].last)
    BY DEF DiskSeq
  <2>2. QED
    BY <1>2, <2>1, OrderedPart
<1>4. DiskSeq'
  <2>. SUFFICES ASSUME NEW n \in Ends(manifests[current])'
                PROVE  /\ Ordered(Live(n))'
                       /\ UpTo(TableRecords(tables', FilesAfter(manifests'[current'].recs, n)),
                               manifests'[current'].recs[n].last)
    BY DEF DiskSeq
  <2>1. /\ Ordered(Live(n)')
        /\ UpTo(TableRecords(tables', FilesAfter(manifests[current].recs, n)), manifests[current].recs[n].last)
    BY <1>1, <1>3
  <2>2. QED
    BY <2>1
<1>5. QED
  BY <1>2, <1>4

LEMMA SeqAsleep ==
  ASSUME DiskSeq', pc' \in {"down", "creating", "refused"}
  PROVE  SeqInv'
  BY DEF SeqInv, OpenSeq, Opening, UpSeq, EditSeq

(* An open database that goes on with the records it holds.                 *)
LEMMA SeqUpStays ==
  ASSUME IInv, TypeOK', SeqInv, ~repaired, pc = "up", current' = current, reuse' = reuse,
         manifests'[current].recs = manifests[current].recs,
         manifests'[current].synced = manifests[current].synced, NoMore(logs, logs'),
         vs'.last = vs.last, vs'.log = vs.log, writing' = writing, Held' \subseteq Held,
         \A n \in Ends(manifests[current]) : Keeps(tables, tables', FilesAfter(manifests[current].recs, n))
  PROVE  DiskSeq' /\ UpSeq' /\ Ends(manifests[current])' = Ends(manifests[current])
<1>1. TypeOK /\ EndsAreGood /\ current # 0 /\ vs.log \in Nat
  BY UpIs
<1>2. DiskSeq /\ UpSeq
  BY DEF SeqInv
<1>3. DiskSeq' /\ \A n \in Ends(manifests[current]) : Live(n)' \subseteq Live(n)
  BY <1>1, <1>2, DiskSeqStays
<1>4. Ends(manifests[current])' = Ends(manifests[current])
  BY DEF Ends
<1>5. LogRecords(logs', vs'.log) \subseteq LogRecords(logs, vs.log)
  <2>1. DOMAIN logs' \subseteq Nat /\ vs.log <= vs.log
    BY <1>1 DEF TypeOK, IsBounded
  <2>2. QED
    BY <1>1, <2>1, FewerRecords
<1>6. UpTo(Held', vs.last)
  BY <1>2, UpToPart DEF UpSeq
<1>7. ASSUME NEW n \in Ends(manifests[current])
      PROVE  Ordered(All(n)') /\ \A r \in All(n)' : r.seq <= vs.last \/ r = writing
  <2>1. Ordered(All(n)) /\ \A r \in All(n) : r.seq <= vs.last \/ r = writing
    BY <1>2 DEF UpSeq
  <2>2. All(n)' \subseteq All(n)
    BY <1>3, <1>5 DEF All
  <2>3. QED
    BY <2>1, <2>2, OrderedPart
<1>8. UpSeq'
  BY <1>2, <1>4, <1>6, <1>7 DEF UpSeq
<1>9. QED
  BY <1>3, <1>4, <1>8

LEMMA SeqWhenUp ==
  ASSUME pc' = "up", DiskSeq', UpSeq', EditSeq' PROVE SeqInv'
  BY DEF SeqInv, OpenSeq, Opening

(* What a version holds does not change with other tables.                  *)
LEMMA HeldWithSameTables ==
  ASSUME IInv, pc = "up", vs'.files = vs.files,
         \A t \in vs.files : t \in DOMAIN tables' /\ tables'[t] = tables[t]
  PROVE  /\ TableRecords(tables', vs'.files) = TableRecords(tables, vs.files)
         /\ vs.files \subseteq DOMAIN tables
<1>1. vs.files \subseteq DOMAIN tables
  BY UpIs DEF UpInv
<1>2. Keeps(tables, tables', vs.files)
  BY DEF Keeps
<1>3. QED
  BY <1>1, <1>2, SameRecords

LEMMA SwitchMemTableSeq == ASSUME IInv, SeqInv, ~repaired, SwitchMemTable PROVE SeqInv'
<1>. USE DEF jobs, history
<1>1. /\ pc = "up" /\ pc' = "up" /\ writing' = writing /\ logs' = With(logs, vs.next, NewLog)
      /\ vs' = [vs EXCEPT !.next = @ + 1] /\ imm' = mem /\ mem' = {}
      /\ UNCHANGED <<manifests, tables, current, applying, reuse, repaired, issued>>
  BY DEF SwitchMemTable
<1>2. vs \in VersionType /\ EditSeq
  BY <1>1, UpIs DEF SeqInv
<1>3. vs'.files = vs.files /\ vs'.last = vs.last /\ vs'.log = vs.log
  BY <1>1, <1>2, NumberTaken
<1>4. TypeOK'
  BY SwitchMemTableIInv DEF IInv
<1>5. NoMore(logs, logs')
  <2>1. /\ \A m \in DOMAIN logs' : m \in DOMAIN logs \union {vs.next}
        /\ \A m \in DOMAIN logs' : m # vs.next => logs'[m] = logs[m]
        /\ logs'[vs.next] = NewLog
    BY <1>1 DEF With, Joined
  <2>2. Len(NewLog.recs) = 0
    BY DEF NewLog
  <2>3. QED
    BY <2>1, <2>2 DEF NoMore
<1>6. Held' \subseteq Held
  BY <1>1, <1>3 DEF Held
<1>7. \A files : Keeps(tables, tables', files)
  BY <1>1, TablesStay
<1>8. DiskSeq' /\ UpSeq'
  BY <1>1, <1>3, <1>4, <1>5, <1>6, <1>7, SeqUpStays
<1>9. EditSeq'
  BY <1>1, <1>2, <1>3 DEF EditSeq, After, Ends
<1>10. QED
  BY <1>1, <1>8, <1>9, SeqWhenUp

LEMMA NewTableSeq ==
  ASSUME IInv, SeqInv, ~repaired, pc = "up", pc' = "up", TypeOK', vs' = [vs EXCEPT !.next = @ + 1],
         tables' = With(tables, vs.next, [recs |-> {}, ok |-> FALSE]), applying' = None,
         UNCHANGED <<logs, manifests, current, mem, imm, logFile, opening, writing, held, reuse, issued,
                     acked, durable, created, repaired>>
  PROVE  SeqInv'
<1>1. /\ EndsAreGood /\ TypeOK /\ vs \in VersionType /\ vs.next \in Nat
      /\ \A n \in Ends(manifests[current]) : manifests[current].recs[n].next <= vs.next
  BY UpIs DEF UpInv
<1>2. vs'.files = vs.files /\ vs'.last = vs.last /\ vs'.log = vs.log
  BY <1>1, NumberTaken
<1>3. \A n \in Ends(manifests[current]) : Keeps(tables, tables', FilesAfter(manifests[current].recs, n))
  BY <1>1, NewTableKeeps
<1>4. /\ DOMAIN tables' = DOMAIN tables \union {vs.next}
      /\ \A t \in DOMAIN tables : t # vs.next => tables'[t] = tables[t]
  BY DEF With, Joined
<1>5. \A t \in vs.files : t \in DOMAIN tables /\ t # vs.next
  BY NewTableUp DEF IInv, UpInv
<1>6. \A t \in vs.files : t \in DOMAIN tables' /\ tables'[t] = tables[t]
  BY <1>4, <1>5
<1>7. Held' \subseteq Held
  <2>1. TableRecords(tables', vs'.files) = TableRecords(tables, vs.files)
    BY <1>2, <1>6, HeldWithSameTables
  <2>2. QED
    BY <2>1 DEF Held
<1>8. NoMore(logs, logs')
  BY SameLogs
<1>9. DiskSeq' /\ UpSeq'
  BY <1>1, <1>2, <1>3, <1>7, <1>8, SeqUpStays
<1>10. QED
  BY <1>9, SeqWhenUp DEF EditSeq

LEMMA StartFlushSeq == ASSUME IInv, SeqInv, ~repaired, StartFlush PROVE SeqInv'
<1>1. TypeOK'
  BY StartFlushIInv DEF IInv
<1>2. QED
  BY <1>1, NewTableSeq DEF StartFlush, Idle, history

LEMMA StartCompactionSeq == ASSUME IInv, SeqInv, ~repaired, StartCompaction PROVE SeqInv'
<1>1. TypeOK'
  BY StartCompactionIInv DEF IInv
<1>2. QED
  BY <1>1, NewTableSeq DEF StartCompaction, Idle, history

LEMMA NewIteratorSeq == ASSUME SeqInv, NewIterator PROVE SeqInv'
  BY SeqStays DEF NewIterator, disk, history

LEMMA DeleteIteratorSeq == ASSUME SeqInv, DeleteIterator PROVE SeqInv'
  BY SeqStays DEF DeleteIterator, disk, history

(* Tables of the version stay, and the edits of the manifest.               *)
LEMMA SameVersionSeq ==
  ASSUME IInv, SeqInv, ~repaired, pc = "up", TypeOK',
         UNCHANGED <<logs, current, vs, mem, imm, writing, reuse>>,
         manifests'[current].recs = manifests[current].recs,
         manifests'[current].synced = manifests[current].synced,
         \A t \in vs.files : t \in DOMAIN tables' /\ tables'[t] = tables[t],
         \A n \in Ends(manifests[current]) : Keeps(tables, tables', FilesAfter(manifests[current].recs, n))
  PROVE  DiskSeq' /\ UpSeq' /\ Ends(manifests[current])' = Ends(manifests[current])
<1>1. TableRecords(tables', vs'.files) = TableRecords(tables, vs.files)
  BY HeldWithSameTables
<1>2. Held' \subseteq Held
  BY <1>1 DEF Held
<1>3. NoMore(logs, logs')
  BY SameLogs
<1>4. vs'.last = vs.last /\ vs'.log = vs.log
  OBVIOUS
<1>5. QED
  BY <1>2, <1>3, <1>4, SeqUpStays

LEMMA FinishFlushSeq == ASSUME IInv, SeqInv, ~repaired, FinishFlush PROVE SeqInv'
<1>1. /\ pc = "up" /\ pc' = "up" /\ flush # None
      /\ tables' = [tables EXCEPT ![flush] = [recs |-> imm, ok |-> TRUE]]
      /\ applying' = [edit |-> Edit(logFile, vs, {flush}, {}), by |-> "flush", logged |-> FALSE]
      /\ UNCHANGED <<logs, manifests, current, vs, mem, imm, writing, reuse>>
  BY DEF FinishFlush, LogAfterFlush, IInv, OnlyUp, Quiet
<1>2. flush \in DOMAIN tables /\ flush \notin vs.files /\ ~tables[flush].ok /\ EndsAreGood
  BY <1>1, UpIs DEF FlushInv
<1>3. \A t \in vs.files : t \in DOMAIN tables' /\ tables'[t] = tables[t]
  BY <1>1, <1>2, UpIs DEF UpInv
<1>4. \A n \in Ends(manifests[current]) : Keeps(tables, tables', FilesAfter(manifests[current].recs, n))
  BY <1>1, <1>2, UnfinishedTable
<1>5. TypeOK'
  BY FinishFlushIInv DEF IInv
<1>6. DiskSeq' /\ UpSeq' /\ Ends(manifests[current])' = Ends(manifests[current])
  BY <1>1, <1>3, <1>4, <1>5, SameVersionSeq
<1>7. UpTo(Held, vs.last) /\ \A n \in Ends(manifests[current]) : manifests[current].recs[n].last <= vs.last
  BY <1>1 DEF SeqInv, UpSeq
<1>8. /\ TableRecords(tables', vs.files) = TableRecords(tables, vs.files)
  BY <1>1, <1>3, HeldWithSameTables
<1>9. TableRecords(tables', After') \subseteq Held /\ applying'.edit.last = vs.last
  <2>1. applying'.edit.added = {flush} /\ applying'.edit.deleted = {} /\ applying'.edit.last = vs.last
    BY <1>1 DEF Edit
  <2>2. After' = vs.files \union {flush}
    BY <1>1, <2>1 DEF After
  <2>3. tables'[flush].recs = imm
    BY <1>1, <1>2
  <2>4. TableRecords(tables', After') = TableRecords(tables', vs.files) \union imm
    BY <2>2, <2>3 DEF TableRecords
  <2>5. QED
    BY <1>8, <2>1, <2>4 DEF Held
<1>10. EditSeq'
  <2>1. vs.last <= vs.last
    BY <1>1, UpIs
  <2>2. QED
    BY <1>1, <1>6, <1>7, <1>9, <2>1, UpToPart DEF EditSeq
<1>11. QED
  BY <1>1, <1>6, <1>10, SeqWhenUp

LEMMA FinishCompactionSeq == ASSUME IInv, SeqInv, ~repaired, FinishCompaction PROVE SeqInv'
<1>. DEFINE out == compaction.out
            inputs == compaction.inputs
<1>1. /\ pc = "up" /\ pc' = "up" /\ applying = None /\ compaction # None
      /\ tables' = [tables EXCEPT ![out] = [recs |-> UNION {tables[n].recs : n \in inputs}, ok |-> TRUE]]
      /\ applying' = [edit |-> Edit(vs.log, vs, {out}, inputs), by |-> "compaction", logged |-> FALSE]
      /\ UNCHANGED <<logs, manifests, current, vs, mem, imm, writing, reuse>>
  BY DEF FinishCompaction, Idle
<1>2. /\ out \in DOMAIN tables /\ out \notin vs.files /\ ~tables[out].ok /\ inputs \subseteq vs.files
      /\ EndsAreGood
  BY <1>1, UpIs DEF CompactionInv
<1>3. \A t \in vs.files : t \in DOMAIN tables' /\ tables'[t] = tables[t]
  BY <1>1, <1>2, UpIs DEF UpInv
<1>4. \A n \in Ends(manifests[current]) : Keeps(tables, tables', FilesAfter(manifests[current].recs, n))
  BY <1>1, <1>2, UnfinishedTable
<1>5. TypeOK'
  BY FinishCompactionIInv DEF IInv
<1>6. DiskSeq' /\ UpSeq' /\ Ends(manifests[current])' = Ends(manifests[current])
  BY <1>1, <1>3, <1>4, <1>5, SameVersionSeq
<1>7. UpTo(Held, vs.last) /\ \A n \in Ends(manifests[current]) : manifests[current].recs[n].last <= vs.last
  BY <1>1 DEF SeqInv, UpSeq
<1>8. /\ TableRecords(tables', vs.files) = TableRecords(tables, vs.files)
  BY <1>1, <1>3, HeldWithSameTables
<1>9. TableRecords(tables', After') \subseteq Held /\ applying'.edit.last = vs.last
  <2>1. applying'.edit.added = {out} /\ applying'.edit.deleted = inputs /\ applying'.edit.last = vs.last
    BY <1>1 DEF Edit
  <2>2. After' = (vs.files \ inputs) \union {out}
    BY <1>1, <2>1 DEF After
  <2>3. tables'[out].recs = TableRecords(tables, inputs)
    BY <1>1, <1>2 DEF TableRecords
  <2>4. TableRecords(tables', After') \subseteq TableRecords(tables', vs.files) \union TableRecords(tables, inputs)
    BY <2>2, <2>3 DEF TableRecords
  <2>5. TableRecords(tables, inputs) \subseteq TableRecords(tables, vs.files)
    BY <1>2 DEF TableRecords
  <2>6. QED
    BY <1>8, <2>1, <2>4, <2>5 DEF Held
<1>10. EditSeq'
  <2>1. vs.last <= vs.last
    BY <1>1, UpIs
  <2>2. QED
    BY <1>1, <1>6, <1>7, <1>9, <2>1, UpToPart DEF EditSeq
<1>11. QED
  BY <1>1, <1>6, <1>10, SeqWhenUp

LEMMA FlushFailsSeq == ASSUME IInv, SeqInv, ~repaired, FlushFails PROVE SeqInv'
<1>1. /\ pc = "up" /\ pc' = "up" /\ flush # None /\ tables' = Without(tables, {flush})
      /\ UNCHANGED <<logs, manifests, current, vs, mem, imm, writing, applying, reuse>>
  BY DEF FlushFails, IInv, OnlyUp, Quiet
<1>2. flush \notin vs.files /\ ~tables[flush].ok /\ EndsAreGood /\ applying = None
  BY <1>1, UpIs DEF FlushInv
<1>3. \A t \in DOMAIN tables : t # flush => t \in DOMAIN tables' /\ tables'[t] = tables[t]
  BY <1>1 DEF Without, Restrict
<1>4. \A t \in vs.files : t \in DOMAIN tables' /\ tables'[t] = tables[t]
  BY <1>1, <1>2, <1>3, UpIs DEF UpInv
<1>5. \A n \in Ends(manifests[current]) : Keeps(tables, tables', FilesAfter(manifests[current].recs, n))
  BY <1>2, <1>3, UnfinishedTable
<1>6. TypeOK'
  BY FlushFailsIInv DEF IInv
<1>7. DiskSeq' /\ UpSeq'
  BY <1>1, <1>4, <1>5, <1>6, SameVersionSeq
<1>8. QED
  BY <1>1, <1>2, <1>7, SeqWhenUp DEF EditSeq

LEMMA CompactionFailsSeq == ASSUME SeqInv, CompactionFails PROVE SeqInv'
  BY SeqStays DEF CompactionFails, disk

LEMMA EditFailsSeq == ASSUME IInv, SeqInv, ~repaired, TRUE \notin Faults, EditFails PROVE SeqInv'
<1>1. /\ pc = "up" /\ pc' = "up" /\ applying' = None
      /\ manifests' = IF applying.logged THEN manifests ELSE [manifests EXCEPT ![vs.manifest] = CutShort(@)]
      /\ UNCHANGED <<logs, tables, current, vs, mem, imm, writing, reuse>>
  BY DEF EditFails
<1>2. vs.manifest = current /\ current \in DOMAIN manifests /\ manifests[current] \in ManifestType
  BY <1>1, UpIs
<1>3. CutShort(manifests[current]).recs = manifests[current].recs
      /\ CutShort(manifests[current]).synced = manifests[current].synced
  BY <1>2 DEF CutShort, ManifestType
<1>4. manifests'[current].recs = manifests[current].recs /\ manifests'[current].synced = manifests[current].synced
  BY <1>1, <1>2, <1>3
<1>5. \A t \in vs.files : t \in DOMAIN tables' /\ tables'[t] = tables[t]
  BY <1>1, UpIs DEF UpInv
<1>6. \A files : Keeps(tables, tables', files)
  BY <1>1, TablesStay
<1>7. TypeOK'
  BY EditFailsIInv DEF IInv
<1>8. DiskSeq' /\ UpSeq'
  BY <1>1, <1>4, <1>5, <1>6, <1>7, SameVersionSeq
<1>9. QED
  BY <1>1, <1>8, SeqWhenUp DEF EditSeq

(* A record that comes after all others.                                    *)
LEMMA OrderedWithNext ==
  ASSUME NEW S, NEW w \in Nat, NEW last \in Nat, S \subseteq Records(w), Ordered(S),
         NEW r, r.id \in Nat, w <= r.id, r.seq = last + 1, \A a \in S : a.seq <= last \/ a = r
  PROVE  Ordered(S \union {r})
<1>1. ASSUME NEW a \in S PROVE a.id \in Nat /\ a.seq \in Nat /\ a.id <= r.id
  <2>1. a.id \in Nat /\ a.seq \in Nat /\ a.id <= w
    BY DEF Records
  <2>2. \A i, j, k \in Nat : i <= j /\ j <= k => i <= k
    OBVIOUS
  <2>3. QED
    BY <2>1, <2>2
<1>2. ASSUME NEW a \in S \union {r}, NEW b \in S \union {r}, a.id < b.id PROVE a.seq < b.seq
  <2>1. CASE a \in S /\ b \in S
    BY <1>2, <2>1 DEF Ordered
  <2>2. CASE a \in S /\ b = r
    <3>1. a # r
      BY <1>1, <1>2, <2>2
    <3>2. a.seq <= last /\ a.seq \in Nat
      BY <1>1, <2>2, <3>1
    <3>3. QED
      BY <2>2, <3>2
  <2>3. CASE a = r /\ b \in S
    <3>1. b.id <= r.id /\ b.id \in Nat
      BY <1>1, <2>3
    <3>2. QED
      BY <1>2, <2>3, <3>1
  <2>4. CASE a = r /\ b = r
    BY <1>2, <2>4
  <2>5. QED
    BY <2>1, <2>2, <2>3, <2>4
<1>3. QED
  BY <1>2 DEF Ordered

LEMMA UpRecords ==
  ASSUME IInv, pc = "up"
  PROVE  /\ Held \subseteq Records(issued)
         /\ \A n \in Ends(manifests[current]) : All(n) \subseteq Records(issued)
<1>1. TypeOK /\ UpInv /\ EndsAreGood
  BY UpIs
<1>2. /\ \A from : LogRecords(logs, from) \subseteq Records(issued)
      /\ \A files : files \subseteq DOMAIN tables => TableRecords(tables, files) \subseteq Records(issued)
  BY <1>1, RecordsAre
<1>3. vs.files \subseteq DOMAIN tables
  BY <1>1 DEF UpInv
<1>4. Held \subseteq Records(issued)
  BY <1>1, <1>2, <1>3 DEF Held, TypeOK
<1>5. ASSUME NEW n \in Ends(manifests[current]) PROVE All(n) \subseteq Records(issued)
  <2>1. FilesAfter(manifests[current].recs, n) \subseteq DOMAIN tables
    BY <1>1 DEF EndsAreGood, Good
  <2>2. QED
    BY <1>2, <1>4, <2>1 DEF Live, All
<1>6. QED
  BY <1>4, <1>5

(* What an append leaves in the logs is what they had, and its record.      *)
LEMMA AddedRecords ==
  ASSUME NEW L, NEW M, NEW n, NEW record, NEW from, DOMAIN M = DOMAIN L,
         \A m \in DOMAIN L : m # n => M[m] = L[m],
         \A k \in 1..Len(M[n].recs) : M[n].recs[k] = record \/ (k \in 1..Len(L[n].recs) /\ M[n].recs[k] = L[n].recs[k])
  PROVE  LogRecords(M, from) \subseteq LogRecords(L, from) \union {record}
<1>1. ASSUME NEW r \in LogRecords(M, from), r # record PROVE r \in LogRecords(L, from)
  <2>1. PICK m \in DOMAIN M : m >= from /\ \E k \in 1..Len(M[m].recs) : r = M[m].recs[k]
    BY InLogRecords
  <2>2. PICK k \in 1..Len(M[m].recs) : r = M[m].recs[k]
    BY <2>1
  <2>3. k \in 1..Len(L[m].recs) /\ r = L[m].recs[k]
    BY <1>1, <2>2
  <2>4. QED
    BY <2>1, <2>3, InLogRecords
<1>2. QED
  BY <1>1

LEMMA AppendedRecords ==
  ASSUME TypeOK, logFile \in DOMAIN logs, NEW record, NEW log \in Adds(logs[logFile], record),
         logs' = [logs EXCEPT ![logFile] = log], NEW from
  PROVE  LogRecords(logs', from) \subseteq LogRecords(logs, from) \union {record}
<1>. DEFINE f == logs[logFile]
<1>1. f \in LogType(issued) /\ f.recs \in Seq(Records(issued))
  BY DEF TypeOK, LogType
<1>2. log.recs = f.recs \/ log.recs = Append(f.recs, record)
  BY <1>1 DEF Adds, AddRecord, Appended, LogType
<1>3. \A k \in 1..Len(log.recs) : log.recs[k] = record \/ (k \in 1..Len(f.recs) /\ log.recs[k] = f.recs[k])
  <2>1. \A k \in 1..Len(Append(f.recs, record)) :
           \/ Append(f.recs, record)[k] = record
           \/ k \in 1..Len(f.recs) /\ Append(f.recs, record)[k] = f.recs[k]
    BY <1>1
  <2>2. QED
    BY <1>2, <2>1
<1>4. DOMAIN logs' = DOMAIN logs /\ logs'[logFile] = log /\ \A m \in DOMAIN logs : m # logFile => logs'[m] = logs[m]
  OBVIOUS
<1>5. QED
  BY <1>3, <1>4, AddedRecords

LEMMA AppendSeq ==
  ASSUME IInv, SeqInv, ~repaired, pc = "up", pc' = "up", writing = None,
         NEW record, record.id = issued + 1, record.seq = vs.last + 1,
         NEW log \in Adds(logs[logFile], record), logs' = [logs EXCEPT ![logFile] = log],
         vs'.log = vs.log, vs'.files = vs.files, vs'.last \in Nat, vs.last <= vs'.last,
         writing' # None => writing' = record /\ vs'.last = vs.last,
         record.seq <= vs'.last \/ record = writing',
         UNCHANGED <<manifests, tables, current, mem, imm, applying, reuse>>
  PROVE  SeqInv'
<1>1. TypeOK /\ vs.last \in Nat /\ issued \in Nat /\ logFile \in DOMAIN logs /\ EndsAreGood
  BY UpIs
<1>2. DiskSeq /\ UpSeq /\ EditSeq
  BY DEF SeqInv
<1>3. Ends(manifests[current])' = Ends(manifests[current]) /\ Held' = Held
  BY DEF Ends, Held
<1>4. \A a, b, c \in Nat : a <= b /\ b <= c => a <= c
  OBVIOUS
<1>5. \A n \in Ends(manifests[current]) : manifests[current].recs[n].last \in Nat
  BY <1>1 DEF EndsAreGood, Good
<1>11. \A from : LogRecords(logs', from) \subseteq LogRecords(logs, from) \union {record}
  BY <1>1, AppendedRecords
<1>6. ASSUME NEW n \in Ends(manifests[current])
      PROVE  /\ Live(n)' \subseteq All(n)' /\ Ordered(All(n)')
             /\ \A r \in All(n)' : r.seq <= vs'.last \/ r = writing'
  <2>1. All(n)' \subseteq All(n) \union {record} /\ Live(n)' \subseteq All(n)'
    <3>. DEFINE from == manifests[current].recs[n].log
                files == TableRecords(tables, FilesAfter(manifests[current].recs, n))
    <3>1. LogRecords(logs', from) \subseteq LogRecords(logs, from) \union {record}
      BY <1>11
    <3>2. LogRecords(logs', vs.log) \subseteq LogRecords(logs, vs.log) \union {record}
      BY <1>11
    <3>3. Live(n)' = files \union LogRecords(logs', from) /\ Live(n) = files \union LogRecords(logs, from)
      BY DEF Live
    <3>. HIDE DEF from, files
    <3>4. /\ All(n)' = Held \union Live(n)' \union LogRecords(logs', vs.log)
          /\ All(n) = Held \union Live(n) \union LogRecords(logs, vs.log)
      BY <1>3 DEF All
    <3>5. QED
      BY <3>1, <3>2, <3>3, <3>4
  <2>2. All(n) \subseteq Records(issued)
    BY UpRecords
  <2>3. \A r \in All(n) : r # writing
    BY <1>1, <2>2, NoneAssumption DEF Records
  <2>4. Ordered(All(n)) /\ \A r \in All(n) : r.seq <= vs.last
    BY <1>2, <2>3 DEF UpSeq
  <2>5. issued <= record.id /\ record.id \in Nat
    BY <1>1
  <2>6. Ordered(All(n) \union {record})
    BY <1>1, <2>2, <2>4, <2>5, OrderedWithNext
  <2>7. \A r \in All(n) : r.seq \in Nat
    BY <2>2 DEF Records
  <2>8. \A r \in All(n) : r.seq <= vs'.last
    BY <1>1, <1>4, <2>4, <2>7
  <2>9. QED
    BY <2>1, <2>6, <2>8, OrderedPart
<1>7. DiskSeq'
  <2>. SUFFICES ASSUME NEW n \in Ends(manifests[current])
                PROVE  /\ Ordered(Live(n)')
                       /\ UpTo(TableRecords(tables, FilesAfter(manifests[current].recs, n)), manifests[current].recs[n].last)
    BY <1>3 DEF DiskSeq
  <2>1. Ordered(Live(n)')
    BY <1>6, OrderedPart
  <2>2. QED
    BY <1>2, <2>1, UpIs DEF DiskSeq
<1>8. UpSeq'
  <2>1. writing' # None => writing'.seq = vs'.last + 1
    OBVIOUS
  <2>2. UpTo(Held', vs'.last)
    <3>1. \A r \in Held : r.seq \in Nat /\ r.seq <= vs.last
      BY <1>2, UpRecords DEF UpSeq, UpTo, Records
    <3>2. QED
      BY <1>1, <1>3, <1>4, <3>1 DEF UpTo
  <2>3. ASSUME NEW n \in Ends(manifests[current]) PROVE manifests[current].recs[n].last <= vs'.last
    BY <1>1, <1>2, <1>4, <1>5 DEF UpSeq
  <2>4. QED
    BY <1>3, <1>6, <2>1, <2>2, <2>3 DEF UpSeq
<1>9. EditSeq'
  <2>1. CASE applying = None
    BY <2>1 DEF EditSeq
  <2>2. CASE applying # None
    <3>1. applying.edit.last \in Nat
      BY <1>1, <2>2, UpIs DEF EditInv
    <3>2. applying.edit.last <= vs'.last
      BY <1>1, <1>2, <1>4, <2>2, <3>1 DEF EditSeq
    <3>3. After' = After
      BY DEF After
    <3>4. QED
      BY <1>2, <1>3, <2>2, <3>2, <3>3 DEF EditSeq
  <2>3. QED
    BY <2>1, <2>2
<1>10. QED
  BY <1>7, <1>8, <1>9, SeqWhenUp

LEMMA WriteToLogSeq == ASSUME IInv, SeqInv, ~repaired, WriteToLog PROVE SeqInv'
<1>1. /\ pc = "up" /\ pc' = "up" /\ writing = None /\ writing' = [seq |-> vs.last + 1, id |-> issued + 1]
      /\ UNCHANGED <<manifests, tables, current, vs, mem, imm, applying, reuse>>
  BY DEF WriteToLog, MayWrite
<1>2. PICK log \in AddRecord(logs[logFile], writing') : logs' = [logs EXCEPT ![logFile] = log]
  BY DEF WriteToLog
<1>3. log \in Adds(logs[logFile], writing')
  BY DEF Adds
<1>4. vs'.last = vs.last /\ vs.last \in Nat /\ vs.last <= vs.last
  BY <1>1, UpIs
<1>5. writing'.id = issued + 1 /\ writing'.seq = vs.last + 1 /\ vs'.log = vs.log /\ vs'.files = vs.files
  BY <1>1
<1>6. QED
  BY <1>1, <1>2, <1>3, <1>4, <1>5, AppendSeq

LEMMA AppendFailsSeq == ASSUME IInv, SeqInv, ~repaired, AppendFails PROVE SeqInv'
<1>. DEFINE record == [seq |-> vs.last + 1, id |-> issued + 1]
<1>1. /\ pc = "up" /\ pc' = "up" /\ writing = None /\ writing' = None /\ vs' = [vs EXCEPT !.last = @ + 1]
      /\ UNCHANGED <<manifests, tables, current, mem, imm, applying, reuse>>
  BY DEF AppendFails, MayWrite, jobs
<1>2. PICK log \in Adds(logs[logFile], record) : logs' = [logs EXCEPT ![logFile] = log]
  BY DEF AppendFails, Adds
<1>3. vs'.last = vs.last + 1 /\ vs'.log = vs.log /\ vs'.files = vs.files
  BY <1>1, UpIs DEF VersionType
<1>4. vs'.last \in Nat /\ vs.last <= vs'.last /\ record.seq <= vs'.last
  <2>1. vs.last \in Nat /\ record.seq = vs.last + 1
    BY <1>1, UpIs
  <2>. HIDE DEF record
  <2>2. QED
    BY <1>3, <2>1
<1>5. record.id = issued + 1 /\ record.seq = vs.last + 1
  OBVIOUS
<1>. HIDE DEF record
<1>6. QED
  BY <1>1, <1>2, <1>3, <1>4, <1>5, AppendSeq

(* The write is done: its record enters the memtable, or only its number is *)
(* used up.                                                                 *)
LEMMA WrittenSeq ==
  ASSUME IInv, SeqInv, ~repaired, pc = "up", pc' = "up", TypeOK', writing # None, writing' = None,
         vs' = [vs EXCEPT !.last = writing.seq], mem' \subseteq mem \union {writing}, NoMore(logs, logs'),
         UNCHANGED <<manifests, tables, current, imm, applying, reuse>>
  PROVE  SeqInv'
<1>1. /\ TypeOK /\ UpInv /\ EndsAreGood /\ vs \in VersionType /\ vs.last \in Nat /\ vs.log \in Nat
      /\ issued \in Nat /\ current # 0
  BY UpIs
<1>2. DiskSeq /\ UpSeq /\ EditSeq
  BY DEF SeqInv
<1>3. Ends(manifests[current])' = Ends(manifests[current])
  BY DEF Ends
<1>4. writing.seq = vs.last + 1 /\ vs'.last = vs.last + 1 /\ vs'.files = vs.files /\ vs'.log = vs.log
  BY <1>1, <1>2 DEF UpSeq, VersionType
<1>5. \A files : Keeps(tables, tables', files)
  BY TablesStay
<1>6. DiskSeq' /\ \A n \in Ends(manifests[current]) : Live(n)' \subseteq Live(n)
  <2>1. manifests'[current].recs = manifests[current].recs /\ manifests'[current].synced = manifests[current].synced
    OBVIOUS
  <2>2. QED
    BY <1>1, <1>2, <1>5, <2>1, DiskSeqStays
<1>7. Held' \subseteq Held \union {writing}
  BY <1>4 DEF Held
<1>8. LogRecords(logs', vs'.log) \subseteq LogRecords(logs, vs.log)
  <2>1. DOMAIN logs' \subseteq Nat
    BY DEF TypeOK, IsBounded
  <2>2. vs.log <= vs.log
    BY <1>1
  <2>3. QED
    BY <1>1, <1>4, <2>1, <2>2, FewerRecords
<1>9. \A a, b \in Nat : a <= b => a <= b + 1
  OBVIOUS
<1>10. ASSUME NEW n \in Ends(manifests[current])
       PROVE  Ordered(All(n)') /\ \A r \in All(n)' : r.seq <= vs'.last \/ r = writing'
  <2>1. All(n)' \subseteq All(n) \union {writing}
    BY <1>6, <1>7, <1>8 DEF All
  <2>2. All(n) \subseteq Records(issued)
    BY UpRecords
  <2>3. Ordered(All(n)) /\ \A r \in All(n) : r.seq <= vs.last \/ r = writing
    BY <1>2 DEF UpSeq
  <2>4. writing.id = issued /\ issued <= issued
    BY <1>1 DEF UpInv
  <2>5. Ordered(All(n) \union {writing})
    BY <1>1, <1>4, <2>2, <2>3, <2>4, OrderedWithNext
  <2>6. ASSUME NEW r \in All(n) \union {writing} PROVE r.seq <= vs.last + 1
    <3>1. CASE r = writing
      BY <1>1, <1>4, <3>1
    <3>2. CASE r # writing
      BY <1>1, <1>9, <2>2, <2>3, <3>2 DEF Records
    <3>3. QED
      BY <3>1, <3>2
  <2>7. QED
    BY <1>4, <2>1, <2>5, <2>6, OrderedPart
<1>11. UpSeq'
  <2>1. UpTo(Held', vs'.last)
    <3>1. \A r \in Held : r.seq \in Nat /\ r.seq <= vs.last
      BY <1>2, UpRecords DEF UpSeq, UpTo, Records
    <3>2. \A r \in Held : r.seq <= vs.last + 1
      BY <1>1, <1>9, <3>1
    <3>3. writing.seq <= vs.last + 1
      BY <1>1, <1>4
    <3>4. QED
      BY <1>4, <1>7, <3>2, <3>3 DEF UpTo
  <2>2. ASSUME NEW n \in Ends(manifests[current]) PROVE manifests[current].recs[n].last <= vs'.last
    <3>1. manifests[current].recs[n].last \in Nat
      BY <1>1 DEF EndsAreGood, Good
    <3>2. manifests[current].recs[n].last <= vs.last
      BY <1>2 DEF UpSeq
    <3>3. QED
      BY <1>1, <1>4, <1>9, <3>1, <3>2
  <2>3. QED
    BY <1>3, <1>10, <2>1, <2>2 DEF UpSeq
<1>12. EditSeq'
  <2>1. CASE applying = None
    BY <2>1 DEF EditSeq
  <2>2. CASE applying # None
    <3>1. applying.edit.last \in Nat
      BY <1>1, <2>2, UpIs DEF EditInv
    <3>2. applying.edit.last <= vs'.last
      BY <1>1, <1>2, <1>4, <1>9, <2>2, <3>1 DEF EditSeq
    <3>3. After' = After
      BY <1>4 DEF After
    <3>4. QED
      BY <1>2, <1>3, <2>2, <3>2, <3>3 DEF EditSeq
  <2>3. QED
    BY <2>1, <2>2
<1>13. QED
  BY <1>6, <1>11, <1>12, SeqWhenUp

LEMMA WriteReturnsSeq ==
  ASSUME IInv, SeqInv, ~repaired, NEW sync \in BOOLEAN, pc = "up", WriteReturns(sync)
  PROVE  SeqInv'
<1>1. /\ writing # None /\ pc' = "up" /\ writing' = None
      /\ logs' = IF sync THEN [logs EXCEPT ![logFile] = Synced(@)] ELSE logs
      /\ mem' = mem \union {writing} /\ vs' = [vs EXCEPT !.last = writing.seq]
      /\ UNCHANGED <<manifests, tables, current, imm, applying, reuse>>
  BY DEF WriteReturns
<1>2. TypeOK' /\ logFile \in DOMAIN logs /\ logs[logFile] \in LogType(issued)
  BY WriteReturnsIInv, UpIs DEF IInv, TypeOK
<1>3. NoMore(logs, logs')
  <2>1. /\ DOMAIN logs' = DOMAIN logs /\ \A m \in DOMAIN logs : m # logFile => logs'[m] = logs[m]
        /\ logs'[logFile] = IF sync THEN Synced(logs[logFile]) ELSE logs[logFile]
    BY <1>1, <1>2
  <2>2. Synced(logs[logFile]).recs = logs[logFile].recs
    BY <1>2 DEF Synced, LogType
  <2>3. \A m \in DOMAIN logs : logs'[m].recs = logs[m].recs
    BY <2>1, <2>2
  <2>4. QED
    BY <2>1, <2>3 DEF NoMore
<1>4. QED
  BY <1>1, <1>2, <1>3, WrittenSeq

LEMMA SyncFailsSeq == ASSUME IInv, SeqInv, ~repaired, pc = "up", SyncFails PROVE SeqInv'
<1>1. /\ writing # None /\ pc' = "up" /\ writing' = None /\ vs' = [vs EXCEPT !.last = writing.seq]
      /\ UNCHANGED <<logs, manifests, tables, current, mem, imm, applying, reuse>>
  BY DEF SyncFails, disk
<1>2. TypeOK' /\ NoMore(logs, logs') /\ mem' \subseteq mem \union {writing}
  BY <1>1, SyncFailsIInv, SameLogs DEF IInv
<1>3. QED
  BY <1>1, <1>2, WrittenSeq

(* What the version after an edit holds, the version before it held.        *)
LEMMA EditRecords ==
  ASSUME CompactionInv, pc = "up", NEW t, EditIs(t)
  PROVE  TableRecords(tables, After) \subseteq Held
<1>1. TableRecords(tables, After) \subseteq TableRecords(tables, vs.files) \union tables[t].recs
  BY DEF After, EditIs, TableRecords
<1>2. CASE applying.by = "flush"
  BY <1>1, <1>2 DEF EditIs, Held
<1>3. CASE applying.by # "flush"
  <2>1. tables[t].recs = UNION {tables[n].recs : n \in compaction.inputs} /\ compaction.inputs \subseteq vs.files
    BY <1>3 DEF EditIs, CompactionInv
  <2>2. tables[t].recs \subseteq TableRecords(tables, vs.files)
    BY <2>1 DEF TableRecords
  <2>3. QED
    BY <1>1, <2>2 DEF Held
<1>4. QED
  BY <1>2, <1>3

(* A record appended to the manifest: the end it adds has no other records. *)
LEMMA LogEditAppendsSeq ==
  ASSUME IInv, SeqInv, ~repaired, LogEdit,
         manifests' = [manifests EXCEPT ![vs.manifest] = Appended(@, applying.edit)]
  PROVE  SeqInv'
<1>. DEFINE edits == manifests[current].recs
            e == applying.edit
            more == Append(edits, e)
<1>1. /\ pc = "up" /\ pc' = "up" /\ applying # None
      /\ applying' = [applying EXCEPT !.logged = TRUE]
      /\ UNCHANGED <<logs, tables, current, vs, mem, imm, writing, reuse>>
  BY DEF LogEdit
<1>2. /\ TypeOK /\ UpInv /\ CompactionInv /\ EditInv /\ EndsAreGood /\ vs.manifest = current /\ DOMAIN logs \subseteq Nat
      /\ current \in DOMAIN manifests /\ manifests[current] \in ManifestType /\ edits \in Seq(EditType)
      /\ vs.log \in Nat /\ vs.last \in Nat /\ reuse \in BOOLEAN /\ current # 0 /\ logFile \in Nat
  BY <1>1, UpIs
<1>3. applying \in Application /\ e \in EditType /\ e.log \in Nat /\ e.last \in Nat
  BY <1>1, <1>2 DEF TypeOK, Application, EditInv
<1>4. DiskSeq /\ UpSeq /\ EditSeq
  BY <1>1 DEF SeqInv
<1>5. PICK last \in Nat : last = Len(edits) /\ last > 0 /\ last \in Ends(manifests[current])
  BY <1>1, EndOfManifest
<1>6. PICK t : EditIs(t)
  BY <1>1, <1>2, EditHas
<1>7. vs.log <= e.log
  BY <1>1, <1>2, <1>6 DEF EditIs, UpInv
<1>8. manifests'[current].recs = more /\ applying'.edit = e /\ manifests'[current].synced = manifests[current].synced
  <2>1. manifests'[current] = Appended(manifests[current], e)
    BY <1>1, <1>2
  <2>2. Appended(manifests[current], e).recs = more /\ Appended(manifests[current], e).synced = manifests[current].synced
    BY <1>2, <1>3, AppendedManifest
  <2>3. applying'.edit = e
    BY <1>1, <1>3 DEF Application
  <2>4. QED
    BY <2>1, <2>2, <2>3
<1>9. AppendsTo(edits, e, more)
  BY <1>2, <1>3, AppendedFiles
<1>. HIDE DEF more
<1>10. /\ Len(more) = last + 1 /\ more[last + 1] = e
       /\ \A n \in 1..last : more[n] = edits[n] /\ FilesAfter(more, n) = FilesAfter(edits, n)
       /\ FilesAfter(more, last + 1) = (FilesAfter(edits, last) \ e.deleted) \union e.added
  <2>1. 1..last \subseteq 0..last
    BY <1>5
  <2>2. QED
    BY <1>5, <1>9, <2>1 DEF AppendsTo
<1>11. \A n \in Ends(manifests[current])' : n = last + 1 \/ (n \in Ends(manifests[current]) /\ n \in 1..last)
  <2>1. \A n \in Ends(manifests[current])' : n \in 1..(last + 1) /\ (n = last + 1 \/ (~reuse /\ n >= manifests[current].synced))
    BY <1>1, <1>8, <1>10 DEF Ends
  <2>2. \A n \in 1..last : ~reuse /\ n >= manifests[current].synced => n \in Ends(manifests[current])
    BY <1>5 DEF Ends
  <2>3. \A n \in 1..(last + 1) : n = last + 1 \/ n \in 1..last
    BY <1>5
  <2>4. QED
    BY <2>1, <2>2, <2>3
<1>. DEFINE files == FilesAfter(edits, last)
            after == FilesAfter(more, last + 1)
<1>12. TableRecords(tables, after) \subseteq TableRecords(tables, files) \union tables[t].recs
  BY <1>6, <1>10 DEF EditIs, TableRecords
<1>13. tables[t].recs \subseteq TableRecords(tables, After) /\ tables[t].recs \subseteq Held
  <2>1. TableRecords(tables, After) \subseteq Held
    BY <1>1, <1>2, <1>6, EditRecords
  <2>2. t \in After
    BY <1>6 DEF EditIs, After
  <2>3. QED
    BY <2>1, <2>2 DEF TableRecords
<1>14. Live(last + 1)' \subseteq All(last)
  <2>1. LogRecords(logs, e.log) \subseteq LogRecords(logs, vs.log)
    <3>1. NoMore(logs, logs)
      BY SameLogs
    <3>2. QED
      BY <1>2, <1>3, <1>7, <3>1, FewerRecords
  <2>2. Live(last + 1)' = TableRecords(tables, after) \union LogRecords(logs, e.log)
    BY <1>1, <1>8, <1>10 DEF Live
  <2>3. TableRecords(tables, files) \subseteq Live(last)
    BY DEF Live
  <2>. HIDE DEF files, after
  <2>4. QED
    BY <1>12, <1>13, <2>1, <2>2, <2>3 DEF All
<1>15. ASSUME NEW n \in 1..last PROVE Live(n)' = Live(n)
  <2>1. FilesAfter(more, n) = FilesAfter(edits, n) /\ more[n].log = edits[n].log
    BY <1>10
  <2>2. Live(n)' = TableRecords(tables, FilesAfter(more, n)) \union LogRecords(logs, more[n].log)
    BY <1>1, <1>8 DEF Live
  <2>3. QED
    BY <2>1, <2>2 DEF Live
<1>16. \A a, b, c \in Nat : a <= b /\ b <= c => a <= c
  OBVIOUS
<1>17. UpTo(TableRecords(tables, after), e.last) /\ edits[last].last <= e.last /\ e.last <= vs.last
  <2>1. edits[last].last <= e.last /\ e.last <= vs.last /\ UpTo(tables[t].recs, e.last)
    BY <1>1, <1>4, <1>5, <1>13, UpToPart DEF EditSeq
  <2>2. edits[last].last \in Nat /\ files \subseteq DOMAIN tables
    BY <1>2, <1>5 DEF EndsAreGood, Good
  <2>3. \A r \in TableRecords(tables, files) : r.seq \in Nat
    BY <1>2, <2>2, RecordsAre DEF Records
  <2>4. UpTo(TableRecords(tables, files), edits[last].last)
    BY <1>2, <1>4, <1>5 DEF DiskSeq
  <2>. HIDE DEF files, after
  <2>5. UpTo(TableRecords(tables, files), e.last)
    BY <1>3, <1>16, <2>1, <2>2, <2>3, <2>4 DEF UpTo
  <2>6. QED
    BY <1>12, <2>1, <2>5 DEF UpTo
<1>18. Held' = Held /\ LogRecords(logs', vs'.log) = LogRecords(logs, vs.log)
  BY <1>1 DEF Held
<1>19. \A n \in Ends(manifests[current]) :
          /\ Ordered(All(n)) /\ \A r \in All(n) : r.seq <= vs.last \/ r = writing
          /\ edits[n].last <= vs.last
  BY <1>1, <1>4 DEF UpSeq
<1>20. ASSUME NEW n \in Ends(manifests[current])'
       PROVE  /\ Live(n)' \subseteq All(n)' /\ Ordered(All(n)')
              /\ \A r \in All(n)' : r.seq <= vs.last \/ r = writing
  <2>1. Live(n)' \subseteq All(n)'
    BY DEF All
  <2>2. CASE n = last + 1
    <3>1. All(n)' = Held \union Live(last + 1)' \union LogRecords(logs, vs.log)
      BY <1>18, <2>2 DEF All
    <3>2. All(n)' \subseteq All(last)
      BY <1>14, <3>1 DEF All
    <3>3. QED
      BY <1>5, <1>19, <2>1, <3>2, OrderedPart
  <2>3. CASE n \in Ends(manifests[current]) /\ n \in 1..last
    <3>1. All(n)' = All(n)
      BY <1>15, <1>18, <2>3 DEF All
    <3>2. QED
      BY <1>19, <2>1, <2>3, <3>1
  <2>4. QED
    BY <1>11, <2>2, <2>3
<1>21. DiskSeq'
  <2>. SUFFICES ASSUME NEW n \in Ends(manifests[current])'
                PROVE  /\ Ordered(Live(n)')
                       /\ UpTo(TableRecords(tables', FilesAfter(manifests'[current'].recs, n)), manifests'[current'].recs[n].last)
    BY DEF DiskSeq
  <2>1. Ordered(Live(n)')
    BY <1>20, OrderedPart
  <2>2. CASE n = last + 1
    BY <1>1, <1>8, <1>10, <1>17, <2>1, <2>2
  <2>3. CASE n \in Ends(manifests[current]) /\ n \in 1..last
    <3>1. UpTo(TableRecords(tables, FilesAfter(edits, n)), edits[n].last)
      BY <1>2, <1>4, <2>3 DEF DiskSeq
    <3>2. QED
      BY <1>1, <1>8, <1>10, <2>1, <2>3, <3>1
  <2>4. QED
    BY <1>11, <2>2, <2>3
<1>22. ASSUME NEW n \in Ends(manifests[current])'
       PROVE  manifests'[current'].recs[n].last <= vs'.last /\ manifests'[current'].recs[n].last <= e.last
  <2>1. CASE n = last + 1
    <3>1. e.last <= e.last
      BY <1>3
    <3>2. QED
      BY <1>1, <1>8, <1>10, <1>17, <2>1, <3>1
  <2>2. CASE n \in Ends(manifests[current]) /\ n \in 1..last
    <3>1. edits[n].last <= e.last
      BY <1>1, <1>4, <2>2 DEF EditSeq
    <3>2. QED
      BY <1>1, <1>8, <1>10, <1>19, <2>2, <3>1
  <2>3. QED
    BY <1>11, <2>1, <2>2
<1>23. UpSeq'
  <2>1. UpTo(Held', vs'.last) /\ (writing' # None => writing'.seq = vs'.last + 1)
    BY <1>1, <1>4, <1>18 DEF UpSeq
  <2>2. QED
    BY <1>1, <1>20, <1>22, <2>1 DEF UpSeq
<1>24. EditSeq'
  <2>1. After' = After
    BY <1>1, <1>8 DEF After
  <2>2. QED
    BY <1>1, <1>4, <1>8, <1>22, <2>1 DEF EditSeq
<1>25. QED
  BY <1>1, <1>21, <1>23, <1>24, SeqWhenUp

LEMMA LogEditSeq == ASSUME IInv, SeqInv, ~repaired, LogEdit PROVE SeqInv'
<1>. DEFINE m == manifests[vs.manifest]
<1>1. /\ pc = "up" /\ pc' = "up" /\ applying # None /\ applying' = [applying EXCEPT !.logged = TRUE]
      /\ UNCHANGED <<logs, tables, current, vs, mem, imm, writing, reuse>>
  BY DEF LogEdit
<1>2. vs.manifest = current /\ current \in DOMAIN manifests /\ m \in ManifestType /\ TypeOK
  BY <1>1, UpIs
<1>3. PICK x \in AddEdit(m, applying.edit) : manifests' = [manifests EXCEPT ![vs.manifest] = x]
  BY DEF LogEdit
<1>4. x = Appended(m, applying.edit) \/ x = [m EXCEPT !.end = "broken"]
  BY <1>3 DEF AddEdit
<1>5. CASE x = Appended(m, applying.edit)
  <2>1. manifests' = [manifests EXCEPT ![vs.manifest] = Appended(@, applying.edit)]
    BY <1>3, <1>5
  <2>2. QED
    BY <2>1, LogEditAppendsSeq
<1>6. CASE x = [m EXCEPT !.end = "broken"]
  <2>1. x.recs = m.recs /\ x.synced = m.synced
    BY <1>2, <1>6 DEF ManifestType
  <2>2. manifests'[current].recs = manifests[current].recs /\ manifests'[current].synced = manifests[current].synced
    BY <1>2, <1>3, <2>1
  <2>3. \A t \in vs.files : t \in DOMAIN tables' /\ tables'[t] = tables[t]
    BY <1>1, UpIs DEF UpInv
  <2>4. \A files : Keeps(tables, tables', files)
    BY <1>1, TablesStay
  <2>5. TypeOK'
    BY LogEditIInv DEF IInv
  <2>6. DiskSeq' /\ UpSeq' /\ Ends(manifests[current])' = Ends(manifests[current])
    BY <1>1, <2>2, <2>3, <2>4, <2>5, SameVersionSeq
  <2>7. applying'.edit = applying.edit
    BY <1>1, <1>2 DEF TypeOK, Application
  <2>8. After' = After
    BY <1>1, <2>7 DEF After
  <2>9. EditSeq'
    BY <1>1, <2>2, <2>6, <2>7, <2>8 DEF SeqInv, EditSeq
  <2>10. QED
    BY <1>1, <2>6, <2>9, SeqWhenUp
<1>7. QED
  BY <1>4, <1>5, <1>6

LEMMA ApplyEditSeq == ASSUME IInv, SeqInv, ~repaired, ApplyEdit PROVE SeqInv'
<1>. DEFINE edits == manifests[current].recs
            last == Len(edits)
            all == FilesAfter(edits, last)
            e == applying.edit
            inUse == IF applying.by = "flush" THEN Pending \union InVersions ELSE held
<1>1. /\ pc = "up" /\ pc' = "up" /\ applying # None /\ applying.logged /\ applying' = None
      /\ vs' = Applied(vs, e) /\ imm' \subseteq imm
      /\ DeleteObsoleteFiles(vs', inUse, ManifestSynced(vs.manifest))
      /\ UNCHANGED <<current, mem, writing, reuse, issued, bgError>>
  BY DEF ApplyEdit, history
<1>2. /\ TypeOK /\ UpInv /\ CompactionInv /\ ManifestInv /\ EditInv /\ EndsAreGood
      /\ vs \in VersionType /\ vs.manifest = current /\ current \in DOMAIN manifests /\ vs.log \in Nat
      /\ current \in Nat /\ current # 0 /\ DOMAIN logs \subseteq Nat /\ edits \in Seq(EditType) /\ reuse \in BOOLEAN
  BY <1>1, UpIs
<1>3. applying \in Application /\ e \in EditType /\ Logged /\ e.added \in SUBSET Nat /\ e.log \in Nat
  BY <1>1, <1>2 DEF TypeOK, Application, Logged, EditType, EditInv
<1>4. PICK t : EditIs(t)
  BY <1>1, <1>2, EditHas
<1>5. vs.log <= e.log
  BY <1>1, <1>2, <1>4, UpIs DEF EditIs, UpInv
<1>6. last \in Nat /\ last > 0 /\ last \in Ends(manifests[current])
  BY <1>1, EndOfManifest
<1>7. vs'.log = e.log /\ vs'.files = After /\ vs'.manifest = vs.manifest /\ vs'.last = vs.last
  <2>1. vs' = [vs EXCEPT !.files = After, !.log = e.log, !.described = TRUE]
    BY <1>1 DEF Applied, After
  <2>2. QED
    BY <1>2, <2>1 DEF VersionType
<1>8. SyncsAndDeletes(current, vs', inUse)
  BY <1>1, <1>2, <1>3, <1>7, SyncedAndDeleted
<1>. HIDE DEF inUse
<1>9. /\ manifests'[current].recs = edits /\ manifests'[current].synced = last
      /\ \A f \in After : f \in DOMAIN tables => f \in DOMAIN tables' /\ tables'[f] = tables[f]
      /\ \A m \in DOMAIN logs' : m \in DOMAIN logs /\ logs'[m] = logs[m]
  BY <1>7, <1>8 DEF SyncsAndDeletes
<1>10. Ends(manifests[current])' = {last}
  BY <1>1, <1>2, <1>6, <1>9 DEF Ends
<1>11. all \subseteq DOMAIN tables /\ edits[last].log \in Nat
  BY <1>2, <1>6 DEF EndsAreGood, Good
<1>12. Keeps(tables, tables', all)
  <2>1. CASE bgError
    BY <1>1, <2>1, NothingIsDeleted DEF Keeps
  <2>2. CASE ~bgError
    <3>1. FilesAfter(edits, last - 1) = vs.files /\ edits[last] = e
      BY <1>1, <1>2, <1>3, <2>2 DEF ManifestInv, Settled, Final
    <3>2. all = After
      BY <1>2, <1>6, <3>1, FilesAfterStep DEF After
    <3>3. QED
      BY <1>9, <3>2 DEF Keeps
  <2>3. QED
    BY <2>1, <2>2
<1>13. TableRecords(tables', all) = TableRecords(tables, all)
  BY <1>11, <1>12, SameRecords
<1>14. /\ LogRecords(logs', e.log) \subseteq LogRecords(logs, vs.log)
       /\ LogRecords(logs', edits[last].log) \subseteq LogRecords(logs, edits[last].log)
  <2>1. NoMore(logs, logs') /\ DOMAIN logs' \subseteq Nat
    BY <1>2, <1>9 DEF NoMore
  <2>2. \A n \in Nat : n <= n
    OBVIOUS
  <2>3. QED
    BY <1>2, <1>3, <1>5, <1>11, <2>1, <2>2, FewerRecords
<1>15. Live(last)' \subseteq Live(last)
  <2>1. Live(last)' = TableRecords(tables', all) \union LogRecords(logs', edits[last].log)
    BY <1>1, <1>9 DEF Live
  <2>2. Live(last) = TableRecords(tables, all) \union LogRecords(logs, edits[last].log)
    BY DEF Live
  <2>. HIDE DEF all, edits, last
  <2>3. QED
    BY <1>13, <1>14, <2>1, <2>2
<1>16. Held' \subseteq Held
  <2>1. TableRecords(tables, After) \subseteq Held
    BY <1>1, <1>2, <1>4, EditRecords
  <2>2. TableRecords(tables', After) = TableRecords(tables, After)
    <3>1. After \subseteq DOMAIN tables
      BY <1>1, <1>2, <1>4 DEF After, UpInv, EditIs
    <3>2. QED
      BY <1>9, <3>1, SameRecords DEF Keeps
  <2>3. Held' = mem \union imm' \union TableRecords(tables', After)
    BY <1>1, <1>7 DEF Held
  <2>4. mem \subseteq Held /\ imm \subseteq Held
    BY DEF Held
  <2>5. QED
    BY <1>1, <2>1, <2>2, <2>3, <2>4
<1>17. All(last)' \subseteq All(last)
  <2>1. All(last)' = Held' \union Live(last)' \union LogRecords(logs', e.log)
    BY <1>7 DEF All
  <2>. HIDE DEF last
  <2>2. QED
    BY <1>14, <1>15, <1>16, <2>1 DEF All
<1>18. DiskSeq /\ UpSeq
  BY <1>1 DEF SeqInv
<1>19. /\ Ordered(All(last)) /\ \A r \in All(last) : r.seq <= vs.last \/ r = writing
       /\ edits[last].last <= vs.last /\ UpTo(Held, vs.last)
       /\ writing # None => writing.seq = vs.last + 1
  BY <1>1, <1>6, <1>18 DEF UpSeq
<1>20. DiskSeq'
  <2>. SUFFICES ASSUME NEW n \in Ends(manifests[current])'
                PROVE  /\ Ordered(Live(n)')
                       /\ UpTo(TableRecords(tables', FilesAfter(manifests'[current'].recs, n)), manifests'[current'].recs[n].last)
    BY DEF DiskSeq
  <2>1. n = last
    BY <1>10
  <2>2. Ordered(Live(last)) /\ UpTo(TableRecords(tables, all), edits[last].last)
    BY <1>2, <1>6, <1>18 DEF DiskSeq
  <2>3. Ordered(Live(last)')
    BY <1>15, <2>2, OrderedPart
  <2>4. QED
    BY <1>1, <1>9, <1>13, <2>1, <2>2, <2>3
<1>21. UpSeq'
  <2>1. Ordered(All(last)') /\ \A r \in All(last)' : r.seq <= vs'.last \/ r = writing'
    BY <1>1, <1>7, <1>17, <1>19, OrderedPart
  <2>2. UpTo(Held', vs'.last)
    BY <1>7, <1>16, <1>19, UpToPart
  <2>3. QED
    BY <1>1, <1>7, <1>9, <1>10, <1>19, <2>1, <2>2 DEF UpSeq
<1>22. QED
  BY <1>1, <1>20, <1>21, SeqWhenUp DEF EditSeq

-----------------------------------------------------------------------------
(* Open.                                                                    *)
LEMMA InitSeq == Init => SeqInv
  BY DEF Init, SeqInv, DiskSeq, OpenSeq, Opening, UpSeq, EditSeq

LEMMA NewDBSeq == ASSUME NewDB PROVE SeqInv'
<1>1. current' = 0 /\ pc' = "creating"
  BY DEF NewDB
<1>2. DiskSeq'
  BY <1>1 DEF DiskSeq
<1>3. QED
  BY <1>1, <1>2, SeqAsleep

LEMMA NewDBNamedSeq == ASSUME IInv, NewDBNamed PROVE SeqInv'
<1>1. /\ pc' = "down" /\ current' = 1 /\ DOMAIN logs' = {} /\ DOMAIN tables' = {}
  BY DEF NewDBNamed, IInv, CreatingInv, DiskInv
<1>2. EndsAreGood'
  BY <1>1, NewDBNamedIInv DEF IInv, DiskInv
<1>3. ASSUME NEW n \in Ends(manifests[current])'
      PROVE  /\ Live(n)' = {}
             /\ TableRecords(tables', FilesAfter(manifests'[current'].recs, n)) = {}
  <2>1. FilesAfter(manifests'[current'].recs, n) \subseteq DOMAIN tables'
    BY <1>2 DEF EndsAreGood, Good
  <2>2. FilesAfter(manifests'[current'].recs, n) = {}
    BY <1>1, <2>1
  <2>3. \A from : LogRecords(logs', from) = {}
    BY <1>1 DEF LogRecords
  <2>4. QED
    BY <2>2, <2>3 DEF Live, TableRecords
<1>4. DiskSeq'
  BY <1>3 DEF DiskSeq, Ordered, UpTo
<1>5. QED
  BY <1>1, <1>4, SeqAsleep

LEMMA SeqWhenOpening ==
  ASSUME pc' \in {"recovering", "starting", "applying"}, DiskSeq', OpenSeq' PROVE SeqInv'
  BY DEF SeqInv, UpSeq, EditSeq

LEMMA RecoverSeq == ASSUME IInv, SeqInv, ~repaired, Recover PROVE SeqInv'
<1>. DEFINE edits == manifests[current].recs
            e == edits[Len(edits)]
<1>1. /\ pc = "down" /\ pc' = "recovering" /\ current # 0 /\ CanBeRead
      /\ UNCHANGED <<logs, manifests, tables, current, mem, reuse>>
  BY DEF Recover, disk
<1>2. TypeOK /\ DiskInv /\ opening = NotOpening /\ mem = {} /\ DiskSeq
  BY <1>1 DEF IInv, AsleepInv, SeqInv
<1>3. /\ edits \in Seq(EditType) /\ Len(edits) \in Nat
      /\ Len(edits) > 0 => /\ Len(edits) \in Ends(manifests[current])
                           /\ LastEdit(edits) = e /\ e \in EditType
                           /\ Good(e, FilesAfter(edits, Len(edits)), tables, logs, current, issued, acked, Promised)
  BY <1>1, <1>2, LastIsGood
<1>4. DiskSeq'
  BY <1>1, <1>2 DEF DiskSeq, Live, Ends
<1>5a. PICK kept \in BOOLEAN : ReadsVersion(kept)
  BY DEF Recover
<1>5. /\ kept => reuse
      /\ vs' = VersionOf(edits, kept)
      /\ opening' = [NotOpening EXCEPT !.todo = {n \in DOMAIN logs : n >= vs'.log}, !.save = ~kept]
  BY <1>5a DEF ReadsVersion
<1>6. Len(edits) > 0
  <2>1. \E i \in DOMAIN edits : edits[i].next # None
    BY <1>1 DEF CanBeRead
  <2>2. DOMAIN edits = 1..Len(edits)
    BY <1>3
  <2>3. QED
    BY <1>3, <2>1, <2>2
<1>7. vs'.log = e.log /\ vs'.last = e.last /\ vs'.files = FilesAfter(edits, Len(edits))
  BY <1>3, <1>5, <1>6 DEF VersionOf, FilesOf
<1>8. /\ opening'.todo = {n \in DOMAIN logs : n >= vs'.log} /\ opening'.at = 0 /\ opening'.added = {}
      /\ opening'.max = 0
  BY <1>5 DEF NotOpening
<1>9. /\ Ordered(Live(Len(edits)))
      /\ UpTo(TableRecords(tables, FilesAfter(edits, Len(edits))), e.last)
  BY <1>1, <1>2, <1>3, <1>6 DEF DiskSeq
<1>10. Recovered' = Live(Len(edits))
  <2>1. Recovered' = TableRecords(tables, vs'.files \union {}) \union LogRecords(logs, vs'.log)
    BY <1>1, <1>2, <1>8 DEF Recovered
  <2>2. vs'.files \union {} = FilesAfter(edits, Len(edits))
    BY <1>7
  <2>3. QED
    BY <1>7, <2>1, <2>2 DEF Live
<1>11. UpTo(TableRecords(tables', opening'.added), opening'.max) /\ UpTo(mem', opening'.max)
  BY <1>1, <1>2, <1>8 DEF TableRecords, UpTo
<1>12. \A m \in DOMAIN logs' : m >= vs'.log =>
          m \in opening'.todo /\ \A k \in 1..Len(logs'[m].recs) : k > opening'.at
  BY <1>1, <1>8
<1>13. Final(manifests'[current']).last <= vs'.last
  <2>1. Final(manifests'[current']).last = e.last
    BY <1>1 DEF Final
  <2>2. e.last \in Nat
    BY <1>2, <1>3, <1>6 DEF Good, TypeOK
  <2>3. e.last <= e.last
    BY <2>2
  <2>4. QED
    BY <1>7, <2>1, <2>3
<1>14. OpenSeq'
  BY <1>1, <1>7, <1>9, <1>10, <1>11, <1>12, <1>13 DEF OpenSeq
<1>15. QED
  BY <1>1, <1>4, <1>14, SeqWhenOpening

LEMMA RecoverRefusesSeq == ASSUME SeqInv, ~repaired, RecoverRefuses PROVE SeqInv'
<1>1. pc' = "refused" /\ UNCHANGED <<logs, manifests, tables, current, reuse>>
  BY DEF RecoverRefuses, disk
<1>2. DiskSeq'
  BY <1>1 DEF SeqInv, DiskSeq, Live, Ends
<1>3. QED
  BY <1>1, <1>2, SeqAsleep

LEMMA LastSeqBounds ==
  ASSUME NEW w \in Nat, NEW recs \in Seq(Records(w)), NEW max \in 0..w
  PROVE  max <= LastSeq(recs, max) /\ \A k \in 1..Len(recs) : recs[k].seq <= LastSeq(recs, max)
<1>. DEFINE S == {max} \union {r.seq : r \in ToSet(recs)}
<1>1. \A k \in 1..Len(recs) : recs[k] \in ToSet(recs)
  BY DEF ToSet
<1>2. ASSUME NEW r \in ToSet(recs) PROVE r.seq \in 0..w
  <2>1. PICK i \in 1..Len(recs) : r = recs[i]
    BY DEF ToSet
  <2>2. recs[i] \in Records(w)
    BY <2>1
  <2>3. QED
    BY <2>1, <2>2 DEF Records
<1>3. S \in SUBSET (0..w) /\ S # {}
  BY <1>2
<1>4. \A x \in S : x <= Max(S)
  BY <1>3, GreatestNumber
<1>5. \A k \in 1..Len(recs) : recs[k].seq \in S
  BY <1>1
<1>6. QED
  BY <1>4, <1>5 DEF LastSeq

(* Open reads count more records of log n, into mem_ or a new table.        *)
ReadsOn(n, recs, count) ==
  /\ UNCHANGED <<logs, manifests, current, pc, reuse>>
  /\ n \in opening.todo /\ (\A m \in opening.todo : n <= m)
  /\ recs = Unread(n) /\ count \in 0..Len(recs)
  /\ vs'.files = vs.files /\ vs'.log = vs.log /\ vs'.last = vs.last
  /\ opening.max <= opening'.max /\ (\A k \in 1..count : recs[k].seq <= opening'.max)
  /\ \A t \in opening'.added \ opening.added : t = vs.next /\ tables'[t].recs \subseteq {recs[k] : k \in 1..count}
  /\ \A t \in DOMAIN tables : t # vs.next => t \in DOMAIN tables' /\ tables'[t] = tables[t]
  /\ mem' \subseteq mem \union {recs[k] : k \in 1..count}
  /\ \/ opening'.todo = opening.todo /\ opening'.at = opening.at + count
     \/ opening'.todo = opening.todo \ {n} /\ opening'.at = 0 /\ count = Len(recs)

OpeningIs ==
  /\ TypeOK /\ OpeningInv /\ EndsAreGood /\ vs \in VersionType /\ opening \in OpeningType /\ current # 0
  /\ opening.todo \subseteq DOMAIN logs /\ DOMAIN logs \subseteq Nat /\ opening.todo \subseteq Nat
  /\ vs.log \in Nat /\ vs.next \in Nat /\ opening.at \in Nat /\ opening.max \in Nat /\ issued \in Nat
  /\ opening.max \in 0..issued /\ DOMAIN tables \subseteq Nat /\ vs.last \in Nat /\ reuse \in BOOLEAN
  /\ \A m \in opening.todo : m >= vs.log
  /\ \A t \in vs.files \union opening.added : t \in DOMAIN tables /\ t # vs.next

LEMMA WhileOpening == ASSUME IInv, Opening PROVE OpeningIs
<1>1. TypeOK /\ OpeningInv /\ EndsAreGood /\ vs \in VersionType /\ opening \in OpeningType /\ current # 0
  BY DEF IInv, OpeningInv, DiskInv, TypeOK
<1>2. DOMAIN logs \subseteq Nat /\ DOMAIN tables \subseteq Nat /\ issued \in Nat /\ reuse \in BOOLEAN
  BY <1>1 DEF TypeOK, IsBounded
<1>3. opening.todo \subseteq DOMAIN logs /\ \A m \in opening.todo : m >= vs.log
  BY <1>1 DEF OpeningInv
<1>4. /\ vs.log \in Nat /\ vs.next \in Nat /\ opening.at \in Nat /\ opening.max \in Nat /\ opening.todo \subseteq Nat
      /\ opening.max \in 0..issued /\ vs.last \in Nat
  BY <1>1, <1>2 DEF VersionType, OpeningType
<1>5. \A t \in vs.files \union opening.added : t \in DOMAIN tables /\ t # vs.next
  <2>1. \A t \in vs.files \union opening.added : t \in DOMAIN tables /\ t < vs.next
    BY <1>1 DEF OpeningInv
  <2>2. QED
    BY <1>2, <1>4, <2>1
<1>6. QED
  BY <1>1, <1>2, <1>3, <1>4, <1>5 DEF OpeningIs

LEMMA ReadingSeq ==
  ASSUME IInv, SeqInv, ~repaired, pc = "recovering", TypeOK',
         NEW n, NEW recs, NEW count, ReadsOn(n, recs, count)
  PROVE  SeqInv'
<1>. DEFINE some == {recs[k] : k \in 1..count}
<1>1. OpeningIs
  BY WhileOpening DEF Opening
<1>2. DiskSeq /\ OpenSeq
  BY DEF SeqInv
<1>3. /\ n \in opening.todo /\ n \in DOMAIN logs /\ n >= vs.log /\ n \in Nat /\ TypeOK
  BY <1>1 DEF ReadsOn, OpeningIs
<1>4. /\ logs[n].recs \in Seq(Records(issued)) /\ recs \in Seq(Records(issued))
      /\ Len(recs) = IF opening.at < Len(logs[n].recs) THEN Len(logs[n].recs) - opening.at ELSE 0
      /\ \A k \in 1..Len(recs) : recs[k] = logs[n].recs[opening.at + k]
      /\ count \in 0..Len(recs)
  BY <1>3, UnreadIs DEF ReadsOn
<1>5. some \subseteq LogRecords(logs, vs.log)
  <2>. SUFFICES ASSUME NEW k \in 1..count PROVE recs[k] \in LogRecords(logs, vs.log)
    OBVIOUS
  <2>1. opening.at + k \in 1..Len(logs[n].recs) /\ recs[k] = logs[n].recs[opening.at + k]
    <3>1. Len(logs[n].recs) \in Nat /\ opening.at \in Nat /\ Len(recs) \in Nat /\ k \in 1..Len(recs)
      BY <1>1, <1>4 DEF OpeningIs
    <3>2. \A all, at, l \in Nat : \A j \in 1..l :
            l = (IF at < all THEN all - at ELSE 0) => at + j \in 1..all
      OBVIOUS
    <3>3. opening.at + k \in 1..Len(logs[n].recs)
      BY <1>4, <3>1, <3>2
    <3>4. QED
      BY <1>4, <3>1, <3>3
  <2>2. QED
    BY <1>3, <2>1, InLogRecords
<1>6. DiskSeq'
  <2>1. \A m \in Ends(manifests[current]) : manifests[current].recs[m].next <= vs.next
    <3>1. \A m \in Ends(manifests[current]) : manifests[current].recs[m].next < vs.next /\ manifests[current].recs[m].next \in Nat
      BY <1>1 DEF IInv, ReadInv, OpeningIs, EndsAreGood, Good
    <3>2. QED
      BY <1>1, <3>1 DEF OpeningIs
  <2>2. ASSUME NEW m \in Ends(manifests[current])
        PROVE  Keeps(tables, tables', FilesAfter(manifests[current].recs, m))
    <3>1. ASSUME NEW f \in FilesAfter(manifests[current].recs, m), f \in DOMAIN tables PROVE f # vs.next
      <4>1. f < manifests[current].recs[m].next /\ manifests[current].recs[m].next \in Nat /\ f \in Nat
        BY <1>1, <3>1 DEF OpeningIs, EndsAreGood, Good
      <4>2. manifests[current].recs[m].next <= vs.next /\ vs.next \in Nat
        BY <1>1, <2>1 DEF OpeningIs
      <4>3. QED
        BY <4>1, <4>2
    <3>2. QED
      BY <3>1 DEF Keeps, ReadsOn
  <2>3. NoMore(logs, logs')
    BY SameLogs DEF ReadsOn
  <2>4. /\ current' = current /\ reuse' = reuse /\ manifests'[current].recs = manifests[current].recs
        /\ manifests'[current].synced = manifests[current].synced
    BY DEF ReadsOn
  <2>5. QED
    BY <1>1, <1>2, <2>2, <2>3, <2>4, DiskSeqStays DEF OpeningIs
<1>7. /\ Ordered(Recovered)
      /\ UpTo(TableRecords(tables, vs.files), vs.last)
      /\ UpTo(TableRecords(tables, opening.added), opening.max)
      /\ UpTo(mem, opening.max)
      /\ \A m \in DOMAIN logs : m >= vs.log =>
           \A k \in 1..Len(logs[m].recs) :
             \/ logs[m].recs[k].seq <= opening.max
             \/ m \in opening.todo /\ ((\A l \in opening.todo : m <= l) => k > opening.at)
      /\ Final(manifests[current]).last <= vs.last
  BY <1>2 DEF OpenSeq, Opening
<1>8. TableRecords(tables', vs'.files) = TableRecords(tables, vs.files)
  <2>1. vs.files \subseteq DOMAIN tables /\ Keeps(tables, tables', vs.files)
    BY <1>1 DEF OpeningIs, ReadsOn, Keeps
  <2>2. QED
    BY <2>1, SameRecords DEF ReadsOn
<1>9. TableRecords(tables', opening'.added) \subseteq TableRecords(tables, opening.added) \union some
  <2>1. ASSUME NEW r \in TableRecords(tables', opening'.added)
        PROVE  r \in TableRecords(tables, opening.added) \union some
    <3>1. PICK t \in opening'.added : r \in tables'[t].recs
      BY DEF TableRecords
    <3>2. CASE t \in opening.added
      <4>1. tables'[t] = tables[t]
        BY <1>1, <3>2 DEF OpeningIs, ReadsOn
      <4>2. QED
        BY <3>1, <3>2, <4>1 DEF TableRecords
    <3>3. CASE t \notin opening.added
      BY <3>1, <3>3 DEF ReadsOn
    <3>4. QED
      BY <3>2, <3>3
  <2>2. QED
    BY <2>1
<1>10. mem' \subseteq mem \union some
  BY DEF ReadsOn
<1>11. Recovered' \subseteq Recovered
  <2>1. Recovered' = mem' \union TableRecords(tables', vs'.files) \union TableRecords(tables', opening'.added)
                       \union LogRecords(logs, vs.log)
    BY DEF Recovered, TableRecords, ReadsOn
  <2>2. Recovered = mem \union TableRecords(tables, vs.files) \union TableRecords(tables, opening.added)
                      \union LogRecords(logs, vs.log)
    BY DEF Recovered, TableRecords
  <2>. HIDE DEF some
  <2>3. QED
    BY <1>5, <1>8, <1>9, <1>10, <2>1, <2>2
<1>12. opening.max \in Nat /\ opening'.max \in Nat /\ opening.max <= opening'.max
  BY <1>1 DEF OpeningIs, ReadsOn, TypeOK, OpeningType
<1>13. \A r \in some : r.seq <= opening'.max
  BY DEF ReadsOn
<1>14. ASSUME NEW S, S \subseteq Records(issued), UpTo(S, opening.max) PROVE UpTo(S, opening'.max)
  <2>1. \A r \in S : r.seq \in Nat /\ r.seq <= opening.max
    BY <1>14 DEF Records, UpTo
  <2>2. QED
    BY <1>12, <2>1 DEF UpTo
<1>15. UpTo(TableRecords(tables', opening'.added), opening'.max)
  <2>1. TableRecords(tables, opening.added) \subseteq Records(issued)
    BY <1>1, RecordsAre DEF OpeningIs
  <2>2. UpTo(TableRecords(tables, opening.added), opening'.max)
    BY <1>7, <1>14, <2>1
  <2>3. QED
    BY <1>9, <1>13, <2>2 DEF UpTo
<1>16. UpTo(mem', opening'.max)
  <2>1. mem \subseteq Records(issued)
    BY <1>1 DEF OpeningIs, TypeOK
  <2>2. UpTo(mem, opening'.max)
    BY <1>7, <1>14, <2>1
  <2>3. QED
    BY <1>10, <1>13, <2>2 DEF UpTo
<1>17. ASSUME NEW m \in DOMAIN logs, m >= vs.log, NEW k \in 1..Len(logs[m].recs)
       PROVE  \/ logs[m].recs[k].seq <= opening'.max
              \/ m \in opening'.todo /\ ((\A l \in opening'.todo : m <= l) => k > opening'.at)
  <2>1. CASE logs[m].recs[k].seq <= opening.max
    <3>1. logs[m].recs[k].seq \in Nat
      <4>1. logs[m].recs \in Seq(Records(issued))
        BY <1>1 DEF OpeningIs, TypeOK, LogType
      <4>2. logs[m].recs[k] \in Records(issued) /\ issued \in Nat
        BY <1>1, <4>1 DEF OpeningIs
      <4>3. QED
        BY <4>2 DEF Records
    <3>2. logs[m].recs[k].seq <= opening'.max
      BY <1>12, <2>1, <3>1
    <3>3. QED
      BY <3>2
  <2>2. CASE m \in opening.todo /\ ((\A l \in opening.todo : m <= l) => k > opening.at) /\ m # n
    <3>1. ~(m <= n)
      BY <1>1, <1>3, <2>2 DEF OpeningIs, ReadsOn
    <3>2. CASE opening'.todo = opening.todo
      BY <1>3, <2>2, <3>1, <3>2
    <3>3. CASE opening'.todo = opening.todo \ {n} /\ opening'.at = 0
      BY <2>2, <3>3
    <3>4. QED
      BY <3>2, <3>3 DEF ReadsOn
  <2>3. CASE m = n /\ m \in opening.todo /\ ((\A l \in opening.todo : m <= l) => k > opening.at)
    <3>0. Len(recs) \in Nat
      BY <1>4
    <3>1. k > opening.at /\ opening.at \in Nat /\ k \in Nat /\ Len(logs[n].recs) \in Nat /\ k <= Len(logs[n].recs)
          /\ count \in Nat /\ count <= Len(recs)
      BY <1>1, <1>4, <2>3 DEF OpeningIs, ReadsOn
    <3>2. CASE k <= opening.at + count
      <4>0. \A at, c, l, j \in Nat : j > at /\ j <= at + c /\ c <= l =>
              j - at \in 1..c /\ j - at \in 1..l /\ at + (j - at) = j
        OBVIOUS
      <4>1. k - opening.at \in 1..count /\ k - opening.at \in 1..Len(recs) /\ opening.at + (k - opening.at) = k
        BY <3>0, <3>1, <3>2, <4>0
      <4>2. recs[k - opening.at] = logs[n].recs[k]
        BY <1>4, <4>1
      <4>3. QED
        BY <2>3, <4>1, <4>2 DEF ReadsOn
    <3>3. CASE k > opening.at + count
      <4>0. \A all, at, c, l, j \in Nat :
              j > at /\ j <= all /\ j > at + c /\ l = (IF at < all THEN all - at ELSE 0) => c # l
        OBVIOUS
      <4>1. count # Len(recs)
        BY <1>4, <3>0, <3>1, <3>3, <4>0
      <4>2. QED
        BY <2>3, <3>3, <4>1 DEF ReadsOn
    <3>4. QED
      BY <3>1, <3>2, <3>3
  <2>4. QED
    BY <1>7, <1>17, <2>1, <2>2, <2>3
<1>18. OpenSeq'
  <2>1. Ordered(Recovered')
    BY <1>7, <1>11, OrderedPart
  <2>2. /\ pc' = "recovering" /\ logs' = logs /\ vs'.log = vs.log /\ vs'.last = vs.last
        /\ Final(manifests'[current']) = Final(manifests[current])
    BY DEF ReadsOn, Final
  <2>3. QED
    BY <1>7, <1>8, <1>15, <1>16, <1>17, <2>1, <2>2 DEF OpenSeq
<1>19. QED
  BY <1>6, <1>18, SeqWhenOpening DEF ReadsOn

LEMMA RecoverTableSeq == ASSUME IInv, SeqInv, ~repaired, RecoverTable PROVE SeqInv'
<1>. DEFINE n == Min(opening.todo)
            recs == Unread(n)
            first == SubSeq(recs, 1, MaxMem)
<1>1. /\ pc = "recovering" /\ opening.todo # {} /\ Len(recs) >= MaxMem
      /\ tables' = With(tables, vs.next, [recs |-> ToSet(first), ok |-> TRUE])
      /\ opening' = [opening EXCEPT !.at = @ + MaxMem, !.compacted = TRUE, !.save = TRUE,
                                    !.added = @ \union {vs.next}, !.max = LastSeq(first, @)]
      /\ vs' = [vs EXCEPT !.next = @ + 1]
      /\ UNCHANGED <<logs, manifests, current, pc, mem, reuse, issued>>
  BY DEF RecoverTable, history
<1>2. OpeningIs
  BY <1>1, WhileOpening DEF Opening
<1>3. n \in opening.todo /\ n \in DOMAIN logs /\ \A m \in opening.todo : n <= m
  BY <1>1, <1>2, LeastNumber DEF OpeningIs
<1>4. recs \in Seq(Records(issued))
  BY <1>2, <1>3, UnreadIs DEF OpeningIs
<1>5. /\ first \in Seq(Records(issued)) /\ Len(first) = MaxMem /\ MaxMem \in 0..Len(recs)
      /\ \A k \in 1..MaxMem : first[k] = recs[k]
  BY <1>1, <1>4, MemAssumption
<1>6. opening.max <= LastSeq(first, opening.max) /\ \A k \in 1..MaxMem : first[k].seq <= LastSeq(first, opening.max)
  BY <1>2, <1>5, LastSeqBounds DEF OpeningIs
<1>. HIDE DEF n, recs
<1>7. ToSet(first) \subseteq {recs[k] : k \in 1..MaxMem}
  BY <1>5 DEF ToSet
<1>. HIDE DEF first
<1>8. /\ vs'.files = vs.files /\ vs'.log = vs.log /\ vs'.last = vs.last
      /\ opening'.todo = opening.todo /\ opening'.at = opening.at + MaxMem
      /\ opening'.added = opening.added \union {vs.next} /\ opening'.max = LastSeq(first, opening.max)
  BY <1>1, <1>2 DEF OpeningIs, VersionType, OpeningType
<1>9. /\ \A t \in DOMAIN tables : t # vs.next => t \in DOMAIN tables' /\ tables'[t] = tables[t]
      /\ tables'[vs.next].recs = ToSet(first)
  BY <1>1 DEF With, Joined
<1>10. /\ \A t \in opening'.added \ opening.added : t = vs.next /\ tables'[t].recs \subseteq {recs[k] : k \in 1..MaxMem}
       /\ opening.max <= opening'.max /\ \A k \in 1..MaxMem : recs[k].seq <= opening'.max
  BY <1>5, <1>6, <1>7, <1>8, <1>9
<1>11. ReadsOn(n, recs, MaxMem)
  BY <1>1, <1>3, <1>5, <1>8, <1>9, <1>10 DEF ReadsOn, recs
<1>12. TypeOK'
  BY RecoverTableIInv DEF IInv
<1>13. QED
  BY <1>1, <1>11, <1>12, ReadingSeq

LEMMA RecoverLogFileSeq == ASSUME IInv, SeqInv, ~repaired, RecoverLogFile PROVE SeqInv'
<1>1. /\ pc = "recovering" /\ opening.todo # {}
      /\ UNCHANGED <<logs, manifests, current, pc, reuse, issued>>
  BY DEF RecoverLogFile, history
<1>. DEFINE GoesOn(n, recs) ==
              /\ reuse /\ opening.todo = {n} /\ ~opening.compacted
              /\ mem' = ToSet(recs) /\ logFile' = n
              /\ opening' = LogRead(n, recs)
              /\ vs' = [vs EXCEPT !.next = MarkFileNumberUsed(@, n)]
              /\ UNCHANGED tables
            Skips(n, recs) ==
              /\ opening' = LogRead(n, recs)
              /\ vs' = [vs EXCEPT !.next = MarkFileNumberUsed(@, n)]
              /\ UNCHANGED tables
            Builds(n, recs) ==
              /\ tables' = With(tables, vs.next, [recs |-> ToSet(recs), ok |-> TRUE])
              /\ opening' = [LogRead(n, recs) EXCEPT !.added = @ \union {vs.next}, !.save = TRUE]
              /\ vs' = [vs EXCEPT !.next = MarkFileNumberUsed(@ + 1, n)]
<1>2a. PICK n \in {Min(opening.todo)} : \E recs \in {Unread(n)} :
         /\ Len(recs) < MaxMem
         /\ \/ GoesOn(n, recs)
            \/ /\ IF recs = << >> THEN Skips(n, recs) ELSE Builds(n, recs)
               /\ UNCHANGED <<mem, logFile>>
  BY DEF RecoverLogFile
<1>2b. PICK recs \in {Unread(n)} :
         /\ Len(recs) < MaxMem
         /\ \/ GoesOn(n, recs)
            \/ /\ IF recs = << >> THEN Skips(n, recs) ELSE Builds(n, recs)
               /\ UNCHANGED <<mem, logFile>>
  BY <1>2a
<1>2.
        /\ n = Min(opening.todo) /\ recs = Unread(n)
        /\ \/ /\ mem' = ToSet(recs) /\ opening' = LogRead(n, recs)
              /\ vs' = [vs EXCEPT !.next = MarkFileNumberUsed(@, n)]
              /\ UNCHANGED tables
           \/ /\ opening' = LogRead(n, recs)
              /\ vs' = [vs EXCEPT !.next = MarkFileNumberUsed(@, n)]
              /\ UNCHANGED <<tables, mem>>
           \/ /\ tables' = With(tables, vs.next, [recs |-> ToSet(recs), ok |-> TRUE])
              /\ opening' = [LogRead(n, recs) EXCEPT !.added = @ \union {vs.next}, !.save = TRUE]
              /\ vs' = [vs EXCEPT !.next = MarkFileNumberUsed(@ + 1, n)]
              /\ UNCHANGED mem
  BY <1>2a, <1>2b
<1>3. OpeningIs
  BY <1>1, WhileOpening DEF Opening
<1>4. n \in opening.todo /\ n \in DOMAIN logs /\ \A m \in opening.todo : n <= m
  BY <1>1, <1>2, <1>3, LeastNumber DEF OpeningIs
<1>5. recs \in Seq(Records(issued)) /\ Len(recs) \in 0..Len(recs)
  BY <1>2, <1>3, <1>4, UnreadIs DEF OpeningIs
<1>. DEFINE last == LastSeq(recs, opening.max)
            read == LogRead(n, recs)
<1>6. opening.max <= last /\ \A k \in 1..Len(recs) : recs[k].seq <= last
  BY <1>3, <1>5, LastSeqBounds DEF OpeningIs
<1>7. ToSet(recs) \subseteq {recs[k] : k \in 1..Len(recs)}
  BY DEF ToSet
<1>8. vs'.files = vs.files /\ vs'.log = vs.log /\ vs'.last = vs.last
  <2>1. vs \in VersionType
    BY <1>3 DEF OpeningIs
  <2>2. CASE vs' = [vs EXCEPT !.next = MarkFileNumberUsed(@, n)]
    BY <2>1, <2>2 DEF VersionType
  <2>3. CASE vs' = [vs EXCEPT !.next = MarkFileNumberUsed(@ + 1, n)]
    BY <2>1, <2>3 DEF VersionType
  <2>4. QED
    BY <1>2, <2>2, <2>3
<1>. HIDE DEF last
<1>9. read.todo = opening.todo \ {n} /\ read.at = 0 /\ read.added = opening.added /\ read.max = last
  BY <1>3 DEF LogRead, MaxOfLog, last, OpeningIs, OpeningType
<1>10. DOMAIN read = {"todo", "at", "compacted", "added", "save", "max"}
  BY <1>3 DEF LogRead, OpeningIs, OpeningType
<1>. HIDE DEF read
<1>11. /\ opening'.todo = opening.todo \ {n} /\ opening'.at = 0 /\ opening'.max = last
       /\ \A t \in opening'.added \ opening.added : t = vs.next /\ tables'[t].recs \subseteq {recs[k] : k \in 1..Len(recs)}
       /\ \A t \in DOMAIN tables : t # vs.next => t \in DOMAIN tables' /\ tables'[t] = tables[t]
       /\ mem' \subseteq mem \union {recs[k] : k \in 1..Len(recs)}
  <2>1. CASE opening' = read /\ UNCHANGED tables /\ (mem' = ToSet(recs) \/ mem' = mem)
    BY <1>7, <1>9, <2>1
  <2>2. CASE /\ tables' = With(tables, vs.next, [recs |-> ToSet(recs), ok |-> TRUE])
             /\ opening' = [read EXCEPT !.added = @ \union {vs.next}, !.save = TRUE]
             /\ UNCHANGED mem
    <3>1. /\ \A t \in DOMAIN tables : t # vs.next => t \in DOMAIN tables' /\ tables'[t] = tables[t]
          /\ tables'[vs.next].recs = ToSet(recs)
      BY <2>2 DEF With, Joined
    <3>2. /\ opening'.todo = read.todo /\ opening'.at = read.at /\ opening'.max = read.max
          /\ opening'.added = read.added \union {vs.next}
      BY <1>10, <2>2
    <3>3. opening'.todo = opening.todo \ {n} /\ opening'.at = 0 /\ opening'.max = last
      BY <1>9, <3>2
    <3>4. \A t \in opening'.added \ opening.added : t = vs.next
      BY <1>9, <3>2
    <3>5. \A t \in opening'.added \ opening.added : tables'[t].recs \subseteq {recs[k] : k \in 1..Len(recs)}
      BY <1>7, <3>1, <3>4
    <3>6. QED
      BY <2>2, <3>1, <3>3, <3>4, <3>5
  <2>3. QED
    BY <1>2, <2>1, <2>2 DEF read
<1>12. ReadsOn(n, recs, Len(recs))
  BY <1>1, <1>2, <1>4, <1>5, <1>6, <1>8, <1>11 DEF ReadsOn
<1>13. TypeOK'
  BY RecoverLogFileIInv DEF IInv
<1>14. QED
  BY <1>1, <1>12, <1>13, ReadingSeq

(* StartLog: with all logs read, the last number is that of all records.    *)
LEMMA StartLogSeq == ASSUME IInv, SeqInv, ~repaired, StartLog PROVE SeqInv'
<1>1. /\ pc = "recovering" /\ opening.todo = {} /\ pc' = "starting"
      /\ vs'.files = vs.files /\ vs'.log = vs.log /\ vs'.last = Max({vs.last, opening.max})
      /\ logs' = logs \/ logs' = With(logs, vs.next, NewLog)
      /\ UNCHANGED <<manifests, tables, current, mem, opening, reuse, issued>>
  <2>1. vs \in VersionType
    BY WhileOpening DEF StartLog, Opening, OpeningIs
  <2>. DEFINE v == [vs EXCEPT !.last = Max({@, opening.max})]
  <2>2. v.files = vs.files /\ v.log = vs.log /\ v.last = Max({vs.last, opening.max})
        /\ DOMAIN v = {"log", "next", "last", "manifest", "described", "files"}
    BY <2>1 DEF VersionType
  <2>3. (vs' = v /\ logs' = logs) \/ (vs' = [v EXCEPT !.next = @ + 1] /\ logs' = With(logs, vs.next, NewLog))
    BY DEF StartLog
  <2>. HIDE DEF v
  <2>4. vs'.files = v.files /\ vs'.log = v.log /\ vs'.last = v.last
    BY <2>2, <2>3
  <2>5. QED
    BY <2>2, <2>3, <2>4 DEF StartLog, history
<1>2. OpeningIs
  BY <1>1, WhileOpening DEF Opening
<1>3. /\ DiskSeq /\ Ordered(Recovered) /\ UpTo(TableRecords(tables, vs.files), vs.last)
      /\ UpTo(TableRecords(tables, opening.added), opening.max)
      /\ UpTo(mem, opening.max)
      /\ \A m \in DOMAIN logs : m >= vs.log => \A k \in 1..Len(logs[m].recs) : logs[m].recs[k].seq <= opening.max
      /\ Final(manifests[current]).last <= vs.last
  BY <1>1 DEF SeqInv, OpenSeq, Opening
<1>4. TypeOK' /\ TypeOK
  BY StartLogIInv DEF IInv
<1>5. vs'.last \in Nat /\ vs.last <= vs'.last /\ opening.max <= vs'.last
  BY <1>1, <1>2, MaxOfTwo DEF OpeningIs
<1>6. NoMore(logs, logs')
  <2>1. CASE logs' = logs
    BY <2>1, SameLogs
  <2>2. CASE logs' = With(logs, vs.next, NewLog)
    <3>1. /\ \A m \in DOMAIN logs' : m \in DOMAIN logs \union {vs.next}
          /\ \A m \in DOMAIN logs' : m # vs.next => logs'[m] = logs[m]
          /\ logs'[vs.next] = NewLog
      BY <2>2 DEF With, Joined
    <3>2. Len(NewLog.recs) = 0
      BY DEF NewLog
    <3>3. QED
      BY <3>1, <3>2 DEF NoMore
  <2>3. QED
    BY <1>1, <2>1, <2>2
<1>7. DiskSeq'
  <2>1. \A files : Keeps(tables, tables', files)
    BY <1>1, TablesStay
  <2>2. QED
    BY <1>1, <1>2, <1>3, <1>4, <1>6, <2>1, DiskSeqStays DEF OpeningIs
<1>8. Recovered' \subseteq Recovered
  <2>1. LogRecords(logs', vs.log) \subseteq LogRecords(logs, vs.log)
    <3>1. DOMAIN logs' \subseteq Nat
      BY <1>4 DEF TypeOK, IsBounded
    <3>2. vs.log \in Nat
      BY <1>2 DEF OpeningIs
    <3>3. vs.log <= vs.log
      BY <3>2
    <3>4. QED
      BY <1>6, <3>1, <3>2, <3>3, FewerRecords
  <2>2. QED
    BY <1>1, <2>1 DEF Recovered
<1>9. UpTo(TableRecords(tables, vs.files), vs'.last)
  <2>1. \A r \in TableRecords(tables, vs.files) : r.seq \in Nat /\ r.seq <= vs.last
    <3>1. TableRecords(tables, vs.files) \subseteq Records(issued)
      BY <1>2, RecordsAre DEF OpeningIs
    <3>2. QED
      BY <1>3, <3>1, <1>2 DEF Records, UpTo, OpeningIs
  <2>2. QED
    BY <1>2, <1>5, <2>1 DEF UpTo, OpeningIs
<1>10. \A m \in DOMAIN logs' : m >= vs.log => \A k \in 1..Len(logs'[m].recs) : logs'[m].recs[k].seq <= opening.max
  BY <1>3, <1>6 DEF NoMore
<1>11. OpenSeq'
  <2>1. Ordered(Recovered')
    BY <1>3, <1>8, OrderedPart
  <2>2. Final(manifests'[current']).last <= vs'.last
    <3>1. \A a, b, c \in Nat : a <= b /\ b <= c => a <= c
      OBVIOUS
    <3>2. Final(manifests[current]).last \in Nat
      <4>1. Len(manifests[current].recs) \in Ends(manifests[current])
        BY <1>1, <1>2, LastIsGood DEF IInv, OpeningInv, Opening, OpeningIs
      <4>2. QED
        BY <1>2, <4>1 DEF OpeningIs, EndsAreGood, Good, Final
    <3>3. Final(manifests[current]).last <= vs'.last
      BY <1>2, <1>3, <1>5, <3>1, <3>2 DEF OpeningIs
    <3>4. QED
      BY <1>1, <3>3 DEF Final
  <2>3. QED
    BY <1>1, <1>3, <1>5, <1>9, <1>10, <2>1, <2>2 DEF OpenSeq
<1>12. QED
  BY <1>1, <1>7, <1>11, SeqWhenOpening

(* What an open database has to be for its invariant, after Open.           *)
LEMMA SeqWhenOpened ==
  ASSUME IInv, TypeOK', SeqInv, ~repaired, pc \in {"starting", "applying"}, pc' = "up", applying' = None,
         writing' = None, imm' = {}, mem' = mem, vs'.files = vs.files \union opening.added, vs'.last = vs.last,
         vs'.log \in Nat, vs.log <= vs'.log,
         Keeps(tables, tables', vs.files \union opening.added),
         NoMore(logs, logs'), vs.log \in Nat, NEW n, NEW files, NEW e,
         files \subseteq vs.files \union opening.added, e.log \in Nat, e.log >= vs.log,
         e.last <= vs.last, e.last = vs.last \/ UpTo(TableRecords(tables, files), e.last),
         Ends(manifests[current])' = {n}, manifests'[current'].recs[n] = e,
         FilesAfter(manifests'[current'].recs, n) = files
  PROVE  SeqInv'
<1>1. OpeningIs
  BY WhileOpening DEF Opening
<1>. DEFINE all == vs.files \union opening.added
<1>2. /\ Ordered(Recovered) /\ UpTo(TableRecords(tables, vs.files), vs.last)
      /\ UpTo(TableRecords(tables, opening.added), opening.max) /\ UpTo(mem, opening.max) /\ opening.max <= vs.last
      /\ \A m \in DOMAIN logs : m >= vs.log => \A k \in 1..Len(logs[m].recs) : logs[m].recs[k].seq <= opening.max
  BY DEF SeqInv, OpenSeq, Opening, IInv, LogIsOpen
<1>3. all \subseteq DOMAIN tables /\ opening.max \in Nat /\ vs.last \in Nat /\ issued \in Nat /\ TypeOK
  BY <1>1 DEF OpeningIs
<1>4. ASSUME NEW S, S \subseteq Records(issued), UpTo(S, opening.max) PROVE UpTo(S, vs.last)
  <2>1. \A r \in S : r.seq \in Nat /\ r.seq <= opening.max
    BY <1>4 DEF Records, UpTo
  <2>2. QED
    BY <1>2, <1>3, <2>1 DEF UpTo
<1>5. TableRecords(tables', all) = TableRecords(tables, all)
  BY <1>3, SameRecords
<1>6. UpTo(TableRecords(tables, all), vs.last)
  <2>1. TableRecords(tables, opening.added) \subseteq Records(issued)
    BY <1>3, RecordsAre
  <2>2. UpTo(TableRecords(tables, opening.added), vs.last)
    BY <1>2, <1>4, <2>1
  <2>3. TableRecords(tables, all) = TableRecords(tables, vs.files) \union TableRecords(tables, opening.added)
    BY DEF TableRecords
  <2>4. QED
    BY <1>2, <2>2, <2>3 DEF UpTo
<1>7. UpTo(mem, vs.last)
  <2>1. mem \subseteq Records(issued)
    BY <1>3 DEF TypeOK
  <2>2. QED
    BY <1>2, <1>4, <2>1
<1>8. UpTo(LogRecords(logs, vs.log), vs.last)
  <2>1. UpTo(LogRecords(logs, vs.log), opening.max)
    BY <1>2, InLogRecords DEF UpTo
  <2>2. LogRecords(logs, vs.log) \subseteq Records(issued)
    BY <1>3, RecordsAre
  <2>3. QED
    BY <1>4, <2>1, <2>2
<1>9. LogRecords(logs', e.log) \subseteq LogRecords(logs, vs.log) /\ LogRecords(logs', vs'.log) \subseteq LogRecords(logs, vs.log)
  <2>1. DOMAIN logs' \subseteq Nat
    BY DEF TypeOK, IsBounded
  <2>2. vs.log <= e.log
    OBVIOUS
  <2>3. QED
    BY <2>1, <2>2, FewerRecords
<1>10. Recovered = mem \union TableRecords(tables, all) \union LogRecords(logs, vs.log)
  BY DEF Recovered
<1>11. Held' = mem \union TableRecords(tables, all)
  <2>1. Held' = mem \union TableRecords(tables', all)
    BY DEF Held
  <2>2. QED
    BY <1>5, <2>1
<1>12. TableRecords(tables', files) \subseteq TableRecords(tables, all)
  <2>1. TableRecords(tables', files) \subseteq TableRecords(tables', all)
    BY DEF TableRecords
  <2>2. QED
    BY <1>5, <2>1
<1>13. ASSUME NEW k \in Ends(manifests[current])'
       PROVE  /\ k = n /\ Live(k)' = TableRecords(tables', files) \union LogRecords(logs', e.log)
  <2>1. k = n
    OBVIOUS
  <2>2. Live(k)' = TableRecords(tables', FilesAfter(manifests'[current'].recs, k))
                     \union LogRecords(logs', manifests'[current'].recs[k].log)
    BY DEF Live
  <2>3. QED
    BY <2>1, <2>2
<1>. HIDE DEF all
<1>14. ASSUME NEW k \in Ends(manifests[current])' PROVE All(k)' \subseteq Recovered /\ Live(k)' \subseteq Recovered
  <2>1. Live(k)' \subseteq Recovered /\ Held' \subseteq Recovered
    BY <1>9, <1>10, <1>11, <1>12, <1>13
  <2>2. QED
    BY <1>9, <1>10, <2>1 DEF All
<1>15. DiskSeq'
  <2>. SUFFICES ASSUME NEW k \in Ends(manifests[current])'
                PROVE  /\ Ordered(Live(k)')
                       /\ UpTo(TableRecords(tables', FilesAfter(manifests'[current'].recs, k)), manifests'[current'].recs[k].last)
    BY DEF DiskSeq
  <2>1. Live(k)' \subseteq Recovered
    BY <1>14
  <2>2. Ordered(Live(k)')
    BY <1>2, <2>1, OrderedPart
  <2>3. UpTo(TableRecords(tables', files), e.last)
    <3>1. CASE e.last = vs.last
      BY <1>6, <1>12, <3>1, UpToPart
    <3>2. CASE UpTo(TableRecords(tables, files), e.last)
      <4>1. Keeps(tables, tables', files) /\ files \subseteq DOMAIN tables
        BY <1>3 DEF all, Keeps
      <4>2. QED
        BY <3>2, <4>1, SameRecords
    <3>3. QED
      BY <3>1, <3>2
  <2>4. QED
    BY <1>13, <2>2, <2>3
<1>16. UpSeq'
  <2>1. ASSUME NEW k \in Ends(manifests[current])'
        PROVE  /\ Ordered(All(k)') /\ \A r \in All(k)' : r.seq <= vs'.last \/ r = writing'
               /\ manifests'[current'].recs[k].last <= vs'.last
    <3>1. All(k)' \subseteq Recovered /\ k = n
      BY <1>14
    <3>2. Ordered(All(k)')
      BY <1>2, <3>1, OrderedPart
    <3>3. UpTo(Recovered, vs.last)
      BY <1>6, <1>7, <1>8, <1>10 DEF UpTo
    <3>4. QED
      BY <3>1, <3>2, <3>3 DEF UpTo
  <2>2. UpTo(Held', vs'.last)
    BY <1>6, <1>7, <1>11 DEF UpTo
  <2>3. QED
    BY <2>1, <2>2 DEF UpSeq
<1>17. QED
  BY <1>15, <1>16, SeqWhenUp DEF EditSeq

LEMMA OpenAsItWasSeq == ASSUME IInv, SeqInv, ~repaired, OpenAsItWas PROVE SeqInv'
<1>. DEFINE edits == manifests[current].recs
            e == edits[Len(edits)]
<1>1. /\ pc = "starting" /\ ~opening.save /\ pc' = "up" /\ DeletesOnly(vs, {}, manifests)
      /\ UNCHANGED <<current, vs, mem, imm, applying, writing, reuse>>
  BY DeletionKeeps DEF OpenAsItWas, OpenReturns, jobs
<1>2. OpeningIs /\ OpeningInv /\ ReadInv /\ Len(edits) > 0 /\ vs.manifest \in Nat /\ Quiet /\ imm = {}
  <2>1. OpeningIs
    BY <1>1, WhileOpening DEF Opening
  <2>2. OpeningInv /\ ReadInv /\ vs.manifest \in Nat
    BY <2>1 DEF IInv, OpeningIs, VersionType
  <2>3. QED
    BY <1>1, <2>1, <2>2 DEF OpeningInv, Opening
<1>3. reuse /\ opening.added = {} /\ vs.manifest = current
  BY <1>1, <1>2 DEF OpeningInv, Opening
<1>4. applying = None /\ FilesAfter(edits, Len(edits)) = vs.files /\ e.log = vs.log /\ e.last <= vs.last
  BY <1>1, <1>2 DEF ReadInv, Final, SeqInv, OpenSeq, Opening
<1>5. current \in DOMAIN manifests /\ Len(edits) \in Nat /\ Len(edits) \in Ends(manifests[current])
  BY <1>2, LastIsGood DEF OpeningIs, IInv, DiskInv
<1>6. manifests'[current] = manifests[current]
  BY <1>1, <1>2, <1>3, <1>5 DEF DeletesOnly
<1>7. NoMore(logs, logs')
  BY <1>1 DEF DeletesOnly, NoMore
<1>8. Keeps(tables, tables', vs.files \union opening.added)
  BY <1>1, <1>3 DEF DeletesOnly, Keeps
<1>9. TypeOK'
  BY OpenAsItWasIInv DEF IInv
<1>10. Ends(manifests[current])' = {Len(edits)}
  BY <1>1, <1>3, <1>5, <1>6 DEF Ends
<1>11. UpTo(TableRecords(tables, vs.files), e.last) /\ Ordered(Live(Len(edits)))
  BY <1>2, <1>4, <1>5 DEF SeqInv, DiskSeq, OpeningIs
<1>. DEFINE n == Len(edits)
            files == FilesAfter(edits, n)
<1>12. files = vs.files /\ Ends(manifests[current])' = {n} /\ manifests'[current'].recs[n] = e
       /\ FilesAfter(manifests'[current'].recs, n) = files /\ e.log = vs.log
       /\ UpTo(TableRecords(tables, files), e.last) /\ e.last <= vs.last
  BY <1>1, <1>4, <1>6, <1>10, <1>11
<1>. HIDE DEF n, files, e
<1>13. files \subseteq vs.files \union opening.added /\ vs'.files = vs.files \union opening.added
       /\ e.log \in Nat /\ e.log >= vs.log /\ vs.log \in Nat /\ vs'.log \in Nat /\ vs.log <= vs'.log
  BY <1>1, <1>2, <1>3, <1>12 DEF OpeningIs
<1>14. pc \in {"starting", "applying"} /\ applying' = None /\ writing' = None /\ imm' = {} /\ vs'.last = vs.last
       /\ mem' = mem
  BY <1>1, <1>2, <1>4 DEF Quiet
<1>15. QED
  BY <1>1, <1>7, <1>8, <1>9, <1>12, <1>13, <1>14, SeqWhenOpened

LEMMA LogOpeningSeq == ASSUME IInv, SeqInv, ~repaired, LogOpening PROVE SeqInv'
<1>. DEFINE edits == manifests[current].recs
            new == Edit(logFile, vs, opening.added, {})
            all == vs.files \union opening.added
<1>1. /\ pc = "starting" /\ pc' = "applying" /\ applying'.edit = new
      /\ \E m : manifests' = With(manifests, vs.manifest, m)
      /\ UNCHANGED <<logs, tables, current, vs, mem, logFile, opening, reuse, issued>>
  BY DEF LogOpening, history
<1>2. OpeningIs /\ OpeningInv /\ LogIsOpen
  <2>1. OpeningIs
    BY <1>1, WhileOpening DEF Opening
  <2>2. QED
    BY <2>1 DEF IInv, OpeningIs
<1>3. /\ vs.manifest \in Nat /\ current \in Nat /\ (vs.described => reuse) /\ opening.todo = {}
      /\ ~vs.described => vs.manifest > current
      /\ logFile >= vs.log
  BY <1>1, <1>2 DEF OpeningInv, OpeningIs, Opening, LogIsOpen, VersionType, TypeOK
<1>4. current \in DOMAIN manifests /\ edits \in Seq(EditType) /\ Len(edits) \in Nat /\ logFile \in Nat
  BY <1>2, LastIsGood DEF OpeningIs, IInv, DiskInv, TypeOK
<1>5. /\ DiskSeq /\ Ordered(Recovered) /\ UpTo(TableRecords(tables, vs.files), vs.last)
      /\ UpTo(TableRecords(tables, opening.added), opening.max)
      /\ UpTo(mem, opening.max) /\ opening.max <= vs.last
      /\ \A m \in DOMAIN logs : m >= vs.log => \A k \in 1..Len(logs[m].recs) : logs[m].recs[k].seq <= opening.max
  BY <1>1, <1>3 DEF SeqInv, OpenSeq, Opening
<1>6. new.last = vs.last /\ new.log = logFile
  BY DEF Edit
<1>7. TypeOK' /\ OpeningInv' /\ ApplyingInv' /\ EndsAreGood'
  BY <1>1, <1>2, LogOpeningIInv DEF IInv, DiskInv, OpeningIs
<1>8. Recovered' = Recovered
  BY <1>1 DEF Recovered
<1>9. OpenSeq'
  BY <1>1, <1>3, <1>5, <1>6, <1>8 DEF OpenSeq
<1>10. CASE ~vs.described
  <2>1. manifests'[current].recs = edits /\ manifests'[current].synced = manifests[current].synced
    <3>1. vs.manifest # current
      BY <1>3, <1>10
    <3>2. QED
      BY <1>1, <1>4, <3>1 DEF With, Joined
  <2>2. \A files : Keeps(tables, tables', files)
    BY <1>1, TablesStay
  <2>3. NoMore(logs, logs')
    BY <1>1, SameLogs
  <2>4. DiskSeq'
    BY <1>1, <1>2, <1>5, <1>7, <2>1, <2>2, <2>3, DiskSeqStays DEF OpeningIs
  <2>5. QED
    BY <1>1, <1>9, <2>4, SeqWhenOpening
<1>11. CASE vs.described
  <2>. DEFINE n == Len(manifests'[current].recs)
  <2>1. /\ Final(manifests'[current]) = new
        /\ FilesAfter(manifests'[current].recs, n) = all
    BY <1>1, <1>7, <1>11 DEF ApplyingInv
  <2>2. Ends(manifests[current])' \subseteq {n} /\ manifests'[current].recs[n] = new
    BY <1>1, <1>3, <1>11, <2>1 DEF Ends, Final
  <2>3. all \subseteq DOMAIN tables
    BY <1>2 DEF OpeningIs
  <2>. HIDE DEF n, new
  <2>4. UpTo(TableRecords(tables, all), vs.last)
    <3>1. TableRecords(tables, opening.added) \subseteq Records(issued)
      BY <1>2, <2>3, RecordsAre DEF OpeningIs
    <3>2. ASSUME NEW r \in TableRecords(tables, opening.added) PROVE r.seq <= vs.last
      <4>1. r.seq <= opening.max /\ r.seq \in Nat
        BY <1>5, <1>2, <3>1 DEF UpTo, Records, OpeningIs
      <4>2. QED
        BY <1>2, <1>5, <4>1 DEF OpeningIs
    <3>3. TableRecords(tables, all) = TableRecords(tables, vs.files) \union TableRecords(tables, opening.added)
      BY DEF TableRecords
    <3>4. QED
      BY <1>5, <3>2, <3>3 DEF UpTo
  <2>5. LogRecords(logs, logFile) \subseteq LogRecords(logs, vs.log)
    <3>1. NoMore(logs, logs) /\ DOMAIN logs \subseteq Nat /\ vs.log \in Nat /\ vs.log <= logFile
      BY <1>2, <1>3, <1>4, SameLogs DEF OpeningIs
    <3>2. QED
      BY <1>4, <3>1, FewerRecords
  <2>6. ASSUME NEW k \in Ends(manifests[current])'
        PROVE  /\ Ordered(Live(k)')
               /\ UpTo(TableRecords(tables', FilesAfter(manifests'[current'].recs, k)), manifests'[current'].recs[k].last)
    <3>1. k = n
      BY <2>2
    <3>2. Live(k)' = TableRecords(tables, FilesAfter(manifests'[current].recs, k))
                       \union LogRecords(logs, manifests'[current].recs[k].log)
      BY <1>1 DEF Live
    <3>3. Live(k)' = TableRecords(tables, all) \union LogRecords(logs, logFile)
      BY <1>6, <2>1, <2>2, <3>1, <3>2
    <3>4. Live(k)' \subseteq Recovered
      BY <2>5, <3>3 DEF Recovered
    <3>5. Ordered(Live(k)')
      BY <1>5, <3>4, OrderedPart
    <3>6. QED
      BY <1>1, <1>6, <2>1, <2>2, <2>4, <3>1, <3>5
  <2>7. DiskSeq'
    BY <2>6 DEF DiskSeq
  <2>8. QED
    BY <1>1, <1>9, <2>7, SeqWhenOpening
<1>12. QED
  BY <1>10, <1>11

LEMMA ApplyOpeningSeq == ASSUME IInv, SeqInv, ~repaired, ApplyOpening PROVE SeqInv'
<1>. DEFINE e == applying.edit
            edits == manifests[vs.manifest].recs
            n == Len(edits)
            all == vs.files \union opening.added
<1>1. /\ pc = "applying" /\ pc' = "up" /\ vs' = Applied(vs, e) /\ current' = vs.manifest /\ applying' = None
      /\ DeleteObsoleteFiles(vs', {}, ManifestSynced(vs.manifest))
      /\ UNCHANGED <<mem, imm, logFile, writing, reuse, issued>>
  BY DEF ApplyOpening, OpenReturns
<1>2. OpeningIs /\ OpeningInv /\ LogIsOpen /\ ApplyingInv /\ current \in DOMAIN manifests
  <2>1. OpeningIs
    BY <1>1, WhileOpening DEF Opening
  <2>2. QED
    BY <2>1 DEF IInv, OpeningIs, DiskInv
<1>3. /\ e.log = logFile /\ e.added = opening.added /\ e.deleted = {} /\ Quiet /\ imm = {}
      /\ logFile >= vs.log /\ logFile \in Nat /\ vs.manifest \in Nat
  BY <1>1, <1>2 DEF OpeningInv, ApplyingInv, Opening, LogIsOpen, OpeningIs, TypeOK, VersionType
<1>4. e.last = vs.last
  BY <1>1 DEF SeqInv, OpenSeq, Opening
<1>5. /\ vs.manifest \in DOMAIN manifests /\ n \in Nat /\ n > 0 /\ edits[n] = e /\ FilesAfter(edits, n) = all
  BY <1>1, <1>2, OpeningIsWritten DEF OpeningIs
<1>6. vs'.log = logFile /\ vs'.files = all /\ vs'.manifest = vs.manifest /\ vs'.last = vs.last
  <2>1. vs' = [vs EXCEPT !.files = (@ \ e.deleted) \union e.added, !.log = e.log, !.described = TRUE]
    BY <1>1 DEF Applied
  <2>2. QED
    BY <1>2, <1>3, <2>1 DEF OpeningIs, VersionType
<1>. HIDE DEF all, n, edits, e
<1>7. SyncsAndDeletes(vs.manifest, vs', {})
  BY <1>1, <1>2, <1>3, <1>5, <1>6, SyncedAndDeleted DEF OpeningIs
<1>8. /\ manifests'[current'].recs = edits /\ manifests'[current'].synced = n
      /\ NoMore(logs, logs') /\ Keeps(tables, tables', all)
  BY <1>1, <1>6, <1>7 DEF SyncsAndDeletes, NoMore, Keeps, edits, n
<1>9. /\ Ends(manifests[current])' = {n} /\ manifests'[current'].recs[n] = e
      /\ FilesAfter(manifests'[current'].recs, n) = all
  BY <1>1, <1>5, <1>8 DEF Ends, n
<1>10. TypeOK'
  BY ApplyOpeningIInv DEF IInv
<1>11. writing' = None /\ imm' = {} /\ pc \in {"starting", "applying"} /\ e.log \in Nat /\ e.log >= vs.log
       /\ all \subseteq vs.files \union opening.added /\ vs.log \in Nat
  BY <1>1, <1>2, <1>3 DEF Quiet, all, OpeningIs
<1>12. vs'.files = vs.files \union opening.added /\ Keeps(tables, tables', vs.files \union opening.added)
       /\ mem' = mem /\ vs'.log \in Nat /\ vs.log <= vs'.log /\ e.last <= vs.last
  <2>1. vs.last <= vs.last /\ vs.log <= logFile
    BY <1>2, <1>3 DEF OpeningIs
  <2>2. QED
    BY <1>1, <1>3, <1>4, <1>6, <1>8, <2>1 DEF all
<1>13. QED
  BY <1>1, <1>4, <1>6, <1>8, <1>9, <1>10, <1>11, <1>12, SeqWhenOpened

-----------------------------------------------------------------------------
(* The process or the machine stops.                                        *)
LEMMA ProcessStopsSeq == ASSUME IInv, SeqInv, ~repaired, ProcessStops PROVE SeqInv'
<1>1. pc' = "down" /\ UNCHANGED <<logs, manifests, tables, current, reuse>>
  BY DEF ProcessStops, disk
<1>2. DiskSeq'
  BY <1>1 DEF SeqInv, DiskSeq, Live, Ends
<1>3. QED
  BY <1>1, <1>2, SeqAsleep

LEMMA OpenFailsSeq == ASSUME IInv, SeqInv, ~repaired, TRUE \notin Faults, OpenFails PROVE SeqInv'
<1>1. pc' = "down" /\ UNCHANGED <<logs, tables, current, reuse>> /\ TypeOK /\ DiskInv
  BY DEF OpenFails, IInv
<1>2. current # 0 => manifests'[current] = manifests[current]
  <2>1. CASE pc = "creating"
    BY <2>1 DEF IInv, CreatingInv
  <2>2. CASE pc = "applying" /\ ~vs.described /\ current # 0
    <3>1. manifests' = Without(manifests, {vs.manifest})
      BY <2>2 DEF OpenFails
    <3>2. vs.manifest > current
      BY <2>2 DEF IInv, OpeningInv, Opening
    <3>3. vs.manifest # current
      BY <1>1, <3>2 DEF TypeOK, VersionType
    <3>4. QED
      BY <1>1, <2>2, <3>1, <3>3 DEF Without, Restrict, DiskInv
  <2>3. CASE pc = "starting" /\ vs.described /\ opening.save /\ current # 0
    <3>1. manifests' = [manifests EXCEPT ![current] = CutShort(@)]
      BY <2>3 DEF OpenFails
    <3>2. reuse /\ reuse \in BOOLEAN
      BY <1>1, <2>3 DEF IInv, OpeningInv, Opening, TypeOK
    <3>3. CutShort(manifests[current]) = manifests[current]
      BY <3>2 DEF CutShort
    <3>4. QED
      BY <1>1, <3>1, <3>3
  <2>4. CASE /\ pc # "creating" /\ ~(pc = "applying" /\ ~vs.described)
             /\ ~(pc = "starting" /\ vs.described /\ opening.save)
    BY <2>4 DEF OpenFails
  <2>5. QED
    BY <2>1, <2>2, <2>3, <2>4
<1>3. DiskSeq'
  <2>1. CASE current = 0
    BY <1>1, <2>1 DEF DiskSeq
  <2>2. CASE current # 0
    BY <1>1, <1>2, <2>2 DEF SeqInv, DiskSeq, Live, Ends
  <2>3. QED
    BY <2>1, <2>2
<1>4. QED
  BY <1>1, <1>3, SeqAsleep

LEMMA PowerFailsSeq == ASSUME IInv, SeqInv, ~repaired, TRUE \notin Faults, PowerFails PROVE SeqInv'
<1>. DEFINE m == manifests[current]
            n == Len(manifests'[current].recs)
<1>1. /\ TypeOK /\ DiskInv /\ pc' = "down" /\ UNCHANGED <<tables, current, reuse>>
      /\ reuse \in Faults /\ DiskSeq
  BY DEF PowerFails, IInv, SeqInv
<1>2. reuse = FALSE
  BY <1>1 DEF TypeOK
<1>3. CASE current = 0
  BY <1>1, <1>3, SeqAsleep DEF DiskSeq
<1>4. CASE current # 0
  <2>1. current \in DOMAIN manifests /\ EndsAreGood /\ m \in ManifestType /\ m.synced <= Len(m.recs)
    BY <1>1, <1>4 DEF DiskInv, TypeOK
  <2>2. /\ DOMAIN logs' = DOMAIN logs /\ \A l \in DOMAIN logs : logs'[l] \in LogCuts(logs[l])
        /\ manifests'[current] \in ManifestCuts(m)
    BY <2>1 DEF PowerFails
  <2>3. CutOf(EditType, m, manifests'[current])
    BY <2>1, <2>2, ManifestCutIs
  <2>4. /\ n \in Nat /\ manifests'[current].synced = n /\ n >= m.synced /\ n <= Len(m.recs)
        /\ \A k \in 1..n : manifests'[current].recs[k] = m.recs[k]
        /\ m.synced \in Nat /\ Len(m.recs) \in Nat
    BY <2>1, <2>3 DEF CutOf, ManifestType
  <2>5. NoMore(logs, logs') /\ DOMAIN logs' \subseteq Nat
    <3>2. ASSUME NEW l \in DOMAIN logs
          PROVE  \A k \in 1..Len(logs'[l].recs) : k \in 1..Len(logs[l].recs) /\ logs'[l].recs[k] = logs[l].recs[k]
      <4>. DEFINE f == logs[l]
                  g == logs'[l]
      <4>1. f \in LogType(issued) /\ f.synced <= Len(f.recs) /\ f.recs \in Seq(Records(issued)) /\ f.synced \in Nat
        BY <1>1 DEF TypeOK, LogType
      <4>2. CutOf(Records(issued), f, g)
        BY <1>1, <2>2, <4>1, LogCutIs DEF TypeOK
      <4>3. Len(g.recs) \in Nat /\ Len(f.recs) \in Nat /\ Len(g.recs) <= Len(f.recs)
            /\ \A k \in 1..Len(g.recs) : g.recs[k] = f.recs[k]
        <5>1. Len(g.recs) \in f.synced..Len(f.recs) /\ f.synced \in Nat /\ Len(f.recs) \in Nat
          BY <4>1, <4>2 DEF CutOf
        <5>2. QED
          BY <4>2, <5>1 DEF CutOf
      <4>. HIDE DEF f, g
      <4>4. \A k \in 1..Len(g.recs) : k \in 1..Len(f.recs) /\ g.recs[k] = f.recs[k]
        BY <4>3
      <4>5. QED
        BY <4>4 DEF f, g
    <3>3. NoMore(logs, logs')
      BY <2>2, <3>2 DEF NoMore
    <3>4. QED
      BY <1>1, <2>2, <3>3 DEF TypeOK, IsBounded
  <2>. HIDE DEF n
  <2>6. \A k \in Ends(manifests[current])' : k = n /\ n > 0
    BY <1>1, <1>2, <2>4 DEF Ends, n
  <2>7. ASSUME n > 0
        PROVE  /\ n \in Ends(m) /\ manifests'[current].recs[n] = m.recs[n]
               /\ FilesAfter(manifests'[current].recs, n) = FilesAfter(m.recs, n) /\ m.recs[n].log \in Nat
    <3>1. n \in Ends(m) /\ manifests'[current].recs[n] = m.recs[n]
      BY <1>2, <2>4, <2>7 DEF Ends
    <3>2. FilesAfter(manifests'[current].recs, n) = FilesAfter(m.recs, n)
      BY <2>4, FilesAfterSame
    <3>3. QED
      BY <2>1, <3>1, <3>2 DEF EndsAreGood, Good
  <2>8. ASSUME NEW k \in Ends(manifests[current])'
        PROVE  /\ Ordered(Live(k)')
               /\ UpTo(TableRecords(tables', FilesAfter(manifests'[current'].recs, k)), manifests'[current'].recs[k].last)
    <3>1. k = n /\ n > 0
      BY <2>6
    <3>. DEFINE files == FilesAfter(m.recs, n)
                log == m.recs[n].log
    <3>2. Live(k)' = TableRecords(tables, FilesAfter(manifests'[current].recs, k))
                       \union LogRecords(logs', manifests'[current].recs[k].log)
      BY <1>1 DEF Live
    <3>3. Live(k)' = TableRecords(tables, files) \union LogRecords(logs', log)
      BY <2>7, <3>1, <3>2
    <3>4. Live(n) = TableRecords(tables, files) \union LogRecords(logs, log)
      BY DEF Live
    <3>5. log \in Nat /\ log <= log
      BY <2>7, <3>1
    <3>. HIDE DEF files, log
    <3>6. LogRecords(logs', log) \subseteq LogRecords(logs, log)
      BY <2>5, <3>5, FewerRecords
    <3>7. Ordered(Live(n)) /\ UpTo(TableRecords(tables, files), m.recs[n].last)
      BY <1>1, <1>4, <2>7, <3>1 DEF DiskSeq, files
    <3>8. Live(k)' \subseteq Live(n)
      BY <3>3, <3>4, <3>6
    <3>9. Ordered(Live(k)')
      BY <3>7, <3>8, OrderedPart
    <3>10. QED
      BY <1>1, <2>7, <3>1, <3>7, <3>9 DEF files
  <2>9. DiskSeq'
    BY <2>8 DEF DiskSeq
  <2>10. QED
    BY <1>1, <2>9, SeqAsleep
<1>5. QED
  BY <1>3, <1>4

LEMMA StutterSeq == ASSUME SeqInv, UNCHANGED vars PROVE SeqInv'
  BY SeqStays DEF vars, disk, process, jobs, history

LEMMA RepairedStays == ASSUME [Next]_vars, ~RepairDB PROVE repaired' = repaired
<1>1. CASE NewDB \/ NewDBNamed \/ Recover \/ RecoverRefuses \/ RecoverTable \/ RecoverLogFile \/ StartLog
  <2>1. NewDB \/ NewDBNamed => UNCHANGED history
    BY DEF NewDB, NewDBNamed
  <2>2. RecoverRefuses => UNCHANGED history
    BY DEF RecoverRefuses
  <2>2b. Recover => UNCHANGED history
    BY DEF Recover
  <2>3. RecoverTable => UNCHANGED history
    BY DEF RecoverTable
  <2>4. RecoverLogFile => UNCHANGED history
    BY DEF RecoverLogFile
  <2>5. StartLog => UNCHANGED history
    BY DEF StartLog
  <2>6. QED
    BY <1>1, <2>1, <2>2, <2>2b, <2>3, <2>4, <2>5 DEF history
<1>2. CASE OpenAsItWas \/ LogOpening \/ ApplyOpening \/ OpenFails
  BY <1>2 DEF OpenAsItWas, LogOpening, ApplyOpening, OpenFails, OpenReturns, history
<1>3. CASE WriteToLog \/ (\E sync \in BOOLEAN : WriteReturns(sync)) \/ AppendFails \/ SyncFails
  BY <1>3 DEF WriteToLog, WriteReturns, AppendFails, SyncFails
<1>4. CASE SwitchMemTable \/ StartFlush \/ FinishFlush \/ StartCompaction \/ FinishCompaction \/ LogEdit \/ ApplyEdit
  BY <1>4 DEF SwitchMemTable, StartFlush, FinishFlush, StartCompaction, FinishCompaction, LogEdit, ApplyEdit, history
<1>5. CASE FlushFails \/ CompactionFails \/ EditFails \/ NewIterator \/ DeleteIterator \/ ProcessStops \/ PowerFails
  BY <1>5 DEF FlushFails, CompactionFails, EditFails, NewIterator, DeleteIterator, ProcessStops, PowerFails, history
<1>6. CASE UNCHANGED vars
  BY <1>6 DEF vars, history
<1>7. QED
  BY <1>1, <1>2, <1>3, <1>4, <1>5, <1>6 DEF Next

LEMMA NextSeq == ASSUME TRUE \notin Faults, IInv, SeqInv, [Next]_vars PROVE SeqInv'
<1>1. CASE repaired \/ RepairDB
  <2>1. CASE RepairDB
    BY <2>1 DEF RepairDB, SeqInv
  <2>2. CASE ~RepairDB
    <3>1. repaired'
      BY <1>1, <2>2, RepairedStays
    <3>2. QED
      BY <3>1 DEF SeqInv
  <2>3. QED
    BY <2>1, <2>2
<1>2. ASSUME ~repaired, NEW sync \in BOOLEAN, WriteReturns(sync) PROVE SeqInv'
  <2>1. pc = "up"
    BY <1>2 DEF WriteReturns, IInv, OnlyUp, Quiet
  <2>2. QED
    BY <1>2, <2>1, WriteReturnsSeq
<1>3. CASE ~repaired /\ SyncFails
  <2>1. pc = "up"
    BY <1>3 DEF SyncFails, IInv, OnlyUp, Quiet
  <2>2. QED
    BY <1>3, <2>1, SyncFailsSeq
<1>4. CASE ~repaired /\ (NewDB \/ NewDBNamed \/ Recover \/ RecoverRefuses \/ RecoverTable \/ RecoverLogFile \/ StartLog)
  BY <1>4, NewDBSeq, NewDBNamedSeq, RecoverSeq, RecoverRefusesSeq, RecoverTableSeq, RecoverLogFileSeq, StartLogSeq
<1>5. CASE ~repaired /\ (OpenAsItWas \/ LogOpening \/ ApplyOpening \/ OpenFails)
  BY <1>5, OpenAsItWasSeq, LogOpeningSeq, ApplyOpeningSeq, OpenFailsSeq
<1>6. CASE ~repaired /\ (WriteToLog \/ AppendFails \/ SwitchMemTable \/ StartFlush \/ FinishFlush)
  BY <1>6, WriteToLogSeq, AppendFailsSeq, SwitchMemTableSeq, StartFlushSeq, FinishFlushSeq
<1>7. CASE ~repaired /\ (StartCompaction \/ FinishCompaction \/ LogEdit \/ ApplyEdit)
  BY <1>7, StartCompactionSeq, FinishCompactionSeq, LogEditSeq, ApplyEditSeq
<1>8. CASE ~repaired /\ (FlushFails \/ CompactionFails \/ EditFails \/ NewIterator \/ DeleteIterator)
  BY <1>8, FlushFailsSeq, CompactionFailsSeq, EditFailsSeq, NewIteratorSeq, DeleteIteratorSeq
<1>9. CASE ~repaired /\ (ProcessStops \/ PowerFails)
  BY <1>9, ProcessStopsSeq, PowerFailsSeq
<1>10. CASE UNCHANGED vars
  BY <1>10, StutterSeq
<1>11. QED
  BY <1>1, <1>2, <1>3, <1>4, <1>5, <1>6, <1>7, <1>8, <1>9, <1>10 DEF Next

(* A later write has the higher sequence number, over any number of         *)
(* restarts: what Open recovers, and at whichever end the manifest was cut, *)
(* is in the order of the writes, and the number the next write gets is     *)
(* above all of it.                                                         *)
THEOREM SequenceFollows == ASSUME TRUE \notin Faults PROVE Spec => []SequenceFollowsWrites
<1>1. Init => IInv /\ SeqInv
  BY InitIInv, InitSeq
<1>2. IInv /\ SeqInv /\ [Next]_vars => IInv' /\ SeqInv'
  BY NextIInv, NextSeq
<1>3. ASSUME IInv, SeqInv PROVE SequenceFollowsWrites
  <2>. SUFFICES ASSUME pc = "up", ~repaired PROVE Ordered(Contents)
    BY DEF SequenceFollowsWrites, Ordered
  <2>. DEFINE edits == manifests[current].recs
              n == Len(edits)
  <2>1. UpInv /\ DiskInv /\ UpSeq /\ n \in Nat
    BY <1>3, UpIs DEF SeqInv
  <2>2. n > 0
    BY <2>1 DEF UpInv, DiskInv
  <2>3. n \in Ends(manifests[current])
    BY <2>1, <2>2 DEF Ends
  <2>. HIDE DEF n
  <2>4. Ordered(All(n))
    BY <2>1, <2>3 DEF UpSeq
  <2>5. Contents \subseteq All(n)
    BY DEF Contents, All, Held, TableRecords
  <2>6. QED
    BY <2>4, <2>5, OrderedPart
<1>4. IInv /\ SeqInv => SequenceFollowsWrites
  BY <1>3
<1>5. QED
  BY <1>1, <1>2, <1>4, PTL DEF Spec
=============================================================================
