----------------------------- MODULE VersionSet -----------------------------
(***************************************************************************)
(* What version_set.cc computes on a version, the table files of each      *)
(* level: which files a key or a range meets, where a flush goes, which    *)
(* level is compacted next, with which files, and what the merge keeps.    *)
(*                                                                         *)
(* A file is [number, entries]; its size is the number of its entries, its *)
(* smallest and largest are entries.  A version is a function from levels  *)
(* to sequences of files, in the order of Builder::SaveTo.                 *)
(***************************************************************************)
EXTENDS Integers, Sequences, FiniteSets, SequencesExt, FiniteSetsExt

CONSTANTS
  NumLevels,           (* config::kNumLevels                               *)
  MaxMemCompactLevel,  (* config::kMaxMemCompactLevel                      *)
  L0Trigger,           (* config::kL0_CompactionTrigger                    *)
  TargetFileSize,      (* options.max_file_size                            *)
  Level1Bytes,         (* what level 1 may hold                            *)
  LevelFactor,         (* and how much more each level below               *)
  NoEnd                (* NULL, for the end of a range of user keys        *)

ASSUME LevelsAssumption ==
  NumLevels \in Nat /\ NumLevels >= 2 /\ MaxMemCompactLevel \in 0..(NumLevels - 1)
ASSUME SizesAssumption ==
  /\ L0Trigger \in Nat \ {0} /\ TargetFileSize \in Nat \ {0}
  /\ Level1Bytes \in Nat \ {0} /\ LevelFactor \in Nat \ {0}

Levels == 0..(NumLevels - 1)
MaxBytesForLevel[level \in 1..(NumLevels - 1)] ==
  IF level = 1 THEN Level1Bytes ELSE LevelFactor * MaxBytesForLevel[level - 1]
MaxGrandParentOverlap == 10 * TargetFileSize
ExpandedCompactionLimit == 25 * TargetFileSize

(* InternalKeyComparator: by user key, and the newest first.                *)
Less(a, b) == a.key < b.key \/ (a.key = b.key /\ a.seq > b.seq)

(* The earliest internal key of a user key that is visible at seq.          *)
LookupKey(k, seq) == [key |-> k, seq |-> seq]

(* A set as a sequence in a strict order, by the ranks of its members.      *)
Sorted(S, Before(_, _)) ==
  [i \in 1..Cardinality(S) |-> CHOOSE x \in S : Cardinality({y \in S : Before(y, x)}) = i - 1]

Least(entries) == CHOOSE e \in entries : \A d \in entries : ~Less(d, e)
Most(entries)  == CHOOSE e \in entries : \A d \in entries : ~Less(e, d)
Smallest(f) == Least(f.entries)
Largest(f)  == Most(f.entries)
EntriesOf(files) == UNION {f.entries : f \in ToSet(files)}
TotalFileSize(files) ==
  LET sum[i \in 0..Len(files)] == IF i = 0 THEN 0 ELSE sum[i - 1] + Cardinality(files[i].entries)
  IN  sum[Len(files)]

-----------------------------------------------------------------------------
(* FindFile: the index (from 0) of the first file whose largest key is at   *)
(* or behind key, by binary search.                                         *)
FindFile(files, key) ==
  LET search[range \in (0..Len(files)) \X (0..Len(files))] ==
        LET left == range[1]  right == range[2]  mid == (left + right) \div 2
        IN  IF left >= right THEN right
            ELSE IF Less(Largest(files[mid + 1]), key) THEN search[<<mid + 1, right>>]
            ELSE search[<<left, mid>>]
  IN  search[<<0, Len(files)>>]

AfterFile(k, f)  == k # NoEnd /\ k > Largest(f).key
BeforeFile(k, f) == k # NoEnd /\ k < Smallest(f).key
Overlaps(f, begin, end) == ~AfterFile(begin, f) /\ ~BeforeFile(end, f)

SomeFileOverlapsRange(disjoint, files, begin, end, maxSeq) ==
  IF ~disjoint THEN \E i \in 1..Len(files) : Overlaps(files[i], begin, end)
  ELSE LET i == IF begin = NoEnd THEN 0 ELSE FindFile(files, LookupKey(begin, maxSeq))
       IN  i < Len(files) /\ ~BeforeFile(end, files[i + 1])

(* The user keys from which the files of one level give the range of a      *)
(* compaction: its ends move out as long as a file of level 0 sticks out.   *)
Wider(range, met) ==
  <<IF range[1] = NoEnd THEN NoEnd ELSE Min({range[1]} \union {Smallest(f).key : f \in met}),
    IF range[2] = NoEnd THEN NoEnd ELSE Max({range[2]} \union {Largest(f).key : f \in met})>>

Met(files, range) ==
  LET met[i \in 0..Len(files)] ==
        IF i = 0 THEN << >>
        ELSE IF Overlaps(files[i], range[1], range[2]) THEN Append(met[i - 1], files[i])
        ELSE met[i - 1]
  IN  met[Len(files)]

Widened(files, begin, end) ==
  LET wide[i \in 0..Len(files)] ==
        IF i = 0 THEN <<begin, end>> ELSE Wider(wide[i - 1], ToSet(Met(files, wide[i - 1])))
  IN  wide[Len(files)]

(* Version::GetOverlappingInputs, in the order of the level.                *)
GetOverlappingInputs(version, level, begin, end) ==
  Met(version[level],
      IF level = 0 THEN Widened(version[0], begin, end) ELSE <<begin, end>>)

(* Version::PickLevelForMemTableOutput, for a table from begin to end: the  *)
(* deepest level down to which nothing overlaps it.                         *)
PickLevelForMemTableOutput(version, begin, end, maxSeq) ==
  LET overlap(level) == SomeFileOverlapsRange(level > 0, version[level], begin, end, maxSeq)
      passes(level) ==                   (* from level to the next           *)
        /\ ~overlap(level + 1)
        /\ level + 2 < NumLevels =>
             TotalFileSize(GetOverlappingInputs(version, level + 2, begin, end))
               <= MaxGrandParentOverlap
  IN  IF overlap(0) THEN 0
      ELSE Max({n \in 0..MaxMemCompactLevel : \A l \in 0..(n - 1) : passes(l)})

-----------------------------------------------------------------------------
(* Slip: oldest first.                                                      *)
OldestFirst(f, g) == f.number < g.number

NewestFirst(f, g) == f.number > g.number

(* The files Version::Get may read for user key k at seq, in that order:    *)
(* [level, file].                                                           *)
FilesFor(version, k, seq) ==
  LET met == {f \in ToSet(version[0]) : Smallest(f).key <= k /\ k <= Largest(f).key}
      sorted == Sorted(met, NewestFirst)
      below(level) ==
        LET i == FindFile(version[level], LookupKey(k, seq))
        IN  IF i < Len(version[level]) /\ Smallest(version[level][i + 1]).key <= k
              THEN <<[level |-> level, file |-> version[level][i + 1]]>>
              ELSE << >>
      found[level \in Levels] ==
        IF level = 0 THEN [i \in 1..Len(sorted) |-> [level |-> 0, file |-> sorted[i]]]
        ELSE found[level - 1] \o below(level)
  IN  found[NumLevels - 1]

(* The entry a table gives for k at seq: a seek to the first entry at or    *)
(* behind the lookup key, if it is of that user key.                        *)
Visible(entries, k, seq) == {e \in entries : e.key = k /\ e.seq <= seq}

(* The files that are read: up to the first that knows the key.             *)
ReadUpTo(files, k, seq) ==
  LET hits == {i \in 1..Len(files) : Visible(files[i].file.entries, k, seq) # {}}
  IN  SubSeq(files, 1, IF hits = {} THEN Len(files) ELSE Min(hits))

Reads(version, k, seq) ==
  ReadUpTo(FilesFor(version, k, seq), k, seq)

FirstOf(entries) == IF entries = {} THEN {} ELSE {Least(entries)}

(* Version::Get: the entry found, or none.                                  *)
GetFrom(version, k, seq) ==
  FirstOf(UNION {Visible(Last(reads).file.entries, k, seq) :
                   reads \in {Reads(version, k, seq)} \ {<< >>}})

-----------------------------------------------------------------------------
BySmallestKey(f, g) ==
  \/ Less(Smallest(f), Smallest(g))
  \/ Smallest(f) = Smallest(g) /\ f.number < g.number

(* Builder::Apply and SaveTo: an edit deletes and adds pairs of a level and *)
(* a file.                                                                  *)
Applied(version, deleted, added) ==
  [level \in Levels |->
     Sorted({f \in ToSet(version[level]) : <<level, f>> \notin deleted}
                    \union {a[2] : a \in {b \in added : b[1] = level}},
                  BySmallestKey)]

(* VersionSet::Finalize: the level with the highest score, the first of     *)
(* them, and its score as a fraction.                                       *)
Score(version, level) ==
  IF level = 0 THEN <<Len(version[0]), L0Trigger>>
  ELSE <<TotalFileSize(version[level]), MaxBytesForLevel[level]>>

CompactionLevel(version) ==
  LET higher(l, m) == Score(version, l)[1] * Score(version, m)[2]
                        > Score(version, m)[1] * Score(version, l)[2]
  IN  CHOOSE l \in 0..(NumLevels - 2) : \A m \in 0..(NumLevels - 2) :
        ~higher(m, l) /\ (m < l => higher(l, m))

SizeCompaction(version) ==
  LET score == Score(version, CompactionLevel(version)) IN score[1] >= score[2]

-----------------------------------------------------------------------------
(* GetRange and GetRange2, and what a level has in the range of some files. *)
InRangeOf(version, level, entries) ==
  GetOverlappingInputs(version, level, Least(entries).key, Most(entries).key)

(* The compaction of inputs of a level and of the next.                     *)
CompactionOf(version, level, inputs0, inputs1) ==
  [level |-> level, inputs |-> <<inputs0, inputs1>>,
   grandparents |-> IF level + 2 < NumLevels
                      THEN InRangeOf(version, level + 2, EntriesOf(inputs0 \o inputs1))
                      ELSE << >>,
   pointer |-> Most(EntriesOf(inputs0))]              (* compact_pointer_   *)

(* More files of the level are taken if that adds none of the next.         *)
Grown(version, level, inputs0, inputs1, expanded0, expanded1) ==
  IF /\ inputs1 # << >>
     /\ Len(expanded0) > Len(inputs0)
     /\ TotalFileSize(inputs1 \o expanded0) < ExpandedCompactionLimit
     /\ Len(expanded1) = Len(inputs1)
    THEN CompactionOf(version, level, expanded0, expanded1)
    ELSE CompactionOf(version, level, inputs0, inputs1)

GrownTo(version, level, inputs0, inputs1, expanded0) ==
  Grown(version, level, inputs0, inputs1, expanded0,
        InRangeOf(version, level + 1, EntriesOf(expanded0)))

WithNextLevel(version, level, inputs0, inputs1) ==
  GrownTo(version, level, inputs0, inputs1,
          InRangeOf(version, level, EntriesOf(inputs0 \o inputs1)))

(* VersionSet::SetupOtherInputs: the files of the next level, more files of *)
(* this one if that adds none below, and the files below both.              *)
SetupOtherInputs(version, level, inputs0) ==
  WithNextLevel(version, level, inputs0, InRangeOf(version, level + 1, EntriesOf(inputs0)))

(* Slip: overlapping files of level 0 stay behind.                          *)
PickedAlone(version, level, file) == SetupOtherInputs(version, level, <<file>>)

(* The end of PickCompaction, for the first file picked.                    *)
Picked(version, level, file) ==
  SetupOtherInputs(version, level,
    IF level = 0
      THEN GetOverlappingInputs(version, 0, Smallest(file).key, Largest(file).key)
      ELSE <<file>>)

(* PickCompaction by size: the first file behind the compaction pointer of  *)
(* the level, a set of at most one entry, or else the first of all.         *)
PickedBySize(version, pointers) ==
  LET level == CompactionLevel(version)
      files == version[level]
      later == {i \in 1..Len(files) : \A p \in pointers[level] : Less(p, Largest(files[i]))}
  IN  Picked(version, level, files[IF later = {} THEN 1 ELSE Min(later)])

(* VersionSet::CompactRange on a range that meets files: below level 0 not  *)
(* more than one file's size of them.                                       *)
PickedInRange(version, level, begin, end) ==
  LET met == GetOverlappingInputs(version, level, begin, end)
      enough == {i \in 1..Len(met) : TotalFileSize(SubSeq(met, 1, i)) >= TargetFileSize}
  IN  SetupOtherInputs(version, level,
        IF level = 0 \/ enough = {} THEN met ELSE SubSeq(met, 1, Min(enough)))

(* Compaction::IsTrivialMove                                                *)
IsTrivialMove(c) ==
  /\ Len(c.inputs[1]) = 1 /\ c.inputs[2] = << >>
  /\ TotalFileSize(c.grandparents) <= MaxGrandParentOverlap

(* Slip: only the files of the upper level are deleted.                     *)
DeletionsOfLevel(c) == {<<c.level, f>> : f \in ToSet(c.inputs[1])}

(* Compaction::AddInputDeletions                                            *)
InputDeletions(c) ==
  {<<c.level, f>> : f \in ToSet(c.inputs[1])}
    \union {<<c.level + 1, f>> : f \in ToSet(c.inputs[2])}

(* Compaction::IsBaseLevelForKey: no file of a level below the compaction   *)
(* has k in its range.                                                      *)
IsBaseLevelForKey(version, c, k) ==
  \A level \in (c.level + 2)..(NumLevels - 1) :
    \A f \in ToSet(version[level]) : ~Overlaps(f, k, k)

-----------------------------------------------------------------------------
(* Compaction::ShouldStopBefore, on s: [index, seen, overlapped, stop].     *)
(* passed is the number of grandparents that end before the entry.          *)
StopAfter(c, s, passed) ==
  LET sum == s.overlapped +
             IF s.seen THEN TotalFileSize(SubSeq(c.grandparents, s.index + 1, s.index + passed))
             ELSE 0
  IN  [index |-> s.index + passed, seen |-> TRUE,
       overlapped |-> IF sum > MaxGrandParentOverlap THEN 0 ELSE sum,
       stop |-> sum > MaxGrandParentOverlap]

ShouldStopBefore(c, s, e) ==
  StopAfter(c, s, Cardinality({i \in (s.index + 1)..Len(c.grandparents) :
                    \A j \in (s.index + 1)..i : Less(Largest(c.grandparents[j]), e)}))

(* Slip: one sequence number too many is thought hidden.                    *)
DropsAtSnapshot(version, c, smallestSnapshot, newer, e) ==
  \/ \E n \in newer : n.seq <= smallestSnapshot + 1
  \/ e.del /\ e.seq <= smallestSnapshot /\ IsBaseLevelForKey(version, c, e.key)

(* The drop rules of DoCompactionWork; newer is the entry of the same user  *)
(* key just before e, if there is one.                                      *)
Drops(version, c, smallestSnapshot, newer, e) ==
  \/ \E n \in newer : n.seq <= smallestSnapshot                         (* (A) *)
  \/ e.del /\ e.seq <= smallestSnapshot /\ IsBaseLevelForKey(version, c, e.key)

(* The outputs of the loop so far, w: [outs, out, last, stop], of which out *)
(* is not finished yet.                                                     *)
Finished(w) ==
  IF w.out = {} THEN w ELSE [w EXCEPT !.outs = Append(@, w.out), !.out = {}]

FinishedIf(full, w) == IF full THEN Finished(w) ELSE w

Added(w, e) == FinishedIf(Cardinality(w.out) + 1 >= TargetFileSize,
                          [w EXCEPT !.out = @ \union {e}])

MergeEntry(version, c, smallestSnapshot, w, e) ==
  [(IF Drops(version, c, smallestSnapshot, {n \in w.last : n.key = e.key}, e)
      THEN w ELSE Added(w, e)) EXCEPT !.last = {e}]

MergeBehind(version, c, smallestSnapshot, w, e, stop) ==
  MergeEntry(version, c, smallestSnapshot,
             [FinishedIf(stop.stop, w) EXCEPT !.stop = stop], e)

(* VersionSet::MakeInputIterator: the entries of all inputs, in order.      *)
MakeInputIterator(c) == Sorted(EntriesOf(c.inputs[1] \o c.inputs[2]), Less)

(* The loop of DoCompactionWork: the entries of the outputs, in order.      *)
Outputs(version, c, smallestSnapshot) ==
  LET input == MakeInputIterator(c)
      work[i \in 0..Len(input)] ==
        IF i = 0 THEN [outs |-> << >>, out |-> {}, last |-> {},
                       stop |-> [index |-> 0, seen |-> FALSE, overlapped |-> 0, stop |-> FALSE]]
        ELSE MergeBehind(version, c, smallestSnapshot, work[i - 1], input[i],
                         ShouldStopBefore(c, work[i - 1].stop, input[i]))
  IN  Finished(work[Len(input)]).outs
=============================================================================
