----------------------------- MODULE Iterators -----------------------------
(***************************************************************************)
(* leveldb: reading a database that does not change.  First the iterators  *)
(* under a database iterator (table/block.cc, table/two_level_iterator.cc, *)
(* table/table.cc, table/merger.cc, db/memtable.cc, db/version_set.cc), as *)
(* functions from an iterator to the iterator after the call; then the     *)
(* iterator over memtable and tables (db/db_iter.cc, db/db_impl.cc), reads *)
(* by key from a table, and the sizes of ranges (db/version_set.cc).       *)
(*                                                                         *)
(* kind tells the class.  A block is read where an index entry says; a     *)
(* block of a damaged file may not be readable, or have an entry that      *)
(* shares more than there is.  The value of an entry is known by its tag.  *)
(* Which entries of a table are sampled for compaction is left to LsmTree. *)
(***************************************************************************)
EXTENDS SortedTable

VARIABLES
  memtable,        (* its internal keys, in order                          *)
  files,           (* file number -> its table                             *)
  levels,          (* the version: files at level 0, and those of level 1  *)
  damage           (* [file, block, entry] that is bad, entry 0: unreadable *)

stores == <<memtable, files, levels, damage>>

Damaged(f, b) == damage.file = f /\ damage.block = b
BadEntry(of, n) == Damaged(of[1], of[2]) /\ damage.entry = n

(* Block 0 of a file is its index.                                          *)
BlockAt(of) == IF of[2] = 0 THEN files[of[1]].index ELSE files[of[1]].blocks[of[2]].block
EntriesOf(it) == BlockAt(it.of).entries
RestartsOf(it) == BlockAt(it.of).restarts

-----------------------------------------------------------------------------
(* NewErrorIterator and NewEmptyIterator.                                   *)
EmptyIterator(ok) == [kind |-> "empty", ok |-> ok]

(* Block::Iter.  next is NextEntryOffset, ok its status.                    *)
BlockIter(of) == [kind |-> "block", of |-> of, at |-> 0, next |-> 0, restart |-> 0, key |-> << >>, ok |-> TRUE]
Invalidated(it) == [it EXCEPT !.at = 0, !.restart = 0, !.key = << >>, !.next = 0]
CorruptionError(it) == [Invalidated(it) EXCEPT !.ok = FALSE]

SeekToRestartPoint(it, r) == [it EXCEPT !.key = << >>, !.restart = r, !.next = RestartsOf(it)[r]]

ParseNextKey(it) ==
  IF it.next > Len(EntriesOf(it)) THEN Invalidated(it)
  ELSE LET entry == EntriesOf(it)[it.next] IN
    IF BadEntry(it.of, it.next) \/ entry.shared > Len(it.key) THEN CorruptionError(it)
    ELSE [it EXCEPT !.at = it.next, !.next = it.next + 1,
                    !.key = SubSeq(it.key, 1, entry.shared) \o entry.rest,
                    !.restart = Max({it.restart} \union {r \in DOMAIN RestartsOf(it) : RestartsOf(it)[r] < it.next})]

(* The scans of Prev and SeekToLast stop when the next entry is stop, that  *)
(* of Seek at the first key that is not below target.                       *)
RECURSIVE ScanUpTo(_, _), ScanForKey(_, _)
ScannedUpTo(it, stop) == IF it.at = 0 \/ it.next >= stop THEN it ELSE ScanUpTo(it, stop)
ScanUpTo(it, stop) == ScannedUpTo(ParseNextKey(it), stop)
ScannedForKey(it, target) == IF it.at = 0 \/ ~Less(it.key, target) THEN it ELSE ScanForKey(it, target)
ScanForKey(it, target) == ScannedForKey(ParseNextKey(it), target)

(* The restart point to scan from, or 0 when its entry does not decode.     *)
RECURSIVE Bisect(_, _, _, _)
BisectAt(it, left, right, mid, entry, target) ==
  IF BadEntry(it.of, RestartsOf(it)[mid]) \/ entry.shared # 0 THEN 0
  ELSE IF Less(entry.rest, target) THEN Bisect(it, mid, right, target) ELSE Bisect(it, left, mid - 1, target)
Bisect(it, left, right, target) ==
  IF left >= right THEN left
  ELSE LET mid == (left + right + 1) \div 2
       IN  BisectAt(it, left, right, mid, EntriesOf(it)[RestartsOf(it)[mid]], target)

SeekFrom(it, r, target) == IF r = 0 THEN CorruptionError(it) ELSE ScanForKey(SeekToRestartPoint(it, r), target)
BlockSeek(it, target) == SeekFrom(it, Bisect(it, 1, Len(RestartsOf(it)), target), target)
BlockFirst(it) == ParseNextKey(SeekToRestartPoint(it, 1))
BlockLast(it) == ScanUpTo(SeekToRestartPoint(it, Len(RestartsOf(it))), Len(EntriesOf(it)) + 1)
BlockPrev(it) ==
  LET earlier == {r \in 1..it.restart : RestartsOf(it)[r] < it.at}
  IN  IF earlier = {} THEN Invalidated(it) ELSE ScanUpTo(SeekToRestartPoint(it, Max(earlier)), it.at)

-----------------------------------------------------------------------------
(* MemTableIterator and LevelFileNumIterator stand in a sorted sequence; at *)
(* is 0 when they are not valid.                                            *)
MemIter == [kind |-> "mem", at |-> 0, ok |-> TRUE]
LevelFileNumIterator(level) == [kind |-> "level", level |-> level, at |-> 0, ok |-> TRUE]
KeysOf(it) ==
  IF it.kind = "mem" THEN memtable
  ELSE [i \in DOMAIN levels[it.level] |-> files[levels[it.level][i]].largest]
FirstNotBelow(keys, target) ==
  LET found == {i \in DOMAIN keys : ~Less(keys[i], target)} IN IF found = {} THEN 0 ELSE Min(found)
SequenceSeek(it, target) == [it EXCEPT !.at = FirstNotBelow(KeysOf(it), target)]
SequenceFirst(it) == [it EXCEPT !.at = IF KeysOf(it) = << >> THEN 0 ELSE 1]
SequenceLast(it) == [it EXCEPT !.at = Len(KeysOf(it))]
SequenceNext(it) == [it EXCEPT !.at = (@ + 1) % (Len(KeysOf(it)) + 1)]
SequencePrev(it) == [it EXCEPT !.at = @ - 1]

(* ReadBlock and BlockReader; TableCache::NewIterator and GetFileIterator.  *)
BlockReader(f, b) == IF Damaged(f, b) /\ damage.entry = 0 THEN EmptyIterator(FALSE) ELSE BlockIter(<<f, b>>)
TwoLevel(index, file) ==
  [kind |-> "two", index |-> index, file |-> file, data |-> EmptyIterator(TRUE), handle |-> 0, ok |-> TRUE]
TableIterator(f) == IF Damaged(f, 0) /\ damage.entry = 0 THEN EmptyIterator(FALSE) ELSE TwoLevel(BlockIter(<<f, 0>>), f)
ConcatenatingIterator(level) == TwoLevel(LevelFileNumIterator(level), 0)

(* What an index entry stands for: a block of a file, or a file of a level. *)
HandleOf(it) == IF it.kind = "block" THEN EntriesOf(it)[it.at].value ELSE levels[it.level][it.at]
BlockFunction(it, handle) == IF it.file = 0 THEN TableIterator(handle) ELSE BlockReader(it.file, handle)

-----------------------------------------------------------------------------
RECURSIVE Seek(_, _), SeekToFirst(_), SeekToLast(_), Next(_), Prev(_), Valid(_), Key(_), Ok(_)

Valid(it) ==
  CASE it.kind = "empty" -> FALSE
    [] it.kind \in {"block", "mem", "level"} -> it.at # 0
    [] it.kind = "two" -> Valid(it.data)
    [] it.kind = "merge" -> it.current # 0

Key(it) ==
  CASE it.kind = "block" -> it.key
    [] it.kind \in {"mem", "level"} -> KeysOf(it)[it.at]
    [] it.kind = "two" -> Key(it.data)
    [] it.kind = "merge" -> Key(it.children[it.current])

(* status().                                                                *)
Ok(it) ==
  CASE it.kind \in {"empty", "block", "mem", "level"} -> it.ok
    [] it.kind = "two" -> Ok(it.index) /\ Ok(it.data) /\ it.ok
    [] it.kind = "merge" -> \A i \in DOMAIN it.children : Ok(it.children[i])

(* TwoLevelIterator.  No data iterator is an empty one without an error.    *)
NoData == EmptyIterator(TRUE)
SetDataIterator(it, data) == [it EXCEPT !.ok = @ /\ Ok(it.data), !.data = data]
InitDataBlock(it) ==
  IF ~Valid(it.index) THEN SetDataIterator(it, NoData)
  ELSE IF it.data # NoData /\ HandleOf(it.index) = it.handle THEN it
  ELSE [SetDataIterator(it, BlockFunction(it, HandleOf(it.index))) EXCEPT !.handle = HandleOf(it.index)]

RECURSIVE SkipEmptyDataBlocksForward(_), SkipEmptyDataBlocksBackward(_)
AtItsFirst(it) == [it EXCEPT !.data = SeekToFirst(@)]
AtItsLast(it) == [it EXCEPT !.data = SeekToLast(@)]
SkipEmptyDataBlocksForward(it) ==
  IF Valid(it.data) THEN it
  ELSE IF ~Valid(it.index) THEN SetDataIterator(it, NoData)
  ELSE SkipEmptyDataBlocksForward(AtItsFirst(InitDataBlock([it EXCEPT !.index = Next(@)])))
SkipEmptyDataBlocksBackward(it) ==
  IF Valid(it.data) THEN it
  ELSE IF ~Valid(it.index) THEN SetDataIterator(it, NoData)
  ELSE SkipEmptyDataBlocksBackward(AtItsLast(InitDataBlock([it EXCEPT !.index = Prev(@)])))

AtTarget(it, target) == [it EXCEPT !.data = Seek(@, target)]
TwoLevelSeek(it, target) ==
  SkipEmptyDataBlocksForward(AtTarget(InitDataBlock([it EXCEPT !.index = Seek(@, target)]), target))
TwoLevelFirst(it) == SkipEmptyDataBlocksForward(AtItsFirst(InitDataBlock([it EXCEPT !.index = SeekToFirst(@)])))
TwoLevelLast(it) == SkipEmptyDataBlocksBackward(AtItsLast(InitDataBlock([it EXCEPT !.index = SeekToLast(@)])))
TwoLevelNext(it) == SkipEmptyDataBlocksForward([it EXCEPT !.data = Next(@)])
TwoLevelPrev(it) == SkipEmptyDataBlocksBackward([it EXCEPT !.data = Prev(@)])

-----------------------------------------------------------------------------
(* MergingIterator.                                                         *)
MergingIterator(children) ==
  IF Len(children) = 1 THEN children[1]
  ELSE [kind |-> "merge", children |-> children, current |-> 0, forward |-> TRUE]

ValidChildren(it) == {i \in DOMAIN it.children : Valid(it.children[i])}
FindSmallest(it) ==
  LET valid == ValidChildren(it)
      least == {i \in valid : \A j \in valid : ~Less(Key(it.children[j]), Key(it.children[i]))}
  IN  [it EXCEPT !.current = IF valid = {} THEN 0 ELSE Min(least), !.forward = TRUE]
FindLargest(it) ==
  LET valid == ValidChildren(it)
      most == {i \in valid : \A j \in valid : ~Less(Key(it.children[i]), Key(it.children[j]))}
  IN  [it EXCEPT !.current = IF valid = {} THEN 0 ELSE Max(most), !.forward = FALSE]

(* The turn: the children that are not current go to the right side of key. *)
PastKey(child, key) == IF Valid(child) /\ Key(child) = key THEN Next(child) ELSE child
(* Slip: a child with nothing at or after the key is left out.              *)
PrevIfValid(child) == IF Valid(child) THEN Prev(child) ELSE child
ShortOfKey(child) == IF Valid(child) THEN Prev(child) ELSE SeekToLast(child)
TurnForward(it) ==
  IF it.forward THEN it
  ELSE [it EXCEPT !.children = [i \in DOMAIN it.children |->
         IF i = it.current THEN it.children[i] ELSE PastKey(Seek(it.children[i], Key(it)), Key(it))]]
TurnBack(it) ==
  IF ~it.forward THEN it
  ELSE [it EXCEPT !.children = [i \in DOMAIN it.children |->
         IF i = it.current THEN it.children[i] ELSE ShortOfKey(Seek(it.children[i], Key(it)))]]

Children(it, Call(_)) == [it EXCEPT !.children = [i \in DOMAIN it.children |-> Call(it.children[i])]]
MergingSeek(it, target) == FindSmallest(Children(it, LAMBDA child : Seek(child, target)))
MergingFirst(it) == FindSmallest(Children(it, SeekToFirst))
MergingLast(it) == FindLargest(Children(it, SeekToLast))
MergingNext(it) == FindSmallest([TurnForward(it) EXCEPT !.children[it.current] = Next(@)])
MergingPrev(it) == FindLargest([TurnBack(it) EXCEPT !.children[it.current] = Prev(@)])

-----------------------------------------------------------------------------
(* The virtual calls.                                                       *)
Seek(it, target) ==
  CASE it.kind = "empty" -> it
    [] it.kind = "block" -> BlockSeek(it, target)
    [] it.kind \in {"mem", "level"} -> SequenceSeek(it, target)
    [] it.kind = "two" -> TwoLevelSeek(it, target)
    [] it.kind = "merge" -> MergingSeek(it, target)

SeekToFirst(it) ==
  CASE it.kind = "empty" -> it
    [] it.kind = "block" -> BlockFirst(it)
    [] it.kind \in {"mem", "level"} -> SequenceFirst(it)
    [] it.kind = "two" -> TwoLevelFirst(it)
    [] it.kind = "merge" -> MergingFirst(it)

SeekToLast(it) ==
  CASE it.kind = "empty" -> it
    [] it.kind = "block" -> BlockLast(it)
    [] it.kind \in {"mem", "level"} -> SequenceLast(it)
    [] it.kind = "two" -> TwoLevelLast(it)
    [] it.kind = "merge" -> MergingLast(it)

Next(it) ==
  CASE it.kind = "block" -> ParseNextKey(it)
    [] it.kind \in {"mem", "level"} -> SequenceNext(it)
    [] it.kind = "two" -> TwoLevelNext(it)
    [] it.kind = "merge" -> MergingNext(it)

Prev(it) ==
  CASE it.kind = "block" -> BlockPrev(it)
    [] it.kind \in {"mem", "level"} -> SequencePrev(it)
    [] it.kind = "two" -> TwoLevelPrev(it)
    [] it.kind = "merge" -> MergingPrev(it)

-----------------------------------------------------------------------------
(* The database iterator, and lookups.                                      *)
CONSTANTS
  Stores,          (* [mem, files, levels, sequence]: sets of keys, layout *)
  DamagesOf(_),    (* what may be wrong with the files of a store          *)
  Targets          (* user keys that are asked for                         *)

VARIABLES
  sequence,        (* the snapshot that is read                            *)
  db,              (* the DBIter: [iter, valid, forward, key, value, ok]   *)
  expected,        (* the user key the iterator should be at, or None      *)
  found,           (* last InternalGet: [file, key, ok, entry]             *)
  offsets          (* last GetApproximateSizes: <<from, to, start, limit, size>> *)

vars == <<stores, sequence, db, expected, found, offsets>>

None == <<-1>>
NotAsked == [ok |-> FALSE]
Undamaged == [file |-> 0, block |-> 0, entry |-> 0]
kValueTypeForSeek == kTypeValue

Sorted(keys) ==
  [i \in 1..Cardinality(keys) |-> CHOOSE k \in keys : Cardinality({j \in keys : Less(j, k)}) = i - 1]

(* BuildTable, and the file's place in the version.  There is none of no    *)
(* keys; what it cannot write stays in memory.                              *)
FileOf(keys, table) ==
  IF table.ok THEN table @@ [smallest |-> keys[1], largest |-> Last(keys), holds |-> Range(keys)] ELSE table
BuildTable(keys) == IF keys = << >> THEN [ok |-> FALSE] ELSE FileOf(keys, TableOf(keys))
Built(level) == SelectSeq(level, LAMBDA f : files[f].ok)

(* NewInternalIterator and AddIterators.                                    *)
NewInternalIterator ==
  MergingIterator(<<MemIter>> \o [i \in DOMAIN levels[1] |-> TableIterator(levels[1][i])]
                  \o IF levels[2] = << >> THEN << >> ELSE <<ConcatenatingIterator(2)>>)
NewDBIterator ==
  [iter |-> NewInternalIterator, valid |-> FALSE, forward |-> TRUE, key |-> << >>, value |-> 0, ok |-> TRUE]

Init ==
  \E store \in Stores :
    /\ files = [f \in DOMAIN store.files |-> BuildTable(Sorted(store.files[f]))]
    /\ levels = [l \in 1..2 |-> Built(store.levels[l])]
    /\ memtable = Sorted(store.mem \union UNION {store.files[f] : f \in {f \in DOMAIN files : ~files[f].ok}})
    /\ damage \in DamagesOf(store)
    /\ sequence = store.sequence
    /\ db = NewDBIterator
    /\ expected = None
    /\ found = NotAsked
    /\ offsets = << >>

-----------------------------------------------------------------------------
(* DBIter.  ParseKey fails for an entry of no known type.                   *)
Parses(d) == TypeOf(Key(d.iter)) \in {kTypeValue, kTypeDeletion}
Counts(d) == Parses(d) /\ SequenceOf(Key(d.iter)) <= sequence
ParseKey(d) == [d EXCEPT !.ok = @ /\ Parses(d)]
NotValid(d) == [d EXCEPT !.valid = FALSE, !.key = << >>]
Dropped(d) == [NotValid(d) EXCEPT !.value = 0]

RECURSIVE FindNextUserEntry(_, _, _), FindPrevUserEntry(_, _)
NextUserEntry(d, skipping, skip) ==
  IF Valid(d.iter) THEN FindNextUserEntry(d, skipping, skip) ELSE NotValid(d)
FindNextUserEntry(d, skipping, skip) ==
  LET user == UserKey(Key(d.iter))
      deleted == Counts(d) /\ TypeOf(Key(d.iter)) = kTypeDeletion
      hidden == skipping /\ ~Below(skip, user)
  IN  IF Counts(d) /\ ~deleted /\ ~hidden
      THEN [ParseKey(d) EXCEPT !.valid = TRUE, !.key = << >>]
      ELSE NextUserEntry([ParseKey(d) EXCEPT !.iter = Next(@)], skipping \/ deleted,
                         IF deleted THEN user ELSE skip)

(* The last argument is value_type.                                         *)
Found(d, type) ==
  IF type = kTypeDeletion THEN [Dropped(d) EXCEPT !.forward = TRUE] ELSE [d EXCEPT !.valid = TRUE]
Kept(d) ==
  IF TypeOf(Key(d.iter)) = kTypeDeletion THEN [d EXCEPT !.key = << >>, !.value = 0]
  ELSE [d EXCEPT !.key = UserKey(Key(d.iter)), !.value = Last(Key(d.iter))]
StepBack(d) == [d EXCEPT !.iter = Prev(@)]
FindPrevUserEntry(d, type) ==
  IF ~Valid(d.iter) THEN Found(d, type)
  ELSE IF ~Counts(d) THEN FindPrevUserEntry(StepBack(ParseKey(d)), type)
  ELSE IF type # kTypeDeletion /\ Below(UserKey(Key(d.iter)), d.key) THEN Found(d, type)
  ELSE FindPrevUserEntry(StepBack(Kept(d)), TypeOf(Key(d.iter)))

Forward(d, iter) == [d EXCEPT !.forward = TRUE, !.iter = iter]
SeekEntry(d) == IF Valid(d.iter) THEN FindNextUserEntry(d, FALSE, << >>) ELSE [d EXCEPT !.valid = FALSE]
DBSeek(d, target) == SeekEntry(Forward([d EXCEPT !.key = << >>, !.value = 0],
                                       Seek(d.iter, Append(target, Tag(sequence, kValueTypeForSeek)))))
DBSeekToFirst(d) == SeekEntry(Forward([d EXCEPT !.value = 0], SeekToFirst(d.iter)))
DBSeekToLast(d) ==
  FindPrevUserEntry([d EXCEPT !.forward = FALSE, !.value = 0, !.iter = SeekToLast(@)], kTypeDeletion)

DBNext(d) ==
  IF d.forward THEN FindNextUserEntry(d, TRUE, UserKey(Key(d.iter)))
  ELSE NextUserEntry(Forward(d, IF Valid(d.iter) THEN Next(d.iter) ELSE SeekToFirst(d.iter)), TRUE, d.key)

(* The turn goes back to the entries of an earlier user key.                *)
RECURSIVE BackPast(_, _)
BeforeKey(d, user) ==
  IF ~Valid(d.iter) THEN Dropped(d)
  ELSE IF Below(UserKey(Key(d.iter)), user) THEN FindPrevUserEntry([d EXCEPT !.forward = FALSE, !.key = user], kTypeDeletion)
  ELSE BackPast(d, user)
BackPast(d, user) == BeforeKey(StepBack(d), user)
DBPrev(d) == IF d.forward THEN BackPast(d, UserKey(Key(d.iter))) ELSE FindPrevUserEntry(d, kTypeDeletion)

DBKey(d) == IF d.forward THEN UserKey(Key(d.iter)) ELSE d.key
DBValue(d) == IF d.forward THEN Last(Key(d.iter)) ELSE d.value
DBOk(d) == d.ok /\ Ok(d.iter)

-----------------------------------------------------------------------------
(* What the store holds, for the properties: the entries of the memtable    *)
(* and of the files of the version, and the newest one a user key shows.    *)
AllKeys ==
  Range(memtable) \union UNION {files[f].holds : f \in Range(levels[1]) \union Range(levels[2])}
Shown(user) ==
  LET seen == {k \in AllKeys : UserKey(k) = user /\ SequenceOf(k) <= sequence /\ TypeOf(k) \in {0, 1}}
  IN  IF seen = {} THEN 0 ELSE Max({Last(k) : k \in seen})
Visible == {u \in {UserKey(k) : k \in AllKeys} : Shown(u) # 0 /\ Shown(u) % 8 = kTypeValue}
Least(users) == IF users = {} THEN None ELSE CHOOSE u \in users : \A v \in users : ~Below(v, u)
Greatest(users) == IF users = {} THEN None ELSE CHOOSE u \in users : \A v \in users : ~Below(u, v)

(* A client walks over the database, or asks once by key or for a size: it  *)
(* is all the same to the others.                                           *)
Asked == found # NotAsked \/ offsets # << >>
Moves(d, user) == db' = d /\ expected' = user /\ UNCHANGED <<stores, sequence, found, offsets>>

SeekTo(target) == ~Asked /\ Moves(DBSeek(db, target), Least({u \in Visible : ~Below(u, target)}))
SeekFirst == ~Asked /\ Moves(DBSeekToFirst(db), Least(Visible))
SeekLast == ~Asked /\ Moves(DBSeekToLast(db), Greatest(Visible))
StepNext == db.valid /\ Moves(DBNext(db), Least({u \in Visible : Below(expected, u)}))
StepPrev == db.valid /\ Moves(DBPrev(db), Greatest({u \in Visible : Below(u, expected)}))

-----------------------------------------------------------------------------
(* Table::InternalGet: the entry it hands to the saver, or none.            *)
BlockGet(it, key) == [ok |-> Ok(it), entry |-> IF Valid(it) THEN Key(it) ELSE None]
GetAt(f, iiter, key) ==
  IF ~Valid(iiter) THEN [ok |-> Ok(iiter), entry |-> None]
  ELSE IF ~KeyMayMatch(files[f].filters, files[f].blocks[HandleOf(iiter)].offset, key)
  THEN [ok |-> Ok(iiter), entry |-> None]
  ELSE BlockGet(Seek(BlockReader(f, HandleOf(iiter)), key), key)
InternalGet(f, key) ==
  IF TableIterator(f).kind = "empty" THEN [ok |-> FALSE, entry |-> None]
  ELSE GetAt(f, Seek(BlockIter(<<f, 0>>), key), key)

Unused == db = NewDBIterator
Get(f, user) ==
  /\ Unused /\ ~Asked
  /\ files[f].ok
  /\ \E key \in {Append(user, Tag(sequence, kValueTypeForSeek))} :
       found' = InternalGet(f, key) @@ [file |-> f, key |-> key]
  /\ UNCHANGED <<stores, sequence, db, expected, offsets>>

(* ApproximateOffsetOf of a table and of a version; GetApproximateSizes.    *)
OffsetIn(f, iiter) ==
  IF Valid(iiter) THEN files[f].blocks[HandleOf(iiter)].offset ELSE files[f].metaindex
ApproximateOffsetOf(f, key) ==
  CASE ~Less(key, files[f].largest) -> files[f].size
    [] Less(key, files[f].smallest) -> 0
    [] OTHER -> IF TableIterator(f).kind = "empty" THEN 0 ELSE OffsetIn(f, Seek(BlockIter(<<f, 0>>), key))
OffsetOf(key) == MapThenSumSet(LAMBDA f : ApproximateOffsetOf(f, key), Range(levels[1]) \union Range(levels[2]))

GetApproximateSizes(from, to) ==
  /\ Unused /\ ~Asked
  /\ \E start \in {OffsetOf(Append(from, MaxTag))}, limit \in {OffsetOf(Append(to, MaxTag))} :
       offsets' = <<from, to, start, limit, IF limit >= start THEN limit - start ELSE 0>>
  /\ UNCHANGED <<stores, sequence, db, expected, found>>

Step ==
  \/ \E target \in Targets : SeekTo(target)
  \/ SeekFirst \/ SeekLast \/ StepNext \/ StepPrev
  \/ \E f \in DOMAIN files, target \in Targets : Get(f, target)
  \/ \E from, to \in Targets : GetApproximateSizes(from, to)

Spec == Init /\ [][Step]_vars

-----------------------------------------------------------------------------
(* The database iterator is where a walk over the visible entries would be, *)
(* with the newest value a snapshot shows, after any turns of direction     *)
(* over any layout of the entries, or its status says that it may not be:   *)
(* no block that cannot be read and no bad entry is passed over in silence. *)
IteratorIsRightOrTells ==
  ~DBOk(db) \/ Unused \/ IF expected = None THEN ~db.valid
                        ELSE db.valid /\ DBKey(db) = expected /\ DBValue(db) = Shown(expected)

(* A lookup in a table gives the entry a saver has to see, which is the     *)
(* first of that user key that the snapshot shows: neither the index nor    *)
(* the filter of a block hides it.  Offsets rise with the keys, so that the *)
(* sizes of ranges are not cut to 0.                                        *)
Sought == {k \in files[found.file].holds : ~Less(k, found.key) /\ UserKey(k) = UserKey(found.key)}
LookupIsRightOrTells ==
  /\ found.ok => IF Sought = {} THEN found.entry = None \/ UserKey(found.entry) # UserKey(found.key)
                 ELSE found.entry \in Sought /\ \A k \in Sought : ~Less(k, found.entry)
  /\ offsets # << >> /\ damage = Undamaged /\ ~Below(offsets[2], offsets[1]) => offsets[3] <= offsets[4]
=============================================================================
