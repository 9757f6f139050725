---------------------------- MODULE SortedTable ----------------------------
(***************************************************************************)
(* leveldb: what a table file is made of (util/comparator.cc,              *)
(* db/dbformat.cc, table/block_builder.cc, table/table_builder.cc,         *)
(* table/filter_block.cc, util/bloom.cc).                                  *)
(*                                                                         *)
(* An internal key is its bytes, the tag (8 * sequence number + type) as a *)
(* last one of them.  Sizes are numbers of bytes, a count or an offset     *)
(* taking one.  A table that is built is a record of blocks; a block is    *)
(* its entries [shared, rest, value] and its restart points.               *)
(***************************************************************************)
EXTENDS Integers, Sequences, SequencesExt, FiniteSetsExt

CONSTANTS
  TopByte,         (* 0xff                                                 *)
  BlockSize, RestartInterval,
  Blocks,          (* how many blocks the file has room for                *)
  FilterBase,      (* kFilterBase                                          *)
  BitsPerKey, Probes, MinBits,
  HashOf(_)        (* BloomHash and its turns: bytes -> <<h, delta>>       *)

MaxTag == 8000 + 1                        (* kMaxSequenceNumber, for a seek *)
kTypeDeletion == 0
kTypeValue == 1

Tag(sequence, type) == 8 * sequence + type
UserKey(key) == Front(key)
SequenceOf(key) == Last(key) \div 8
TypeOf(key) == Last(key) % 8

-----------------------------------------------------------------------------
(* BytewiseComparator.                                                      *)
Common(a, b) == Max({n \in 0..Min({Len(a), Len(b)}) : SubSeq(a, 1, n) = SubSeq(b, 1, n)})
Below(a, b) == LET n == Common(a, b) + 1 IN n <= Len(b) /\ (n > Len(a) \/ a[n] < b[n])

FindShortestSeparator(start, limit) ==
  LET n == Common(start, limit) + 1 IN
  IF n <= Min({Len(start), Len(limit)}) /\ start[n] < TopByte /\ start[n] + 1 < limit[n]
  THEN Append(SubSeq(start, 1, n - 1), start[n] + 1)
  ELSE start

FindShortSuccessor(key) ==
  LET risable == {n \in DOMAIN key : key[n] # TopByte} IN
  IF risable = {} THEN key
  ELSE Append(SubSeq(key, 1, Min(risable) - 1), key[Min(risable)] + 1)

(* InternalKeyComparator.                                                   *)
Less(a, b) ==
  \/ Below(UserKey(a), UserKey(b))
  \/ UserKey(a) = UserKey(b) /\ Last(a) > Last(b)

Shortened(key, user) ==
  IF Len(user) < Len(UserKey(key)) /\ Below(UserKey(key), user) THEN Append(user, MaxTag) ELSE key
Separator(start, limit) == Shortened(start, FindShortestSeparator(UserKey(start), UserKey(limit)))
Successor(key) == Shortened(key, FindShortSuccessor(UserKey(key)))

-----------------------------------------------------------------------------
(* BlockBuilder.                                                            *)
EmptyBlock == [entries |-> << >>, restarts |-> <<1>>, last |-> << >>, counter |-> 0]

AddToBlock(block, key, value, interval) ==
  LET restart == block.counter >= interval
      shared == IF restart THEN 0 ELSE Common(block.last, key)
  IN  [entries |-> Append(block.entries, [shared |-> shared, rest |-> SubSeq(key, shared + 1, Len(key)),
                                          value |-> value]),
       restarts |-> IF restart THEN Append(block.restarts, Len(block.entries) + 1) ELSE block.restarts,
       last |-> key,
       counter |-> IF restart THEN 1 ELSE block.counter + 1]

CurrentSizeEstimate(block) ==
  FoldLeft(LAMBDA size, e : size + 3 + Len(e.rest), 0, block.entries) + Len(block.restarts) + 1

-----------------------------------------------------------------------------
(* BloomFilterPolicy behind InternalFilterPolicy.  A filter is its bits.    *)
BitsOf(keys) == Max({MinBits, BitsPerKey * Len(keys)})
ProbesOf(user, bits) == {(HashOf(user)[1] + j * HashOf(user)[2]) % bits : j \in 0..(Probes - 1)}
CreateFilter(keys) ==
  [bits |-> BitsOf(keys), set |-> UNION {ProbesOf(UserKey(keys[i]), BitsOf(keys)) : i \in DOMAIN keys}]
NoKeys == [bits |-> 0, set |-> {}]        (* the filter of no keys is empty *)
(* Slip: the filter is asked for the internal key.                          *)
WholeKeyMatch(key, filter) == filter # NoKeys /\ ProbesOf(key, filter.bits) \subseteq filter.set
PolicyMatch(key, filter) == filter # NoKeys /\ ProbesOf(UserKey(key), filter.bits) \subseteq filter.set

(* FilterBlockBuilder: filters, and the keys of the next one.               *)
RECURSIVE StartBlock(_, _)
GenerateFilter(fb) ==
  [filters |-> Append(fb.filters, IF fb.keys = << >> THEN NoKeys ELSE CreateFilter(fb.keys)), keys |-> << >>]
StartBlock(fb, offset) ==
  IF offset \div FilterBase > Len(fb.filters) THEN StartBlock(GenerateFilter(fb), offset) ELSE fb
FinishFilter(fb) == IF fb.keys = << >> THEN fb.filters ELSE GenerateFilter(fb).filters

KeyMayMatch(filters, offset, key) ==
  offset \div FilterBase < Len(filters) => PolicyMatch(key, filters[offset \div FilterBase + 1])

-----------------------------------------------------------------------------
(* TableBuilder: r is its Rep.  blocks are those written, [offset, block].  *)
NewBuilder ==
  [ok |-> TRUE, offset |-> 0, blocks |-> << >>, data |-> EmptyBlock, index |-> EmptyBlock, last |-> << >>,
   pending |-> FALSE, filter |-> [filters |-> << >>, keys |-> << >>]]

(* WriteBlock and WriteRawBlock; a block that does not fit leaves an error. *)
WriteBlock(r, block) ==
  IF Len(r.blocks) < Blocks
  THEN [r EXCEPT !.blocks = Append(@, [offset |-> r.offset, block |-> block]),
                 !.offset = @ + CurrentSizeEstimate(block) + 1]
  ELSE [r EXCEPT !.ok = FALSE]

Flush(r) ==
  IF ~r.ok \/ r.data.entries = << >> THEN r
  ELSE LET w == WriteBlock(r, r.data)
       IN  [w EXCEPT !.data = EmptyBlock, !.pending = w.ok, !.filter = StartBlock(@, w.offset)]

(* The index entry of the last block, once the next key is known or is not  *)
(* to come.                                                                 *)
IndexPending(r, key) ==
  IF r.pending THEN [r EXCEPT !.index = AddToBlock(@, key, Len(r.blocks), 1), !.pending = FALSE] ELSE r

AddData(r, key) ==
  [r EXCEPT !.filter.keys = Append(@, key), !.last = key,
            !.data = AddToBlock(@, key, Last(key), RestartInterval)]
FlushIfFull(r) == IF CurrentSizeEstimate(r.data) >= BlockSize THEN Flush(r) ELSE r
Add(r, key) ==
  IF ~r.ok THEN r ELSE FlushIfFull(AddData(IndexPending(r, Separator(r.last, key)), key))

(* Finish: the filter block, the metaindex, the index with the footer.      *)
FilterSize(filters) == FoldLeft(LAMBDA size, f : size + f.bits \div 8 + 2, 3, filters)
FinishedTable(r, filters, index, metaindex) ==
  [ok |-> Len(r.blocks) + 3 <= Blocks, blocks |-> r.blocks, index |-> index, filters |-> filters,
   metaindex |-> metaindex, size |-> metaindex + 1 + CurrentSizeEstimate(index) + 1]
FinishWith(r, filters) ==
  IF ~r.ok THEN [ok |-> FALSE]
  ELSE FinishedTable(r, filters, IndexPending(r, Successor(r.last)).index, r.offset + FilterSize(filters))
Finishing(r) == FinishWith(r, FinishFilter(r.filter))
Finish(r) == Finishing(Flush(r))

TableOf(keys) == Finish(FoldLeft(Add, NewBuilder, keys))
=============================================================================
