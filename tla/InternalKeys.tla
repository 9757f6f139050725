---------------------------- MODULE InternalKeys ----------------------------
(***************************************************************************)
(* leveldb: the bytes of a memtable's entries and of the keys they are     *)
(* sought with (db/memtable.cc, db/dbformat.cc and dbformat.h).            *)
(*                                                                         *)
(* An entry is a length, the user's key, a tag of the sequence number and  *)
(* the type, a length and the value.  The skip list keeps entries in the   *)
(* order of its comparator; here they are a sequence in that order.        *)
(***************************************************************************)
EXTENDS Coding

CONSTANTS
  Keys, Values,    (* sequences of bytes                                   *)
  Sequences,       (* sequence numbers that are given                      *)
  MaxEntries

VARIABLES
  entries,         (* of the memtable, as bytes                            *)
  written          (* what was put in: [key, seq, type, value]             *)

keyVars == <<entries, written>>

kTypeDeletion == 0
kTypeValue == 1
(* Slip: a sought key is of the smaller type.                               *)
SmallerType == kTypeDeletion
kValueTypeForSeek == kTypeValue

-----------------------------------------------------------------------------
(* Internal keys: the user's key, and a tag of which the low byte is the    *)
(* type.                                                                    *)
PackSequenceAndType(seq, type) == (seq * Byte) + type
AppendInternalKey(key, seq, type) == key \o EncodeFixed64(PackSequenceAndType(seq, type))
ExtractUserKey(ikey) == SubSeq(ikey, 1, Len(ikey) - Size64)
TagOf(ikey) == DecodeFixed64(SubSeq(ikey, (Len(ikey) - Size64) + 1, Len(ikey)))
ExtractValueType(ikey) == TagOf(ikey) % Byte
ParseInternalKey(ikey) ==
  [ok |-> Len(ikey) >= Size64 /\ ExtractValueType(ikey) <= kTypeValue,
   key |-> ExtractUserKey(ikey), seq |-> TagOf(ikey) \div Byte, type |-> ExtractValueType(ikey)]

(* BytewiseComparator; and InternalKeyComparator: of one user key, the      *)
(* newest comes first.                                                      *)
Bytewise(a, b) ==
  \/ IsStrictPrefix(a, b)
  \/ \E i \in DOMAIN a \intersect DOMAIN b : a[i] < b[i] /\ SubSeq(a, 1, i - 1) = SubSeq(b, 1, i - 1)
Before(a, b) ==
  \/ Bytewise(ExtractUserKey(a), ExtractUserKey(b))
  \/ ExtractUserKey(a) = ExtractUserKey(b) /\ TagOf(a) > TagOf(b)

-----------------------------------------------------------------------------
(* Entries.  MemTableIterator's key and value are read from them.           *)
KeyOf(entry) == GetLengthPrefixedSlice(entry).value
ValueOf(entry) == GetLengthPrefixedSlice(GetLengthPrefixedSlice(entry).rest).value
KeyComparator(a, b) == Before(KeyOf(a), KeyOf(b))
EncodeKey(target) == PutLengthPrefixedSlice(target)
EntryOf(key, seq, type, value) ==
  PutLengthPrefixedSlice(AppendInternalKey(key, seq, type)) \o PutLengthPrefixedSlice(value)

PlaceOf(entry) == Cardinality({i \in DOMAIN entries : KeyComparator(entries[i], entry)}) + 1

Init == entries = << >> /\ written = {}

Add(key, seq, type, value) ==
  /\ Len(entries) < MaxEntries
  /\ \A w \in written : w.seq < seq
  /\ \E entry \in {EntryOf(key, seq, type, value)} : entries' = InsertAt(entries, PlaceOf(entry), entry)
  /\ written' = written \union {[key |-> key, seq |-> seq, type |-> type, value |-> value]}

Next ==
  \E key \in Keys, seq \in Sequences :
    \/ \E value \in Values : Add(key, seq, kTypeValue, value)
    \/ Add(key, seq, kTypeDeletion, << >>)

Spec == Init /\ [][Next]_keyVars

-----------------------------------------------------------------------------
(* The skip list's Seek: the first entry that is not before the target.     *)
LookupKey(key, seq) == EncodeKey(AppendInternalKey(key, seq, kValueTypeForSeek))
Seek(target) == SelectSeq(entries, LAMBDA e : ~KeyComparator(e, target))

NotHere == [found |-> FALSE, type |-> kTypeDeletion, value |-> << >>]
Result(ikey, value, key) ==
  IF ExtractUserKey(ikey) # key THEN NotHere ELSE [found |-> TRUE, type |-> ExtractValueType(ikey), value |-> value]
ResultAt(rest, key) == IF rest = << >> THEN NotHere ELSE Result(KeyOf(Head(rest)), ValueOf(Head(rest)), key)
Get(key, seq) == ResultAt(Seek(LookupKey(key, seq)), key)

-----------------------------------------------------------------------------
(* A lookup at any snapshot finds the newest record of its key that is not  *)
(* newer than the snapshot, the one at the snapshot itself included,        *)
(* whatever the bytes of the key are and where its numbers carry; and every *)
(* record can be read from its entry.                                       *)
Visible(key, seq) == {w \in written : w.key = key /\ w.seq <= seq}
Newest(key, seq) ==
  IF Visible(key, seq) = {} THEN NotHere
  ELSE LET w == CHOOSE w \in Visible(key, seq) : \A v \in Visible(key, seq) : v.seq <= w.seq
       IN  [found |-> TRUE, type |-> w.type, value |-> w.value]
KeysAreRight ==
  /\ \A key \in Keys, seq \in Sequences : Get(key, seq) = Newest(key, seq)
  /\ \A w \in written : \E e \in Range(entries) :
       /\ ParseInternalKey(KeyOf(e)) = [ok |-> TRUE, key |-> w.key, seq |-> w.seq, type |-> w.type]
       /\ ValueOf(e) = w.value
=============================================================================
