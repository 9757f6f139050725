------------------------------ MODULE Formats -------------------------------
(***************************************************************************)
(* leveldb: what is written into the files of a database and read back:    *)
(* the edits of a manifest (db/version_edit.cc), the batches of a log      *)
(* (db/write_batch.cc), the handles and the footer of a table              *)
(* (table/format.cc), and the names of the files (db/filename.cc).         *)
(*                                                                         *)
(* One thing of a kind is written; the end of it may be lost; and it is    *)
(* read, an edit and a batch one field or record at a time.                *)
(***************************************************************************)
EXTENDS Coding

CONSTANTS
  kNumLevels,
  Magic,           (* kTableMagicNumber, as two words                      *)
  FirstWidth,      (* digits a number in a name has at least               *)
  Edits,           (* edits that are written                               *)
  Batches,         (* [seq, first, second]: two groups of records          *)
  Footers,         (* [metaindex, index]                                   *)
  Names            (* [prefix, digits, suffix] of files in the directory   *)

VARIABLES
  kind,
  original,
  rep,             (* as written                                           *)
  whole,           (* nothing of it is lost                                *)
  input,           (* what is left to read                                 *)
  decoded,
  found,           (* records read of a batch                              *)
  status

formatVars == <<kind, original, rep, whole, input, decoded, found, status>>

-----------------------------------------------------------------------------
(* VersionEdit.  A field that is not there is an empty sequence.            *)
kComparator == 1
kLogNumber == 2
kNextFileNumber == 3
kLastSequence == 4
kCompactPointer == 5
kDeletedFile == 6
kNewFile == 7
kPrevLogNumber == 9

Clear == [comparator |-> << >>, log_number |-> << >>, prev_log_number |-> << >>, next_file_number |-> << >>,
          last_sequence |-> << >>, compact_pointers |-> << >>, deleted_files |-> {}, new_files |-> << >>]

(* The set of deleted files is one of pairs, in their order.                *)
Before(a, b) == a[1] < b[1] \/ (a[1] = b[1] /\ a[2] < b[2])
InOrder(S) == CHOOSE s \in [1..Cardinality(S) -> S] : \A i, j \in DOMAIN s : i < j => Before(s[i], s[j])

EncodeNumber(tag, field) == IF field = << >> THEN << >> ELSE PutVarint(tag) \o PutVarint(field[1])
EncodeCompactPointer(p) == PutVarint(kCompactPointer) \o PutVarint(p[1]) \o PutLengthPrefixedSlice(p[2])
EncodeDeletedFile(d) == PutVarint(kDeletedFile) \o PutVarint(d[1]) \o PutVarint(d[2])
EncodeNewFile(f) ==
  PutVarint(kNewFile) \o PutVarint(f[1]) \o PutVarint(f[2]) \o PutVarint(f[3])
    \o PutLengthPrefixedSlice(f[4]) \o PutLengthPrefixedSlice(f[5])
EncodeEdit(e) ==
  (IF e.comparator = << >> THEN << >> ELSE PutVarint(kComparator) \o PutLengthPrefixedSlice(e.comparator[1]))
    \o EncodeNumber(kLogNumber, e.log_number) \o EncodeNumber(kPrevLogNumber, e.prev_log_number)
    \o EncodeNumber(kNextFileNumber, e.next_file_number) \o EncodeNumber(kLastSequence, e.last_sequence)
    \o FlattenSeq([i \in DOMAIN e.compact_pointers |-> EncodeCompactPointer(e.compact_pointers[i])])
    \o FlattenSeq([i \in 1..Cardinality(e.deleted_files) |-> EncodeDeletedFile(InOrder(e.deleted_files)[i])])
    \o FlattenSeq([i \in DOMAIN e.new_files |-> EncodeNewFile(e.new_files[i])])

GetLevel(in) == LET v == GetVarint32(in) IN IF v.ok /\ v.value < kNumLevels THEN v ELSE NotThere(in)
GetInternalKey(in) == GetLengthPrefixedSlice(in)

(* The parts of a field, one after another, into a tuple.                   *)
Get(part, in) ==
  CASE part = "level" -> GetLevel(in) [] part = "number" -> GetVarint64(in) [] part = "slice" -> GetInternalKey(in)
GetParts(in, parts) ==
  FoldLeft(LAMBDA r, part : IF ~r.ok THEN r ELSE LET g == Get(part, r.rest) IN [g EXCEPT !.value = Append(r.value, @)],
           [ok |-> TRUE, value |-> << >>, rest |-> in], parts)

PartsOf(tag) ==
  CASE tag = kComparator -> <<"slice">>
    [] tag \in {kLogNumber, kPrevLogNumber, kNextFileNumber, kLastSequence} -> <<"number">>
    [] tag = kCompactPointer -> <<"level", "slice">>
    [] tag = kDeletedFile -> <<"level", "number">>
    [] tag = kNewFile -> <<"level", "number", "number", "slice", "slice">>
WithField(e, tag, v) ==
  CASE tag = kComparator -> [e EXCEPT !.comparator = v]
    [] tag = kLogNumber -> [e EXCEPT !.log_number = v]
    [] tag = kPrevLogNumber -> [e EXCEPT !.prev_log_number = v]
    [] tag = kNextFileNumber -> [e EXCEPT !.next_file_number = v]
    [] tag = kLastSequence -> [e EXCEPT !.last_sequence = v]
    [] tag = kCompactPointer -> [e EXCEPT !.compact_pointers = Append(@, v)]
    [] tag = kDeletedFile -> [e EXCEPT !.deleted_files = @ \union {v}]
    [] tag = kNewFile -> [e EXCEPT !.new_files = Append(@, v)]

Tags == (1..7) \union {kPrevLogNumber}
TakeField(tag, parts) ==
  IF parts.ok
  THEN decoded' = WithField(decoded, tag, parts.value) /\ input' = parts.rest /\ UNCHANGED status
  ELSE status' = "corrupt" /\ UNCHANGED <<decoded, input>>
(* A pass of the loop of DecodeFrom, or its end.                            *)
DecodeField ==
  /\ kind = "edit" /\ status = "reading"
  /\ \E tag \in {GetVarint32(input)} :
       \/ tag.ok /\ tag.value \in Tags /\ TakeField(tag.value, GetParts(tag.rest, PartsOf(tag.value)))
       \/ tag.ok /\ tag.value \notin Tags /\ status' = "corrupt" /\ UNCHANGED <<decoded, input>>
       \/ ~tag.ok /\ status' = (IF input = << >> THEN "ok" ELSE "corrupt") /\ UNCHANGED <<decoded, input>>
  /\ UNCHANGED <<kind, original, rep, whole, found>>

-----------------------------------------------------------------------------
(* WriteBatch: a sequence number, a count and records.                      *)
kTypeDeletion == 0
kTypeValue == 1
kHeader == Size64 + Size32
EmptyBatch == EncodeFixed64(0) \o EncodeFixed32(0)
Count(b) == DecodeFixed32(SubSeq(b, Size64 + 1, kHeader))
SetCount(b, n) == SubSeq(b, 1, Size64) \o EncodeFixed32(n % (Max32 + 1)) \o SubSeq(b, kHeader + 1, Len(b))
Sequence(b) == DecodeFixed64(b)
SetSequence(b, n) == EncodeFixed64(n) \o SubSeq(b, Size64 + 1, Len(b))
Put(b, key, value) ==
  SetCount(b, Count(b) + 1) \o <<kTypeValue>> \o PutLengthPrefixedSlice(key) \o PutLengthPrefixedSlice(value)
Delete(b, key) == SetCount(b, Count(b) + 1) \o <<kTypeDeletion>> \o PutLengthPrefixedSlice(key)
AppendBatch(dst, src) == SetCount(dst, Count(dst) + Count(src)) \o SubSeq(src, kHeader + 1, Len(src))

BatchOf(records) == FoldLeft(LAMBDA b, r : IF r[1] = kTypeValue THEN Put(b, r[2], r[3]) ELSE Delete(b, r[2]), EmptyBatch, records)
EncodeBatch(o) == SetSequence(AppendBatch(BatchOf(o.first), BatchOf(o.second)), o.seq)

(* Iterate with MemTableInserter: each record gets the next sequence        *)
(* number.                                                                  *)
Insert(type, key, value, rest) ==
  /\ decoded' = Append(decoded, <<Sequence(rep) + found, type, key, value>>)
  /\ found' = found + 1 /\ input' = rest
  /\ UNCHANGED status
Refuse == status' = "corrupt" /\ UNCHANGED <<decoded, found, input>>
TakeRecord(type, parts) ==
  IF parts.ok THEN Insert(type, parts.value[1], IF type = kTypeValue THEN parts.value[2] ELSE << >>, parts.rest) ELSE Refuse
InsertRecord ==
  /\ kind = "batch" /\ status = "reading"
  /\ IF input = << >>
     THEN status' = (IF Len(rep) >= kHeader /\ found = Count(rep) THEN "ok" ELSE "corrupt") /\ UNCHANGED <<decoded, found, input>>
     ELSE CASE input[1] = kTypeValue -> TakeRecord(kTypeValue, GetParts(Tail(input), <<"slice", "slice">>))
            [] input[1] = kTypeDeletion -> TakeRecord(kTypeDeletion, GetParts(Tail(input), <<"slice">>))
            [] OTHER -> Refuse
  /\ UNCHANGED <<kind, original, rep, whole>>

(* What the handler is to get.                                              *)
Inserted(o) == [i \in DOMAIN (o.first \o o.second) |->
                  LET r == (o.first \o o.second)[i] IN <<o.seq + i - 1, r[1], r[2], IF r[1] = kTypeValue THEN r[3] ELSE << >>>>]

-----------------------------------------------------------------------------
(* BlockHandle and Footer: two handles, room for the largest, the magic.    *)
EncodeHandle(h) == PutVarint(h[1]) \o PutVarint(h[2])
DecodeHandle(in) == GetParts(in, <<"number", "number">>)
kMaxEncodedLength == 2 * Digits64
Padded(s) == s \o [i \in 1..((2 * kMaxEncodedLength) - Len(s)) |-> 0]
EncodeFooter(f) ==
  Padded(EncodeHandle(f.metaindex) \o EncodeHandle(f.index)) \o EncodeFixed32(Magic[1]) \o EncodeFixed32(Magic[2])
MagicOf(s) == <<DecodeFixed32(SubSeq(s, (2 * kMaxEncodedLength) + 1, Len(s))),
                DecodeFixed32(SubSeq(s, (2 * kMaxEncodedLength) + Size32 + 1, Len(s)))>>
DecodeFooter ==
  /\ kind = "footer" /\ status = "reading"
  /\ \E metaindex \in {DecodeHandle(input)} : \E index \in {DecodeHandle(metaindex.rest)} :
       IF MagicOf(input) = Magic /\ metaindex.ok /\ index.ok
       THEN status' = "ok" /\ decoded' = [metaindex |-> metaindex.value, index |-> index.value]
       ELSE status' = "corrupt" /\ UNCHANGED decoded
  /\ UNCHANGED <<kind, original, rep, whole, input, found>>

-----------------------------------------------------------------------------
(* File names.  A number is at least FirstWidth digits.                     *)
DigitsOf(n) ==
  LET width == CHOOSE w \in FirstWidth..20 : n < 10 ^ w /\ (w = FirstWidth \/ n >= 10 ^ (w - 1))
  IN  [i \in 1..width |-> (n \div 10 ^ (width - i)) % 10]
MakeFileName(n, suffix) == [prefix |-> "", digits |-> DigitsOf(n), suffix |-> suffix]
FileName(type, n) ==
  CASE type = "log" -> MakeFileName(n, ".log")
    [] type = "table" -> MakeFileName(n, ".ldb")
    [] type = "temp" -> MakeFileName(n, ".dbtmp")
    [] type = "descriptor" -> [prefix |-> "MANIFEST-", digits |-> DigitsOf(n), suffix |-> ""]

TypeOfSuffix(suffix) ==
  CASE suffix = ".log" -> "log" [] suffix \in {".sst", ".ldb"} -> "table" [] suffix = ".dbtmp" -> "temp" [] OTHER -> "none"
ParsedAs(number, type) == IF number.ok /\ type # "none" THEN <<number.value, type>> ELSE << >>
ParseFileName(name) ==
  CASE name.prefix = "MANIFEST-" ->
         ParsedAs(ConsumeDecimalNumber(name.digits), IF name.suffix = "" THEN "descriptor" ELSE "none")
    [] name.prefix = "" -> ParsedAs(ConsumeDecimalNumber(name.digits), TypeOfSuffix(name.suffix))
    [] name.digits # << >> \/ name.suffix # "" -> << >>
    [] name.prefix = "CURRENT" -> <<0, "current">>
    [] name.prefix = "LOCK" -> <<0, "lock">>
    [] name.prefix \in {"LOG", "LOG.old"} -> <<0, "info log">>
    [] OTHER -> << >>
ParseName ==
  /\ kind = "name" /\ status = "reading"
  /\ decoded' = ParseFileName(original)
  /\ status' = IF decoded' = << >> THEN "corrupt" ELSE "ok"
  /\ UNCHANGED <<kind, original, rep, whole, input, found>>

-----------------------------------------------------------------------------
(* A record of a log or manifest may be cut anywhere, may be of a kind that *)
(* nobody writes any more, and a file may be no table.                      *)
Cuts(s) == {SubSeq(s, 1, n) : n \in 0..Len(s)}
Altered(s, i) == IF i \in DOMAIN s THEN {[s EXCEPT ![i] = 8]} ELSE {}
AsFound(k, s) ==
  CASE k = "edit" -> Cuts(s) \union Altered(s, 1)
    [] k = "batch" -> Cuts(s) \union Altered(s, kHeader + 1)
    [] k = "footer" -> {s} \union Altered(s, Len(s))
    [] k = "name" -> {s}
Written(k, o, encoded, empty, start) ==
  /\ kind = k /\ original = o /\ decoded = empty /\ found = 0 /\ status = "reading"
  /\ rep \in AsFound(k, encoded)
  /\ whole = (rep = encoded)
  /\ input = SubSeq(rep, start + 1, Len(rep))
Init ==
  \/ \E e \in Edits : Written("edit", e, EncodeEdit(e), Clear, 0)
  \/ \E b \in Batches : Written("batch", b, EncodeBatch(b), << >>, kHeader)
  \/ \E f \in Footers : Written("footer", f, EncodeFooter(f), << >>, 0)
  \/ \E n \in Names : Written("name", n, << >>, << >>, 0)

Next == DecodeField \/ InsertRecord \/ DecodeFooter \/ ParseName

Spec == Init /\ [][Next]_formatVars

-----------------------------------------------------------------------------
(* What was written whole is read as it was.  A batch that was cut is never *)
(* taken for a whole one, and an edit that was cut is refused unless it was *)
(* cut between two of its fields.                                           *)
Original == IF kind = "batch" THEN Inserted(original) ELSE original
WrittenIsRead ==
  status # "reading" /\ kind # "name" =>
    /\ whole => status = "ok" /\ decoded = Original
    /\ ~whole => status = "corrupt" \/ (kind = "edit" /\ EncodeEdit(decoded) = rep)

(* A file is known by its name as what it was made to be, whatever the      *)
(* number; and no other file in the directory is taken for one with another *)
(* number, also not by a number that is too large.                          *)
NumberOf(digits) == FoldLeft(LAMBDA v, d : (v * 10) + d, 0, digits)
NamesAreKnown ==
  status # "reading" /\ kind = "name" =>
    /\ status = "ok" => decoded[1] = NumberOf(original.digits)
    /\ NumberOf(original.digits) > Max64 => status = "corrupt"
    /\ \A type \in {"log", "table", "temp", "descriptor"} : \A n \in {NumberOf(original.digits)} :
         n <= Max64 /\ original = FileName(type, n) => decoded = <<n, type>>

(* Both: what one part of the database writes is what another one reads.    *)
FormatsAgree == WrittenIsRead /\ NamesAreKnown
=============================================================================
