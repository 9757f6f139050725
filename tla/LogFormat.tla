----------------------------- MODULE LogFormat -----------------------------
(***************************************************************************)
(* leveldb: the log file of records in blocks (db/log_writer.cc,           *)
(* db/log_reader.cc), of the writes as of the manifest.                    *)
(*                                                                         *)
(* The file is its fragments [offset, length, kept, type, record]: kept is *)
(* how much of header and payload is in the file.  A process or a machine  *)
(* may stop at any point, an append may fail with a part of a fragment     *)
(* written and the writer go on, and one fragment may go bad.              *)
(***************************************************************************)
EXTENDS Integers, Sequences, SequencesExt, FiniteSetsExt

CONSTANTS
  BlockSize,       (* kBlockSize                                           *)
  HeaderSize,      (* kHeaderSize                                          *)
  Lengths, MaxRecords,
  Failures,        (* appends that may fail                                *)
  Offsets,         (* initial offsets of readers                           *)
  Damages          (* "payload", "length", "zeroed"                        *)

VARIABLES
  fragments, size,
  block_offset,    (* of the writer                                        *)
  written,         (* record -> whether AddRecord returned OK              *)
  failures,        (* appends that failed                                  *)
  damage,          (* [fragment, how]                                      *)
  garbage,         (* what a header made of stray bytes looks like         *)
  initial_offset, reader, read, reports

vars == <<fragments, size, block_offset, written, failures, damage, garbage, initial_offset, reader, read, reports>>

Intact == [fragment |-> 0, how |-> "none"]
Idle == [status |-> "none"]

Init ==
  /\ fragments = << >> /\ size = 0 /\ block_offset = 0 /\ written = << >> /\ failures = 0
  /\ damage = Intact
  /\ garbage \in {"mismatch", "too long"}
  /\ initial_offset = 0
  /\ reader = Idle /\ read = << >> /\ reports = 0

-----------------------------------------------------------------------------
(* The writer.                                                              *)
TypeOfFragment(begin, end) ==
  IF begin THEN IF end THEN "full" ELSE "first" ELSE IF end THEN "last" ELSE "middle"

(* A fragment and what fills the block before it; fails says how much of it *)
(* is written before an append fails.                                       *)
Leftover(w) == BlockSize - w.block_offset
Trailer(w) == IF Leftover(w) < HeaderSize THEN Leftover(w) ELSE 0
EmitPhysicalRecord(w, start, length, begin, end, kept) ==
  [fragments |-> Append(w.fragments, [offset |-> w.size + Trailer(w), length |-> length, kept |-> kept,
                                      type |-> TypeOfFragment(begin, end), record |-> Len(written) + 1]),
   size |-> w.size + Trailer(w) + kept,
   block_offset |-> start + HeaderSize + length,
   ok |-> kept = HeaderSize + length]

(* The loop of AddRecord; the append of fragment number fails writes kept.  *)
RECURSIVE AddFragments(_, _, _, _, _)
AddFragment(w, left, begin, fails, kept, start, length) ==
  LET end == left = length
      e == EmitPhysicalRecord(w, start, length, begin, end,
                              IF fails = 1 THEN Min({kept, HeaderSize + length - 1}) ELSE HeaderSize + length)
  IN  IF e.ok /\ ~end THEN AddFragments(e, left - length, FALSE, fails - 1, kept) ELSE e
AddFragments(w, left, begin, fails, kept) ==
  LET start == IF Leftover(w) < HeaderSize THEN 0 ELSE w.block_offset
  IN  AddFragment(w, left, begin, fails, kept, start, Min({left, BlockSize - start - HeaderSize}))

AddRecord(n, fails, kept) ==
  /\ reader = Idle
  /\ Len(written) < MaxRecords
  /\ fails > 0 => failures < Failures
  /\ \E w \in {AddFragments([fragments |-> fragments, size |-> size, block_offset |-> block_offset], n, TRUE, fails, kept)} :
       /\ fails > 0 => ~w.ok
       /\ fragments' = w.fragments /\ size' = w.size /\ block_offset' = w.block_offset
       /\ written' = Append(written, w.ok)
       /\ failures' = failures + IF w.ok THEN 0 ELSE 1
  /\ UNCHANGED <<damage, garbage, initial_offset, reader, read, reports>>

-----------------------------------------------------------------------------
(* The machine stops: the end of the file is lost.  Or a fragment goes bad. *)
KeptBelow(f, cut) == Min({f.kept, cut - f.offset})
LoseTheEnd(cut) ==
  /\ reader = Idle /\ size > 0 /\ cut < size
  /\ size' = cut
  /\ fragments' = LET left == SelectSeq(fragments, LAMBDA f : f.offset < cut)
                  IN  [i \in DOMAIN left |-> [left[i] EXCEPT !.kept = KeptBelow(left[i], cut)]]
  /\ reader' = [status |-> "lost the end"]
  /\ UNCHANGED <<block_offset, written, failures, damage, garbage, initial_offset, read, reports>>

GoBad(i, how) ==
  /\ reader = Idle /\ damage = Intact
  /\ damage' = [fragment |-> i, how |-> how]
  /\ UNCHANGED <<fragments, size, block_offset, written, failures, garbage, initial_offset, reader, read, reports>>

-----------------------------------------------------------------------------
(* The reader.  [at, end) is the buffer, end is end_of_buffer_offset_.      *)
(* Reads are of whole blocks but for the last.                              *)
NewReader(initial) ==
  [status |-> "reading", at |-> 0, end |-> 0, eof |-> FALSE, resyncing |-> initial > 0, last |-> 0,
   in_fragmented_record |-> FALSE, scratch |-> << >>, offset |-> 0, dropped |-> 0]

(* SkipToInitialBlock, whose Skip does not go past the end.                 *)
InitialBlock ==
  LET in_block == initial_offset % BlockSize
  IN  initial_offset - in_block + IF in_block > BlockSize - (HeaderSize - 1) THEN BlockSize ELSE 0
SkipToInitialBlock(r) == [r EXCEPT !.at = InitialBlock, !.end = InitialBlock]

LengthsOf(scratch) == FoldLeft(LAMBDA sum, i : sum + fragments[i].length, 0, scratch)

(* ReportDrop: not of what is before the initial offset.                    *)
Report(r, bytes) == [r EXCEPT !.dropped = @ + IF r.at - bytes >= initial_offset THEN 1 ELSE 0]

(* What the header at the start of the buffer turns out to be.              *)
At(r) == {i \in DOMAIN fragments : fragments[i].offset = r.at /\ fragments[i].kept > 0}
Fits(r, i) == r.at + HeaderSize + fragments[i].length <= r.end
Whole(i) == fragments[i].kept = HeaderSize + fragments[i].length
Header(r) ==
  IF At(r) = {} THEN garbage
  ELSE LET i == CHOOSE i \in At(r) : TRUE IN
    CASE damage.fragment = i /\ damage.how = "zeroed" -> "zero"
      [] damage.fragment = i /\ damage.how = "length" -> garbage
      [] fragments[i].kept < HeaderSize -> garbage
      [] ~Fits(r, i) -> "too long"
      [] ~Whole(i) \/ damage.fragment = i -> "mismatch"
      [] OTHER -> fragments[i].type

(* ReadPhysicalRecord: [reader, type, fragment].                            *)
RECURSIVE ReadPhysicalRecord(_)
Gives(r, type, i) == [reader |-> r, type |-> type, fragment |-> i]
Refill(r) ==
  [r EXCEPT !.at = r.end, !.end = Max({r.end, Min({r.end + BlockSize, size})}), !.eof = r.end + BlockSize > size]
ClearBuffer(r) == [r EXCEPT !.at = r.end]
DropBuffer(r) == Report(ClearBuffer(r), r.end - r.at)
PastFragment(r, i) == [r EXCEPT !.at = @ + HeaderSize + fragments[i].length]
SkipEarlier(r, i, start) ==
  IF start < initial_offset THEN Gives(r, "bad", 0) ELSE Gives(r, fragments[i].type, i)
ReadHeader(r, header) ==
  CASE header = "too long" -> IF r.eof THEN Gives(ClearBuffer(r), "eof", 0)
                              ELSE Gives(DropBuffer(r), "bad", 0)
    [] header = "zero" -> Gives(ClearBuffer(r), "bad", 0)
    [] header = "mismatch" -> Gives(DropBuffer(r), "bad", 0)
    [] OTHER -> LET i == CHOOSE i \in At(r) : TRUE IN SkipEarlier(PastFragment(r, i), i, r.at)
ReadPhysicalRecord(r) ==
  IF r.end - r.at < HeaderSize
  THEN IF r.eof THEN Gives(ClearBuffer(r), "eof", 0) ELSE ReadPhysicalRecord(Refill(r))
  ELSE ReadHeader(r, Header(r))

-----------------------------------------------------------------------------
(* ReadRecord, from one physical record to the next.                        *)
RECURSIVE ReadOn(_)
Resync(p) ==
  IF ~p.reader.resyncing THEN p
  ELSE [p EXCEPT !.reader.resyncing = p.type = "middle"]
Skipped(p) == p.reader.resyncing /\ p.type \in {"middle", "last"}

(* A record that has not ended when another begins.                         *)
Unended(r) ==
  IF r.in_fragmented_record /\ LengthsOf(r.scratch) > 0 THEN Report(r, LengthsOf(r.scratch)) ELSE r
Record(r, parts, offset) == [r EXCEPT !.status = "record", !.scratch = parts, !.offset = offset, !.last = offset]
(* Slip: the parts before a bad fragment stay.                              *)
KeepsParts(r) == r
Dropping(r) == [r EXCEPT !.in_fragmented_record = FALSE, !.scratch = << >>]

Take(r, type, i) ==
  CASE type = "full" -> Record(Unended(r), <<i>>, fragments[i].offset)
    [] type = "first" ->
         ReadOn([Unended(r) EXCEPT !.in_fragmented_record = TRUE, !.scratch = <<i>>, !.offset = fragments[i].offset])
    [] type \in {"middle", "last"} /\ ~r.in_fragmented_record -> ReadOn(Report(r, fragments[i].length))
    [] type = "middle" /\ r.in_fragmented_record -> ReadOn([r EXCEPT !.scratch = Append(@, i)])
    [] type = "last" /\ r.in_fragmented_record -> Record(r, Append(r.scratch, i), r.offset)
    [] type = "bad" ->
         ReadOn(IF r.in_fragmented_record THEN Dropping(Report(r, LengthsOf(r.scratch))) ELSE r)
    [] type = "eof" -> [r EXCEPT !.status = "end", !.scratch = << >>]

TakePhysical(p) == IF Skipped(p) THEN ReadOn(Resync(p).reader) ELSE Take(Resync(p).reader, p.type, p.fragment)
ReadOn(r) == TakePhysical(ReadPhysicalRecord(r))

StartRecord(r) ==
  [(IF r.last < initial_offset THEN SkipToInitialBlock(r) ELSE r)
     EXCEPT !.status = "reading", !.in_fragmented_record = FALSE, !.scratch = << >>]

Open(initial) ==
  /\ reader.status \in {"none", "lost the end"}
  /\ initial_offset' = initial
  /\ reader' = NewReader(initial)
  /\ UNCHANGED <<fragments, size, block_offset, written, failures, damage, garbage, read, reports>>

ReadRecord ==
  /\ reader.status \in {"reading", "record"}
  /\ \E r \in {ReadOn(StartRecord(reader))} :
       /\ reader' = [r EXCEPT !.dropped = 0]
       /\ reports' = reports + r.dropped
       /\ read' = IF r.status = "record" THEN Append(read, [parts |-> r.scratch, offset |-> r.last]) ELSE read
  /\ UNCHANGED <<fragments, size, block_offset, written, failures, damage, garbage, initial_offset>>

Next ==
  \/ \E n \in Lengths, fails \in 0..Failures, kept \in 0..BlockSize : AddRecord(n, fails, kept)
  \/ \E cut \in 0..size : LoseTheEnd(cut)
  \/ \E i \in DOMAIN fragments, how \in Damages : GoBad(i, how)
  \/ \E initial \in Offsets \cap 0..size : Open(initial)
  \/ ReadRecord

Spec == Init /\ [][Next]_vars

-----------------------------------------------------------------------------
PartsOf(k) == SelectSeq([i \in DOMAIN fragments |-> i], LAMBDA i : fragments[i].record = k)
StartOf(k) == fragments[PartsOf(k)[1]].offset
RecordRead(j) == fragments[read[j].parts[1]].record

(* Whatever is cut off or goes bad, and wherever reading starts: a record   *)
(* that is read was written like that, and records are read once, in the    *)
(* order in which they were written.                                        *)
EveryRecordReadWasWritten ==
  \A j \in DOMAIN read :
    /\ read[j].parts = PartsOf(RecordRead(j)) /\ written[RecordRead(j)]
    /\ read[j].offset = StartOf(RecordRead(j)) /\ read[j].offset >= initial_offset
    /\ j > 1 => RecordRead(j - 1) < RecordRead(j)

(* When the reader is through, every record that is whole in the file and   *)
(* starts at or after the initial offset has been read, or it has reported  *)
(* a corruption, or zeros took the place of a fragment, or the block at the *)
(* end has a bad length and looks as if the writer had died there.  What    *)
(* is written after an append that failed can be lost in silence, and what  *)
(* goes bad before the initial offset may take the rest of its block along. *)
Readable(k) == PartsOf(k) # << >> /\ StartOf(k) >= initial_offset
               /\ \A i \in DOMAIN PartsOf(k) : Whole(PartsOf(k)[i])
               /\ fragments[Last(PartsOf(k))].type \in {"full", "last"}
NothingIsLostInSilence ==
  reader.status = "end" =>
    \/ \A k \in DOMAIN written : Readable(k) => \E j \in DOMAIN read : RecordRead(j) = k
    \/ reports > 0 \/ failures > 0 \/ damage.how = "zeroed"
    \/ damage # Intact /\ fragments[damage.fragment].offset < initial_offset
    \/ damage.how = "length" /\ fragments[damage.fragment].offset \div BlockSize = size \div BlockSize
=============================================================================
