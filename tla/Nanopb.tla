------------------------------- MODULE Nanopb --------------------------------
(***************************************************************************)
(* nanopb: messages to and from the protocol buffer wire format            *)
(* (pb_encode.c, pb_decode.c, pb_common.c), as the pods are built: without *)
(* PB_ENABLE_MALLOC, with PB_FIELD_32BIT.                                  *)
(*                                                                         *)
(* A stream is the sequence of its bytes.  A message is a                  *)
(* function from tags to slots, the sequences of the values that are       *)
(* there: one or none, the entries of an array, the texts a callback was   *)
(* given, or for the place of extensions the [field, slot] in its list.    *)
(* In a oneof, which_ is the one tag of the union whose slot is not empty. *)
(***************************************************************************)
EXTENDS PbField, FiniteSetsExt

CONSTANTS
  Width64,     (* bits of uint64_t                                         *)
  Width32,     (* bits of uint32_t                                         *)
  WordBits,    (* required fields in a word of fields_seen                 *)
  Schemas,     (* the message types: sequences of fields                   *)
  MessagesOf(_),   (* the messages of a type                               *)
  ReadersOf(_),    (* the types, newer or older, it may be read as         *)
  Rooms        (* sizes of the buffer                                      *)

VARIABLES
  allbits,     (* what allbits >> 32 is, which C leaves open: "all", "none" *)
  type, message,     (* what is sent, and of what type                     *)
  reader,      (* the type it is received as                               *)
  delimited,   (* with its size in front of it                             *)
  sent,        (* what pb_encode made of it: [ok, out, ..]                 *)
  cut,         (* bytes of it that do not arrive                           *)
  received,    (* what pb_decode made of it: [ok, v, ..]                   *)
  phase

pbVars == <<allbits, type, message, reader, delimited, sent, cut, received, phase>>

WidthAssumption == Width32 % 8 = 0 /\ Width64 = 2 * Width32

Byte == 0..255
WireVarint == 0
Wire64Bit == 1
WireString == 2
Wire32Bit == 5
Numbers == {"varint", "uvarint", "svarint", "fixed32", "fixed64"}  (* packable *)
SizeOfSize == Width32 \div 8                        (* offsetof(.., bytes)  *)

Unsigned(v, bits) == v % 2^bits
Signed(v, bits) == LET u == v % 2^bits IN IF u >= 2^(bits - 1) THEN u - 2^bits ELSE u

-----------------------------------------------------------------------------
(* Output streams: [ok, out, max, sizing].                                  *)
Sizing == [ok |-> TRUE, out |-> << >>, max |-> 0, sizing |-> TRUE]
BufferOf(max) == [ok |-> TRUE, out |-> << >>, max |-> max, sizing |-> FALSE]
Failed(st) == [st EXCEPT !.ok = FALSE]

(* pb_write                                                                 *)
Write(st, bytes) ==
  IF ~st.ok THEN st
  ELSE IF ~st.sizing /\ Len(st.out) + Len(bytes) > st.max THEN Failed(st)
  ELSE [st EXCEPT !.out = @ \o bytes]

(* pb_encode_varint                                                         *)
VarintLength(v) == CHOOSE n \in 1..5 : v < 128^n /\ (n > 1 => v >= 128^(n - 1))
VarintBytes(v) ==
  [i \in 1..VarintLength(v) |->
     ((v \div 128^(i - 1)) % 128) + (IF i < VarintLength(v) THEN 128 ELSE 0)]

(* pb_encode_svarint                                                        *)
ZigZag(v) == Unsigned(IF v < 0 THEN -2 * v - 1 ELSE 2 * v, Width64)

(* pb_encode_fixed32 and pb_encode_fixed64                                  *)
FixedBytes(v, bits) == [i \in 1..(bits \div 8) |-> (v \div 256^(i - 1)) % 256]

PutTag(st, wire, tag) == Write(st, VarintBytes(tag * 8 + wire))

(* pb_encode_tag_for_field                                                  *)
WireOf(f) ==
  CASE f.ltype \in {"varint", "uvarint", "svarint"} -> WireVarint
    [] f.ltype = "fixed32" -> Wire32Bit
    [] f.ltype = "fixed64" -> Wire64Bit
    [] OTHER -> WireString
PutTagOf(st, f) == PutTag(st, WireOf(f), f.tag)

(* pb_encode_string                                                         *)
PutString(st, bytes) == Write(Write(st, VarintBytes(Len(bytes))), bytes)

(* strnlen: pb_enc_string                                                   *)
UpToNul(bytes, max) ==
  SubSeq(bytes, 1, Min({max, Len(bytes)} \union {i - 1 : i \in {j \in 1..Len(bytes) : bytes[j] = 0}}))

RECURSIVE Encode(_, _, _)

(* pb_encode_submessage: the size first, then the message into a stream of  *)
(* exactly that size, as a callback may give something else this time.      *)
AfterSubmessage(st, size, sub) ==
  [st EXCEPT !.ok = sub.ok /\ Len(sub.out) = size, !.out = @ \o sub.out]

PutSubmessageOf(st, fields, msg, sized) ==
  IF ~st.ok \/ ~sized.ok THEN Failed(st)
  ELSE LET head == Write(st, VarintBytes(Len(sized.out)))
       IN  IF st.sizing THEN Write(head, sized.out)
           ELSE IF ~head.ok \/ Len(head.out) + Len(sized.out) > st.max THEN Failed(head)
           ELSE AfterSubmessage(head, Len(sized.out),
                                Encode(BufferOf(Len(sized.out)), fields, msg))

PutSubmessage(st, fields, msg) == PutSubmessageOf(st, fields, msg, Encode(Sizing, fields, msg))

(* PB_ENCODERS                                                              *)
Put(st, f, v) ==
  CASE f.ltype \in {"varint", "uvarint"} -> Write(st, VarintBytes(Unsigned(v, Width64)))
    [] f.ltype = "svarint" -> Write(st, VarintBytes(ZigZag(v)))
    [] f.ltype = "fixed32" -> Write(st, FixedBytes(v, Width32))
    [] f.ltype = "fixed64" -> Write(st, FixedBytes(v, Width64))
    [] f.ltype = "bytes" -> IF f.atype = "static" /\ Len(v) + SizeOfSize > f.size THEN Failed(st)
                            ELSE PutString(st, v)
    [] f.ltype = "string" -> PutString(st, UpToNul(v, IF f.atype = "pointer" THEN Len(v) ELSE f.size))
    [] f.ltype = "submessage" -> PutSubmessage(st, f.sub, v)
    [] f.ltype = "fixed bytes" -> PutString(st, SubSeq(v, 1, f.size))

PutAll(st, f, slot) == FoldLeft(LAMBDA s, v : Put(s, f, v), st, slot)
PutEach(st, f, slot) == FoldLeft(LAMBDA s, v : Put(PutTagOf(s, f), f, v), st, slot)

(* encode_array: numbers are packed, behind their size.                     *)
PutArray(st, f, slot) ==
  IF slot = << >> THEN st
  ELSE IF f.atype # "pointer" /\ Len(slot) > f.max THEN Failed(st)
  ELSE IF f.ltype \in Numbers
    THEN PutAll(Write(PutTag(st, WireString, f.tag), VarintBytes(Len(PutAll(Sizing, f, slot).out))),
                f, slot)
  ELSE PutEach(st, f, slot)

(* pb_check_proto3_default_value, on the data whatever its has_ and count:  *)
(* of an array only the first entry is looked at.                           *)
Zero(f) ==
  CASE f.ltype \in Numbers -> 0
    [] f.ltype = "fixed bytes" -> [i \in 1..f.size |-> 0]
    [] OTHER -> << >>
FirstIn(f, slot) == IF slot = << >> THEN Zero(f) ELSE Head(slot)

RECURSIVE IsZero(_, _)
IsZero(f, slot) ==
  IF f.atype = "pointer" THEN slot = << >>
  ELSE IF f.atype = "callback" THEN slot = << >>
  ELSE IF f.ltype = "fixed bytes" THEN f.size = 0
  ELSE IF f.ltype = "submessage"
    THEN slot = << >> \/ \A g \in ToSet(f.sub) : IsZero(g, Head(slot)[g.tag])
  ELSE IF f.ltype = "string" THEN UpToNul(FirstIn(f, slot), f.size) = << >>
  ELSE FirstIn(f, slot) = Zero(f)

(* encode_basic_field; has_, count or which_ tell whether a slot is empty.  *)
PutBasic(st, f, slot) ==
  CASE f.htype = "required" -> IF slot = << >> THEN Failed(st) ELSE PutEach(st, f, slot)
    [] f.htype = "singular" -> IF IsZero(f, slot) THEN st ELSE PutEach(st, f, slot)
    [] f.htype \in {"optional", "oneof"} -> PutEach(st, f, slot)
    [] f.htype = "repeated" -> PutArray(st, f, slot)

(* encode_callback_field: the function writes what it likes, the first of   *)
(* its texts when it is asked for the size and the last in earnest.         *)
PutCallback(st, f, slot) ==
  IF slot = << >> THEN st
  ELSE PutString(PutTag(st, WireString, f.tag), IF st.sizing THEN Head(slot) ELSE Last(slot))

PutField(st, f, slot) ==
  IF f.atype = "callback" THEN PutCallback(st, f, slot) ELSE PutBasic(st, f, slot)

(* encode_extension_field                                                   *)
PutExtensions(st, slot) == FoldLeft(LAMBDA s, e : PutField(s, e.field, e.slot), st, slot)

(* pb_encode: the fields in order, as long as all goes well.                *)
Encode(stream, fields, msg) ==
  FoldLeft(LAMBDA st, f : IF ~st.ok THEN st
                          ELSE IF f.ltype = "extension" THEN PutExtensions(st, msg[f.tag])
                          ELSE PutField(st, f, msg[f.tag]),
           stream, fields)

-----------------------------------------------------------------------------
(* Input.  What a step gives: [ok, v, rest].                                *)
Got(v, rest) == [ok |-> TRUE, v |-> v, rest |-> rest]
NotGot(rest) == [ok |-> FALSE, v |-> 0, rest |-> rest]
Behind(s, n) == SubSeq(s, n + 1, Len(s))

(* pb_decode_varint and pb_decode_varint32: a byte is only read while its   *)
(* bits are not all beyond the width.                                       *)
VarintOf(bytes, bits) ==
  FoldLeftDomain(LAMBDA sum, i : sum + (bytes[i] % 128) * 128^(i - 1), 0, bytes) % 2^bits

Varint(s, bits) ==
  LET most == Min({Len(s), (bits - 1) \div 7 + 1})
      ends == {i \in 1..most : s[i] < 128}
  IN  IF ends = {} THEN NotGot(Behind(s, most))
      ELSE Got(VarintOf(SubSeq(s, 1, Min(ends)), bits), Behind(s, Min(ends)))

(* pb_read of n bytes.                                                      *)
Read(s, n) == IF Len(s) < n THEN NotGot(s) ELSE Got(SubSeq(s, 1, n), Behind(s, n))

(* pb_make_string_substream, and back behind it with its close.             *)
ReadString(s) ==
  LET size == Varint(s, Width32)
  IN  IF size.ok THEN Read(size.rest, size.v) ELSE size

(* pb_skip_varint, pb_skip_string and pb_skip_field                         *)
SkipVarint(s) ==
  LET ends == {i \in 1..Len(s) : s[i] < 128}
  IN  IF ends = {} THEN NotGot(<< >>) ELSE Got(SubSeq(s, 1, Min(ends)), Behind(s, Min(ends)))

SkipString(s) ==
  LET length == Varint(s, Width32)
  IN  IF length.ok THEN Read(length.rest, length.v) ELSE length

Skip(s, wire) ==
  CASE wire = WireVarint -> SkipVarint(s)
    [] wire = Wire64Bit -> Read(s, Width64 \div 8)
    [] wire = WireString -> SkipString(s)
    [] wire = Wire32Bit -> Read(s, Width32 \div 8)
    [] OTHER -> NotGot(s)

(* read_raw_value, for a callback: at most ten bytes.                       *)
ReadRaw(s, wire) ==
  LET r == IF wire = WireString THEN NotGot(s) ELSE Skip(s, wire)
  IN  IF r.ok /\ Len(r.v) > 10 THEN NotGot(s) ELSE r

Fixed(s, bits) ==
  LET r == Read(s, bits \div 8)
  IN  IF r.ok THEN Got(FoldLeftDomain(LAMBDA sum, i : sum + r.v[i] * 256^(i - 1), 0, r.v), r.rest)
      ELSE r

(* pb_dec_fixed32, pb_dec_fixed64                                           *)
FixedOf(f, s) == Fixed(s, IF f.ltype = "fixed32" THEN Width32 ELSE Width64)

(* pb_dec_varint, pb_dec_uvarint, pb_dec_svarint: a value beyond the width  *)
(* of the field is an error; what is to fit 32 bits or less is cut first.   *)
Fits(r, v, w) == IF r.ok /\ v = w THEN Got(w, r.rest) ELSE NotGot(r.rest)

(* Slip: the half is negated, not complemented.                             *)
NegatedHalf(v) == IF v % 2 = 1 THEN -(v \div 2) ELSE v \div 2

UnZigZag(v) == IF v % 2 = 1 THEN -(v \div 2) - 1 ELSE v \div 2

CutVarint(f, v) == Signed(v, IF f.size = Width64 THEN Width64 ELSE Width32)

NumberOf(f, r) ==
  CASE f.ltype = "varint" -> Fits(r, CutVarint(f, r.v), Signed(r.v, f.size))
    [] f.ltype = "uvarint" -> Fits(r, r.v, Unsigned(r.v, f.size))
    [] f.ltype = "svarint" -> Fits(r, UnZigZag(r.v), Signed(UnZigZag(r.v), f.size))

(* pb_dec_bytes, pb_dec_string, pb_dec_fixed_length_bytes                   *)
TextOf(f, r) ==
  CASE ~r.ok -> r
    [] f.ltype = "bytes" -> IF Len(r.v) + SizeOfSize > f.size THEN NotGot(r.rest) ELSE r
    [] f.ltype = "string" -> IF Len(r.v) + 1 > f.size THEN NotGot(r.rest) ELSE r
    [] f.ltype = "fixed bytes" -> IF r.v = << >> THEN Got(Zero(f), r.rest)
                                  ELSE IF Len(r.v) # f.size THEN NotGot(r.rest) ELSE r

RECURSIVE Defaults(_), DecodeInto(_, _, _, _), GetPacked(_, _, _)

(* pb_field_set_to_default and pb_message_set_to_defaults                   *)
DefaultValue(f) == IF f.ltype = "submessage" THEN Defaults(f.sub) ELSE f.default
DefaultSlot(f) ==
  IF f.atype = "static" /\ f.htype \in {"required", "singular"} THEN <<DefaultValue(f)>> ELSE << >>
Defaults(fields) ==
  [tag \in {f.tag : f \in ToSet(fields)} |->
     DefaultSlot(CHOOSE f \in ToSet(fields) : f.tag = tag)]

(* pb_dec_submessage: an array entry starts from the defaults, another      *)
(* field from what it holds.                                                *)
SubmessageOf(f, r, old) ==
  IF ~r.ok THEN r
  ELSE LET m == DecodeInto(f.sub, r.v, IF f.htype = "repeated" THEN Defaults(f.sub) ELSE old, {})
       IN  IF m.ok THEN Got(m.v, r.rest) ELSE NotGot(r.rest)

(* PB_DECODERS                                                              *)
Get(s, f, old) ==
  CASE f.ltype \in {"fixed32", "fixed64"} -> FixedOf(f, s)
    [] f.ltype \in Numbers \ {"fixed32", "fixed64"} -> NumberOf(f, Varint(s, Width64))
    [] f.ltype = "submessage" -> SubmessageOf(f, ReadString(s), old)
    [] OTHER -> TextOf(f, ReadString(s))

(* A slot from what was got for it.                                         *)
InSlot(slot, r) == IF r.ok THEN Got(Append(slot, r.v), r.rest) ELSE r

(* The packed arrays of decode_static_field, up to the end of the substream.*)
PackedBehind(s, f, r) == IF r.ok THEN GetPacked(r.rest, f, r.v) ELSE r
GetPacked(s, f, slot) ==
  IF s = << >> THEN Got(slot, << >>)
  ELSE IF Len(slot) >= f.max THEN NotGot(s)
  ELSE PackedBehind(s, f, InSlot(slot, Get(s, f, 0)))

PackedOf(f, slot, r) ==
  IF ~r.ok THEN r
  ELSE LET p == GetPacked(r.v, f, slot) IN IF p.ok THEN Got(p.v, r.rest) ELSE NotGot(r.rest)

GetArray(s, wire, f, slot) ==
  IF wire = WireString /\ f.ltype \in Numbers THEN PackedOf(f, slot, ReadString(s))
  ELSE IF Len(slot) >= f.max THEN NotGot(s)
  ELSE InSlot(slot, Get(s, f, 0))

(* decode_callback_field, for a callback that reads all it is given; the    *)
(* default of the field says whether there is one.                          *)
GetCallback(s, wire, f, slot) ==
  IF ~f.default THEN LET r == Skip(s, wire) IN IF r.ok THEN Got(slot, r.rest) ELSE r
  ELSE InSlot(slot, IF wire = WireString THEN ReadString(s) ELSE ReadRaw(s, wire))

(* decode_static_field                                                      *)
GetStatic(s, wire, f, slot) ==
  CASE f.htype = "repeated" -> GetArray(s, wire, f, slot)
    [] f.htype = "oneof" -> InSlot(<< >>, Get(s, f, DefaultValue(f)))
    [] OTHER -> InSlot(<< >>, Get(s, f, IF slot = << >> THEN DefaultValue(f) ELSE Head(slot)))

(* decode_field: without malloc a pointer field cannot be decoded.          *)
GetField(s, wire, f, slot) ==
  CASE f.atype = "callback" -> GetCallback(s, wire, f, slot)
    [] f.atype = "pointer" -> NotGot(s)
    [] f.atype = "static" -> GetStatic(s, wire, f, slot)

(* The message with a slot of it set; in a oneof the others are then empty. *)
WithSlot(fields, msg, f, slot) ==
  [tag \in DOMAIN msg |->
     IF tag = f.tag THEN slot
     ELSE IF f.htype = "oneof" /\ \E g \in FieldOf(fields, tag) : g.htype = "oneof" /\ g.union = f.union
       THEN << >> ELSE msg[tag]]

(* decode_extension: the first in the list with the tag.                    *)
ExtensionAt(slot, tag) == {i \in 1..Len(slot) : slot[i].field.tag = tag}

(* The end of pb_decode_noinit.  When the required fields fill their words  *)
(* the next word, of which none is seen, is compared with allbits >> 32.    *)
RequiredSeen(fields, seen) ==
  LET required == {f.tag : f \in RequiredFields(fields)}
  IN  required # {} => /\ required \subseteq seen
                       /\ Cardinality(required) % WordBits = 0 => allbits = "none"

(* pb_decode_noinit: s is still to be read, seen are the tags that were.    *)
StoppedAt(fields, msg, seen) ==
  IF RequiredSeen(fields, seen) THEN Got(msg, << >>) ELSE NotGot(<< >>)

ContinuedAt(fields, msg, f, seen, r) ==
  IF r.ok THEN DecodeInto(fields, r.rest, WithSlot(fields, msg, f, r.v), seen) ELSE r

ExtendedAt(fields, msg, place, i, r, seen) ==
  IF r.ok THEN DecodeInto(fields, r.rest, [msg EXCEPT ![place][i].slot = r.v], seen) ELSE r

DecodeTagged(fields, s, tag, wire, msg, seen) ==
  IF FieldOf(fields, tag) # {}
    THEN LET f == CHOOSE f \in FieldOf(fields, tag) : TRUE
         IN  ContinuedAt(fields, msg, f, seen \union {tag}, GetField(s, wire, f, msg[f.tag]))
  ELSE LET places == {g.tag : g \in {h \in Extensible(fields) : h.tag <= tag}}
           found == {p \in places : ExtensionAt(msg[p], tag) # {}}
       IN  IF found # {}
             THEN LET p == Min(found)
                      i == Min(ExtensionAt(msg[p], tag))
                  IN  ExtendedAt(fields, msg, p, i,
                                 GetField(s, wire, msg[p][i].field, msg[p][i].slot), seen)
           ELSE LET r == Skip(s, wire)
                IN  IF r.ok THEN DecodeInto(fields, r.rest, msg, seen) ELSE r

(* pb_decode_tag: [ok, v, rest, eof].  A tag that is cut short by the end,  *)
(* or zero, ends the message.                                               *)
DecodeTag(s) ==
  LET t == Varint(s, Width32)
  IN  [ok  |-> t.ok /\ t.v # 0, v |-> [tag |-> t.v \div 8, wire |-> t.v % 8], rest |-> t.rest,
       eof |-> IF t.ok THEN t.v = 0 ELSE t.rest = << >>]

(* The loop, as long as there are bytes.                                    *)
DecodeInto(fields, s, msg, seen) ==
  IF s = << >> THEN StoppedAt(fields, msg, seen)
  ELSE LET t == DecodeTag(s)
       IN  IF t.ok THEN DecodeTagged(fields, t.rest, t.v.tag, t.v.wire, msg, seen)
           ELSE IF t.eof THEN StoppedAt(fields, msg, seen)
           ELSE NotGot(t.rest)

(* pb_decode.  The list of extensions is the caller's.                      *)
NothingFound(slot) == [i \in 1..Len(slot) |-> [slot[i] EXCEPT !.slot = << >>]]
Decode(fields, s, extensions) ==
  DecodeInto(fields, s,
             [tag \in DOMAIN Defaults(fields) |->
                IF \E f \in Extensible(fields) : f.tag = tag THEN NothingFound(extensions)
                ELSE Defaults(fields)[tag]],
             {})

DecodeDelimited(fields, r, extensions) == IF r.ok THEN Decode(fields, r.v, extensions) ELSE r

-----------------------------------------------------------------------------
(* One message, sent and received.                                          *)
ExtensionsOf(fields, msg) ==
  IF Extensible(fields) = {} THEN << >> ELSE msg[(CHOOSE f \in Extensible(fields) : TRUE).tag]

Init ==
  /\ allbits \in {"all", "none"}
  /\ type \in Schemas
  /\ message \in MessagesOf(type)
  /\ reader \in ReadersOf(type)
  /\ delimited \in BOOLEAN
  /\ sent = Sizing /\ cut = 0 /\ received = NotGot(<< >>) /\ phase = "new"

(* pb_encode and pb_encode_delimited, into a buffer.                        *)
EncodeMessage ==
  /\ phase = "new"
  /\ \E room \in Rooms :
       sent' = IF delimited THEN PutSubmessage(BufferOf(room), type, message)
               ELSE Encode(BufferOf(room), type, message)
  /\ phase' = IF sent'.ok THEN "sent" ELSE "given up"
  /\ UNCHANGED <<allbits, type, message, reader, delimited, cut, received>>

(* The last bytes of it may be missing where it is read.                    *)
LoseTheEnd ==
  /\ phase = "sent"
  /\ cut < Len(sent.out)
  /\ cut' = cut + 1
  /\ UNCHANGED <<allbits, type, message, reader, delimited, sent, received, phase>>

(* pb_decode and pb_decode_delimited                                        *)
Arrived == SubSeq(sent.out, 1, Len(sent.out) - cut)
DecodeMessage ==
  /\ phase = "sent"
  /\ received' = IF delimited THEN DecodeDelimited(reader, ReadString(Arrived), ExtensionsOf(type, message))
                 ELSE Decode(reader, Arrived, ExtensionsOf(type, message))
  /\ phase' = "read"
  /\ UNCHANGED <<allbits, type, message, reader, delimited, sent, cut>>

Next == EncodeMessage \/ LoseTheEnd \/ DecodeMessage

Spec == Init /\ [][Next]_pbVars

-----------------------------------------------------------------------------
(* Properties.                                                              *)

(* What proto3 lets go of: in a message without has_, a field that is zero  *)
(* is not sent, and reads as its default.                                   *)
RECURSIVE AsRead(_, _), NoDataIn(_, _)
NoDataIn(f, slot) ==
  \A v \in ToSet(slot) :
    IF f.ltype = "submessage" THEN \A g \in ToSet(f.sub) : NoDataIn(g, v[g.tag]) ELSE v = Zero(f)
SlotAsRead(f, slot) ==
  IF f.htype = "singular" /\ NoDataIn(f, slot) THEN DefaultSlot(f)
  ELSE IF f.ltype = "submessage" THEN [i \in 1..Len(slot) |-> AsRead(f.sub, slot[i])]
  ELSE IF f.atype = "callback" /\ slot # << >> THEN <<Last(slot)>>
  ELSE slot
AsRead(fields, msg) ==
  [tag \in {f.tag : f \in ToSet(fields)} |->
     IF FieldOf(fields, tag) = {} THEN msg[tag]
     ELSE LET f == CHOOSE f \in FieldOf(fields, tag) : TRUE
          IN  IF tag \in DOMAIN msg THEN SlotAsRead(f, msg[tag]) ELSE DefaultSlot(f)]

(* The types, and the messages of them, for which that is promised: an      *)
(* array in a part without has_ does not begin with a zero before its data. *)
RECURSIVE ShowsItsData(_, _)
ShowsItsData(fields, msg) ==
  \A f \in ToSet(fields) \ Extensible(fields) :
    /\ f.htype = "repeated" /\ f.ltype # "submessage" /\ msg[f.tag] # << >> =>
         (NoDataIn(f, <<Head(msg[f.tag])>>) => NoDataIn(f, msg[f.tag]))
    /\ f.ltype = "submessage" => \A m \in ToSet(msg[f.tag]) : ShowsItsData(f.sub, m)

(* A message that was encoded and arrives whole is decoded, by any version  *)
(* of its type, to the fields sent that the version knows; one whose end is *)
(* missing is refused, or has nothing but whole fields, and entries of an   *)
(* array in their order (pb_decode on what pb_encode wrote).                *)
ReadsWhatWasSent ==
  phase = "read" /\ ShowsItsData(type, message) =>
    /\ cut = 0 /\ (Cardinality(RequiredFields(reader)) % WordBits = 0 => RequiredFields(reader) = {})
         => received.ok /\ received.v = AsRead(reader, message)
    /\ received.ok =>
         /\ delimited => cut = 0
         /\ \A f \in ToSet(reader) :
              \/ IsPrefix(received.v[f.tag], AsRead(reader, message)[f.tag])
              \/ received.v[f.tag] = DefaultSlot(f)
              \/ f.ltype = "extension"
=============================================================================
