------------------------------- MODULE PbField -------------------------------
(***************************************************************************)
(* nanopb: the description of a message type (pb.h, pb_common.c).          *)
(*                                                                         *)
(* A field, pb_field_t, is [tag, ltype, htype, atype, size, max, union,    *)
(* sub, default]: size is the width in bits of a number and data_size      *)
(* otherwise, max the array_size, sub or default what ptr points to.  A    *)
(* type is the sequence of its fields.                                     *)
(***************************************************************************)
EXTENDS Integers, Sequences, FiniteSets, SequencesExt

(* The pb_field_t that PB_FIELD and PB_ONEOF_FIELD declare.                 *)
LTypeOf ==
  [BOOL |-> "varint", ENUM |-> "varint", INT32 |-> "varint", INT64 |-> "varint",
   UENUM |-> "uvarint", UINT32 |-> "uvarint", UINT64 |-> "uvarint",
   SINT32 |-> "svarint", SINT64 |-> "svarint",
   FIXED32 |-> "fixed32", SFIXED32 |-> "fixed32", FLOAT |-> "fixed32",
   FIXED64 |-> "fixed64", SFIXED64 |-> "fixed64", DOUBLE |-> "fixed64",
   BYTES |-> "bytes", STRING |-> "string", FIXED_LENGTH_BYTES |-> "fixed bytes",
   MESSAGE |-> "submessage", EXTENSION |-> "extension"]

(* An optional extension is marked as required: it has no has_ of its own.  *)
HTypeOf(rules, allocation) ==
  IF rules = "optext" THEN IF allocation = "static" THEN "required" ELSE "optional" ELSE rules

PB_FIELD(tag, kind, rules, allocation, size, max, ptr) ==
  [tag |-> tag, ltype |-> LTypeOf[kind], htype |-> HTypeOf(rules, allocation),
   atype |-> allocation, size |-> size, max |-> max, union |-> 0,
   sub |-> IF kind = "MESSAGE" THEN ptr ELSE << >>,
   default |-> IF kind = "MESSAGE" THEN << >> ELSE ptr]

PB_ONEOF_FIELD(union, tag, kind, size, ptr) ==
  [PB_FIELD(tag, kind, "oneof", "static", size, 0, ptr) EXCEPT !.union = union]

RequiredFields(fields) == {f \in ToSet(fields) : f.htype = "required"}

(* The places of extensions have the tag of the first they may hold.        *)
Extensible(fields) == {f \in ToSet(fields) : f.ltype = "extension"}
FieldOf(fields, tag) == {f \in ToSet(fields) \ Extensible(fields) : f.tag = tag}
=============================================================================
