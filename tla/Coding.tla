------------------------------- MODULE Coding -------------------------------
(***************************************************************************)
(* leveldb: the integers and strings that every file of a database is made *)
(* of (util/coding.cc and coding.h) and the decimal numbers of file names  *)
(* (util/logging.cc).                                                      *)
(*                                                                         *)
(* Bytes are numbers and a slice is a sequence of them.  Widths are        *)
(* parameters: in the code a byte is 8 bits, a digit of a varint 7, words  *)
(* are of 4 and 8 bytes, and a varint has up to 5 or 10 digits, the last   *)
(* of which is wider than what is left of the word.                        *)
(***************************************************************************)
EXTENDS Integers, Sequences, FiniteSets, SequencesExt

CONSTANTS
  Base,            (* of a varint's digits; a byte is below 2 * Base       *)
  Size32, Size64,              (* bytes of a word                          *)
  Digits32, Digits64           (* digits of a varint                       *)

Byte == 2 * Base
Max32 == Byte ^ Size32 - 1
Max64 == Byte ^ Size64 - 1

-----------------------------------------------------------------------------
(* Words of a fixed size, low byte first.                                   *)
EncodeFixed(v, size) == [i \in 1..size |-> (v \div Byte ^ (i - 1)) % Byte]
EncodeFixed32(v) == EncodeFixed(v, Size32)
EncodeFixed64(v) == EncodeFixed(v, Size64)
DecodeFixed(s) == FoldRight(LAMBDA b, v : (v * Byte) + b, s, 0)
DecodeFixed32(s) == DecodeFixed(SubSeq(s, 1, Size32))
DecodeFixed64(s) == DecodeFixed(SubSeq(s, 1, Size64))

(* Varints: all digits but the last have the high bit.                      *)
VarintLength(v) == CHOOSE n \in 1..Digits64 : v < Base ^ n /\ (n = 1 \/ v >= Base ^ (n - 1))
PutVarint(v) ==
  [i \in 1..VarintLength(v) |-> ((v \div Base ^ (i - 1)) % Base) + (IF i < VarintLength(v) THEN Base ELSE 0)]

(* What a Get returns: the value and what follows it, or nothing.           *)
NotThere(in) == [ok |-> FALSE, value |-> 0, rest |-> in]
There(v, in, n) == [ok |-> TRUE, value |-> v, rest |-> SubSeq(in, n + 1, Len(in))]

Ends(in, digits) == {n \in 1..digits : n <= Len(in) /\ in[n] < Base /\ \A i \in 1..(n - 1) : in[i] >= Base}
Value(in, n) == FoldRight(LAMBDA b, v : (v * Base) + (b % Base), SubSeq(in, 1, n), 0)
GetVarintOf(in, digits, max) ==
  IF Ends(in, digits) = {} THEN NotThere(in)
  ELSE LET n == CHOOSE n \in Ends(in, digits) : TRUE IN There(Value(in, n) % (max + 1), in, n)
GetVarint32(in) == GetVarintOf(in, Digits32, Max32)
(* Slip: the loop stops a digit early.                                      *)
GetShortVarint64(in) == GetVarintOf(in, Digits64 - 1, Max64)
GetVarint64(in) == GetVarintOf(in, Digits64, Max64)

PutLengthPrefixedSlice(s) == PutVarint(Len(s)) \o s
GetLengthPrefixedSlice(in) ==
  LET len == GetVarint32(in)
  IN  IF ~len.ok \/ len.value > Len(len.rest) THEN NotThere(in)
      ELSE There(SubSeq(len.rest, 1, len.value), len.rest, len.value)

-----------------------------------------------------------------------------
(* Decimal digits up to the first character that is none; a number beyond   *)
(* the width is refused before it is made.                                  *)
AddDigit(r, delta) ==
  IF ~r.ok \/ r.v > Max64 \div 10 \/ (r.v = Max64 \div 10 /\ delta > Max64 % 10)
  THEN [r EXCEPT !.ok = FALSE]
  ELSE [r EXCEPT !.v = (@ * 10) + delta]
ConsumeDecimalNumber(digits) ==
  LET r == FoldLeft(AddDigit, [ok |-> TRUE, v |-> 0], digits)
  IN  [ok |-> r.ok /\ digits # << >>, value |-> r.v]
=============================================================================
