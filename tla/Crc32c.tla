------------------------------- MODULE Crc32c -------------------------------
(***************************************************************************)
(* leveldb: the checksum of blocks and log records (util/crc32c.cc and     *)
(* crc32c.h), with the four tables that take four bytes in one step.       *)
(*                                                                         *)
(* A word is the set of its bits that are 1.  The machine has no           *)
(* instruction for it: port::AcceleratedCRC32C returns zero.               *)
(***************************************************************************)
EXTENDS Integers, Sequences, FiniteSets, FiniteSetsExt

CONSTANTS
  Strings,         (* data, as sequences of bytes                          *)
  Addresses        (* where they may lie, modulo 4                         *)

VARIABLES
  pval,            (* the address of the buffer                            *)
  data,
  first,           (* bytes the first of two calls of Extend gets          *)
  p, e,            (* bytes done, and the end for this call                *)
  l,
  pc

crcVars == <<pval, data, first, p, e, l, pc>>

Word == 0..31
AllOnes == Word                                (* 0xffffffff               *)
XOR(a, b) == (a \ b) \union (b \ a)
ShiftRight(w, n) == {i - n : i \in {j \in w : j >= n}}
ShiftLeft(w, n) == {i + n : i \in {j \in w : j + n <= 31}}

(* Words and the numbers of their two halves.                               *)
Part(w, from, bits) == MapThenSumSet(LAMBDA i : 2 ^ (i - from), w \intersect (from..(from + bits - 1)))
BitsOf(v) == {i \in 0..15 : (v \div 2 ^ i) % 2 = 1}
WordOf(low, high) == BitsOf(low % 65536) \union ShiftLeft(BitsOf(high % 65536), 16)
Plus(a, b) == LET low == Part(a, 0, 16) + Part(b, 0, 16)
              IN  WordOf(low, Part(a, 16, 16) + Part(b, 16, 16) + (low \div 65536))
Minus(a, b) == Plus(Plus(a, AllOnes \ b), {0})

(* The division by the polynomial of CRC-32C, bit by bit.                   *)
Polynomial == {3, 4, 5, 6, 8, 9, 11, 12, 13, 17, 18, 20, 21, 22, 23, 25, 31}
BitStep(w) == IF 0 \in w THEN XOR(ShiftRight(w, 1), Polynomial) ELSE ShiftRight(w, 1)
Only(S) == CHOOSE w \in S : TRUE
Divided(w, bits) ==
  LET left[i \in 0..bits] == IF i = 0 THEN {w} ELSE {BitStep(v) : v \in left[i - 1]} IN Only(left[bits])

(* The tables: what is left of a byte after 8, 16, 24 and 32 bits.          *)
table0_ == [c \in 0..255 |-> Divided(BitsOf(c), 8)]
Further(table) == [c \in 0..255 |-> XOR(table0_[Part(table[c], 0, 8)], ShiftRight(table[c], 8))]
table1_ == Further(table0_)
table2_ == Further(table1_)
table3_ == Further(table2_)

-----------------------------------------------------------------------------
(* Extend.                                                                  *)
LE_LOAD32(q) == WordOf(data[q + 1] + (data[q + 2] * 256), data[q + 3] + (data[q + 4] * 256))
STEP1(w, q) == XOR(table0_[Part(XOR(w, BitsOf(data[q + 1])), 0, 8)], ShiftRight(w, 8))
(* Slip: the tables of the middle bytes are swapped.                        *)
Swapped(c) ==
  XOR(XOR(table3_[Part(c, 0, 8)], table1_[Part(c, 8, 8)]), XOR(table2_[Part(c, 16, 8)], table0_[Part(c, 24, 8)]))
Combined(c) ==
  XOR(XOR(table3_[Part(c, 0, 8)], table2_[Part(c, 8, 8)]), XOR(table1_[Part(c, 16, 8)], table0_[Part(c, 24, 8)]))
STEP4(w, q) == Combined(XOR(w, LE_LOAD32(q)))

(* The first aligned byte may be past the end.                              *)
x == (((pval + p + 3) \div 4) * 4) - pval
Align ==
  /\ pc = "align"
  /\ IF p # x /\ x <= e THEN l' = STEP1(l, p) /\ p' = p + 1 /\ UNCHANGED pc
     ELSE pc' = "sixteen" /\ UNCHANGED <<l, p>>
  /\ UNCHANGED <<pval, data, first, e>>
Sixteen ==
  /\ pc = "sixteen"
  /\ IF e - p >= 16
     THEN /\ \E w1 \in {STEP4(l, p)} : \E w2 \in {STEP4(w1, p + 4)} : \E w3 \in {STEP4(w2, p + 8)} : l' = STEP4(w3, p + 12)
          /\ p' = p + 16 /\ UNCHANGED pc
     ELSE pc' = "four" /\ UNCHANGED <<l, p>>
  /\ UNCHANGED <<pval, data, first, e>>
Four ==
  /\ pc = "four"
  /\ IF e - p >= 4 THEN l' = STEP4(l, p) /\ p' = p + 4 /\ UNCHANGED pc
     ELSE pc' = "last" /\ UNCHANGED <<l, p>>
  /\ UNCHANGED <<pval, data, first, e>>
LastBytes ==
  /\ pc = "last" /\ p # e
  /\ l' = STEP1(l, p) /\ p' = p + 1
  /\ UNCHANGED <<pval, data, first, e, pc>>

(* The crc of a part is handed to the call for the rest.                    *)
Returned == XOR(l, AllOnes)
Extend ==
  /\ pc = "last" /\ p = e /\ e < Len(data)
  /\ l' = XOR(Returned, AllOnes) /\ e' = Len(data) /\ pc' = "align"
  /\ UNCHANGED <<pval, data, first, p>>
Return ==
  /\ pc = "last" /\ p = e /\ e = Len(data)
  /\ pc' = "done"
  /\ UNCHANGED <<pval, data, first, p, e, l>>

(* A crc that is stored is rotated and moved.                               *)
kMaskDelta == {3, 4, 6, 7, 9, 11, 13, 14, 15, 17, 23, 25, 29, 31}     (* 0xa282ead8 *)
Mask(crc) == Plus(ShiftRight(crc, 15) \union ShiftLeft(crc, 17), kMaskDelta)
Rotated(rot) == ShiftRight(rot, 17) \union ShiftLeft(rot, 15)
Unmask(masked) == Rotated(Minus(masked, kMaskDelta))

Init ==
  /\ pval \in Addresses /\ data \in Strings /\ first \in {0, Len(data) \div 3, Len(data)}
  /\ p = 0 /\ e = first
  /\ l = XOR({}, AllOnes)
  /\ pc = "align"

Next == Align \/ Sixteen \/ Four \/ LastBytes \/ Extend \/ Return

Spec == Init /\ [][Next]_crcVars

-----------------------------------------------------------------------------
(* Wherever the data lies and however it is cut into calls, the crc is what *)
(* the bit by bit division gives for the whole, so that a writer and a      *)
(* reader with other buffers agree; a byte that is damaged changes it; and  *)
(* the stored form gives it back and differs from it.                       *)
Crc(s) ==
  LET left[i \in 0..Len(s)] == IF i = 0 THEN {AllOnes} ELSE {Divided(XOR(v, BitsOf(s[i])), 8) : v \in left[i - 1]}
  IN  XOR(Only(left[Len(s)]), AllOnes)
CrcIsOfTheData ==
  pc = "done" =>
    /\ Returned = Crc(data)
    /\ \A i \in DOMAIN data : Crc([data EXCEPT ![i] = 255 - @]) # Returned
    /\ Unmask(Mask(Returned)) = Returned /\ Mask(Returned) # Returned
=============================================================================
