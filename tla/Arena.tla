------------------------------- MODULE Arena --------------------------------
(***************************************************************************)
(* leveldb: the arena that a memtable takes its memory from (util/arena.cc,*)
(* util/arena.h): nodes of the skip list aligned, entries not.             *)
(*                                                                         *)
(* A pointer is a number, 0 is NULL.  new char[] gives aligned memory that *)
(* nothing else has.                                                       *)
(***************************************************************************)
EXTENDS Integers, Sequences, FiniteSets, SequencesExt

CONSTANTS
  kBlockSize,
  align,           (* of a pointer                                         *)
  PointerSize,     (* what memory_usage_ counts for an element of blocks_  *)
  Sizes,           (* that are asked for                                   *)
  Gaps,            (* that malloc leaves, in units of align                *)
  MaxAllocations

SizesAssumption == Sizes \subseteq Nat \ {0} /\ Gaps \subseteq Nat /\ PointerSize \in Nat
AlignAssumption == align \in Nat \ {0} /\ kBlockSize \in Nat /\ kBlockSize % align = 0

VARIABLES
  alloc_ptr_, alloc_bytes_remaining_,
  blocks_,         (* sequence of [at, bytes]                              *)
  memory_usage_,
  given            (* what was returned: [at, bytes, aligned]              *)

arenaVars == <<alloc_ptr_, alloc_bytes_remaining_, blocks_, memory_usage_, given>>

Init == alloc_ptr_ = 0 /\ alloc_bytes_remaining_ = 0 /\ blocks_ = << >> /\ memory_usage_ = 0 /\ given = {}

-----------------------------------------------------------------------------
End(block) == block.at + block.bytes
Top == IF blocks_ = << >> THEN align ELSE End(Last(blocks_))
Aligned(p) == p % align = 0
Slop(p) == IF Aligned(p) THEN 0 ELSE align - (p % align)

AllocateNewBlock(at, bytes) ==
  /\ blocks_' = Append(blocks_, [at |-> at, bytes |-> bytes])
  /\ memory_usage_' = memory_usage_ + bytes + PointerSize

Return(at, bytes, aligned) == given' = given \union {[at |-> at, bytes |-> bytes, aligned |-> aligned]}
FreeMemory == {Top + Slop(Top) + gap * align : gap \in Gaps}

(* What is too large for a block gets one to itself and the current block   *)
(* goes on; else what the current block had left is wasted.                 *)
OfItsOwn(bytes) == bytes > kBlockSize \div 4
AllocateFallback(bytes, aligned) ==
  \E at \in FreeMemory :
    /\ Return(at, bytes, aligned)
    /\ \/ /\ OfItsOwn(bytes)
          /\ AllocateNewBlock(at, bytes)
          /\ UNCHANGED <<alloc_ptr_, alloc_bytes_remaining_>>
       \/ /\ ~OfItsOwn(bytes)
          /\ AllocateNewBlock(at, kBlockSize)
          /\ alloc_ptr_' = at + bytes
          /\ alloc_bytes_remaining_' = kBlockSize - bytes

FromTheBlock(needed) ==
  /\ alloc_ptr_' = alloc_ptr_ + needed
  /\ alloc_bytes_remaining_' = alloc_bytes_remaining_ - needed
  /\ UNCHANGED <<blocks_, memory_usage_>>

Allocate(bytes) ==
  \/ bytes <= alloc_bytes_remaining_ /\ Return(alloc_ptr_, bytes, FALSE) /\ FromTheBlock(bytes)
  \/ bytes > alloc_bytes_remaining_ /\ AllocateFallback(bytes, FALSE)

(* Slip: the bytes skipped are not part of what is needed.                  *)
WithoutSlop(bytes) == bytes
Needed(bytes) == bytes + Slop(alloc_ptr_)
AllocateAligned(bytes) ==
  \/ /\ Needed(bytes) <= alloc_bytes_remaining_
     /\ Return(alloc_ptr_ + Slop(alloc_ptr_), bytes, TRUE)
     /\ FromTheBlock(Needed(bytes))
  \/ Needed(bytes) > alloc_bytes_remaining_ /\ AllocateFallback(bytes, TRUE)

Next ==
  /\ Cardinality(given) < MaxAllocations
  /\ \E bytes \in Sizes : Allocate(bytes) \/ AllocateAligned(bytes)

Spec == Init /\ [][Next]_arenaVars

-----------------------------------------------------------------------------
(* No two of the pieces that Allocate and AllocateAligned returned share a  *)
(* byte, each lies in one block, the aligned ones are aligned, and what the *)
(* arena says it uses is what it has taken.                                 *)
Apart(a, b) == End(a) <= b.at \/ End(b) <= a.at
Usage(blocks) ==
  LET used[i \in 0..Len(blocks)] == IF i = 0 THEN 0 ELSE used[i - 1] + blocks[i].bytes + PointerSize
  IN  used[Len(blocks)]
Within(a, block) == block.at <= a.at /\ End(a) <= End(block)
PiecesAreApart ==
  /\ \A a, b \in given : a = b \/ Apart(a, b)
  /\ \A a \in given : (\E i \in DOMAIN blocks_ : Within(a, blocks_[i])) /\ (a.aligned => Aligned(a.at))
  /\ memory_usage_ = Usage(blocks_)
=============================================================================
