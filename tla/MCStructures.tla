---------------------------- MODULE MCStructures ----------------------------
(***************************************************************************)
(* The data structures and the files, and the iterators and the encodings, *)
(* in one run: a behaviour is one of one of the modules, which part or     *)
(* codec names.  The iterators share the variables of MCCodecs.            *)
(***************************************************************************)
EXTENDS Structures, MCCodecs

CONSTANTS t1, t2, u1, one, other

(* Two threads of a process and one of another.                             *)
MCProcessOf == [t \in {t1, t2, u1} |-> IF t = u1 THEN other ELSE one]
SameHash(key) == key

-----------------------------------------------------------------------------
(* Iterators and lookups.  The bytes are 0, 1 and 2, which is the last one. *)
Users == {<<0>>, <<0, 1>>, <<2>>}
Turned(user) == <<3 * user[1] + 5 * Len(user), 1 + 2 * user[1]>>
Entry(user, stamp, type) == Append(user, 8 * stamp + type)

(* Two versions of every key, their types given; the layout says which of   *)
(* the entries 1..6 are in memory, at level 0 and in two files at level 1.  *)
Written(t) == <<Entry(<<0>>, 1, t[1]), Entry(<<0, 1>>, 2, t[2]), Entry(<<2>>, 3, t[3]),
                Entry(<<2>>, 4, t[4]), Entry(<<0, 1>>, 5, t[5]), Entry(<<0>>, 6, t[6])>>
OfEntries(t, numbers) == {Written(t)[n] : n \in numbers}
Layout(t, mem, upper, low, high, snapshot) ==
  [mem |-> OfEntries(t, mem), sequence |-> snapshot,
   files |-> <<OfEntries(t, upper), OfEntries(t, low), OfEntries(t, high)>>,
   levels |-> <<IF upper = {} THEN << >> ELSE <<1>>,
                (IF low = {} THEN << >> ELSE <<2>>) \o IF high = {} THEN << >> ELSE <<3>>>>]
Types == [1..6 -> {0, 1}]
Layouts ==
  {Layout(t, {}, {}, 1..6, {}, s) : t \in Types, s \in {6, 4}}                 \* one table
  \union {Layout(t, {6}, {4, 5}, {1, 2}, {3}, s) : t \in Types, s \in {6, 4}}  \* every kind of child
  \union {Layout(t, {5}, {}, {1, 6, 2}, {3, 4}, 5) : t \in Types}              \* memory between files
  \union {Layout(t, {}, 2..6, {1}, {}, 6) : t \in Types}                       \* shortened index keys
  \union {Layout([n \in 1..6 |-> IF n = bad THEN 2 ELSE 1], {}, {4, 5, 6}, {1, 2, 3}, {}, 6) : bad \in 1..6}
Whole == Layout([n \in 1..6 |-> 1], {}, {5, 6}, {1, 2}, {3, 4}, 6)
Overfull == [Whole EXCEPT !.files[1] = @ \union {Entry(<<1>>, n, 1) : n \in 7..13}, !.sequence = 13]
AllStores == Layouts \union {Whole, Overfull}
Good == [file |-> 0, block |-> 0, entry |-> 0]
DamagesIn(s) == IF s = Whole THEN [file : {1, 2}, block : 0..2, entry : 0..2] ELSE {Good}

Iter == INSTANCE Iterators WITH TopByte <- 2, BlockSize <- 14, RestartInterval <- 2, Blocks <- 5, FilterBase <- 16,
  BitsPerKey <- 2, Probes <- 2, MinBits <- 8, HashOf <- Turned, Stores <- AllStores, DamagesOf <- DamagesIn,
  Targets <- Users \union {<<1>>}, memtable <- v1, files <- v2, levels <- v3, damage <- v4, sequence <- v5, db <- v6,
  expected <- v7, found <- v8, offsets <- v9

-----------------------------------------------------------------------------
MCInit ==
  /\ StructuresInit
  /\ \/ part # "none" /\ codec = "none" /\ v1 = 0 /\ v2 = 0 /\ ZeroAfterTwo
     \/ part = "none" /\ codec = "iterators" /\ Iter!Init /\ ZeroAfterNine
     \/ part = "none" /\ CodecsInit

OneCodec ==
  \/ codec = "iterators" /\ Iter!Step /\ UNCHANGED AfterNine
  \/ CodecsNext

MCNext ==
  \/ StructuresNext /\ UNCHANGED <<codec, Shared>>
  \/ OneCodec /\ UNCHANGED <<codec, structuresVars>>

MCSpec == MCInit /\ [][MCNext]_<<structuresVars, codec, Shared>>

-----------------------------------------------------------------------------
(* The database iterator and the lookups of a table show what the snapshot  *)
(* shows, or tell that they could not read.                                 *)
ReadsAreRightOrTell ==
  codec = "iterators" => Iter!IteratorIsRightOrTells /\ Iter!LookupIsRightOrTells

=============================================================================
