------------------------------- MODULE Cache -------------------------------
(***************************************************************************)
(* leveldb: the LRU cache of shards (util/cache.cc), as the cache of open  *)
(* tables (db/table_cache.cc), shared by threads.                          *)
(*                                                                         *)
(* An entry is known by a number.  A step holds the mutex of one shard.  A *)
(* table that is open stays so until the deleter of its entry runs.        *)
(***************************************************************************)
EXTENDS Integers, Sequences, FiniteSets, FiniteSetsExt, SequencesExt, Functions

CONSTANTS
  Threads,
  Keys,            (* file numbers                                         *)
  HashOf(_),       (* key -> hash                                          *)
  Shards,          (* kNumShards                                           *)
  Capacity,        (* entries the table cache may have                     *)
  FirstLength,     (* buckets a table starts with                          *)
  MaxEntries       (* tables opened                                        *)

VARIABLES
  entries,         (* [key, in_cache, refs, closed]: deleter's calls       *)
  shard,           (* [length, list, lru, in_use, usage] of each           *)
  thread,          (* [op, key, entry]                                     *)
  destroyed

cacheVars == <<entries, shard, thread, destroyed>>

NULL == 0
Shard(key) == (HashOf(key) % Shards) + 1
CapacityOfShard == (Capacity + (Shards - 1)) \div Shards
Charge == 1                               (* of a table                    *)

-----------------------------------------------------------------------------
(* HandleTable: list has a chain of entries for each bucket.                *)
Bucket(s, key) == (HashOf(key) \div Shards) % s.length
Chain(s, key) == s.list[Bucket(s, key)]
Find(s, key) ==
  LET at == {i \in DOMAIN Chain(s, key) : entries[Chain(s, key)[i]].key = key}
  IN  IF at = {} THEN NULL ELSE Chain(s, key)[Min(at)]

Elems(s) == MapThenSumSet(LAMBDA b : Len(s.list[b]), DOMAIN s.list)
WithChain(s, key, chain) == [s EXCEPT !.list[Bucket(s, key)] = chain]

(* Resize takes the chains in order and puts each entry first in its new    *)
(* one.                                                                     *)
NewLength(n) == CHOOSE l \in {FirstLength * 2 ^ i : i \in 0..n} : l >= n /\ (l = FirstLength \/ l \div 2 < n)
ChainsOf(s) == FlattenSeq([b \in 1..s.length |-> s.list[b - 1]])
(* Slip: the chains stay where they are.                                    *)
Lengthen(s, made, n) ==
  [s EXCEPT !.length = NewLength(n),
            !.list = [b \in 0..(NewLength(n) - 1) |-> IF b < s.length THEN s.list[b] ELSE << >>]]
Resize(s, made, n) ==
  FoldLeft(LAMBDA t, e : WithChain(t, made[e].key, <<e>> \o Chain(t, made[e].key)),
           [s EXCEPT !.length = NewLength(n), !.list = [b \in 0..(NewLength(n) - 1) |-> << >>]], ChainsOf(s))

(* made are the entries with the new one, which takes the place of old.     *)
InsertIntoTable(s, made, e, old) ==
  LET key == made[e].key
      chain == Chain(s, key)
  IN  IF old # NULL THEN WithChain(s, key, [i \in DOMAIN chain |-> IF chain[i] = old THEN e ELSE chain[i]])
      ELSE IF Elems(s) + 1 > s.length THEN Resize(WithChain(s, key, Append(chain, e)), made, Elems(s) + 1)
      ELSE WithChain(s, key, Append(chain, e))
RemoveFromTable(s, e) == WithChain(s, entries[e].key, SelectSeq(Chain(s, entries[e].key), LAMBDA x : x # e))

-----------------------------------------------------------------------------
(* LRUCache.  A list is a sequence, the oldest first.                       *)
LRU_Remove(list, e) == SelectSeq(list, LAMBDA x : x # e)
LRU_Append(list, e) == Append(list, e)

Ref(s, e) ==
  IF entries[e].refs = 1 /\ entries[e].in_cache
  THEN [s EXCEPT !.lru = LRU_Remove(@, e), !.in_use = LRU_Append(@, e)]
  ELSE s

(* What Unref leaves of an entry, and of its shard.                         *)
Unreferenced(h) == [h EXCEPT !.refs = @ - 1, !.closed = IF h.refs = 1 THEN @ + 1 ELSE @]
Unref(s, e) ==
  IF entries[e].in_cache /\ entries[e].refs = 2
  THEN [s EXCEPT !.in_use = LRU_Remove(@, e), !.lru = LRU_Append(@, e)]
  ELSE s

(* Slip: the reference of the cache is kept.                                *)
OnlyOutOfCache(h) == [h EXCEPT !.in_cache = FALSE]
(* FinishErase of entries that are out of the table.                        *)
Erased(h) == Unreferenced([h EXCEPT !.in_cache = FALSE])
EntriesErased(hs, gone) == [e \in DOMAIN hs |-> IF e \in gone THEN Erased(hs[e]) ELSE hs[e]]
FinishErase(s, gone) ==
  [s EXCEPT !.lru = SelectSeq(@, LAMBDA x : x \notin gone), !.in_use = SelectSeq(@, LAMBDA x : x \notin gone),
            !.usage = @ - Charge * Cardinality(gone)]

(* Slip: the capacity is for tables that nobody uses.                       *)
TooManyUnused(s) == Max({0, Len(s.lru) - CapacityOfShard})
(* The loop at the end of Insert: the oldest that nobody uses.              *)
TooMany(s) == Max({0, Min({Len(s.lru), (s.usage - CapacityOfShard + Charge - 1) \div Charge})})
Oldest(s) == {s.lru[i] : i \in 1..TooMany(s)}
WithoutAll(s, gone) == [s EXCEPT !.list = [b \in DOMAIN @ |-> SelectSeq(@[b], LAMBDA x : x \notin gone)]]
Evict(s, hs, gone) == shard' = [shard EXCEPT ![Shard(hs[Len(hs)].key)] = FinishErase(WithoutAll(s, gone), gone)]
                      /\ entries' = EntriesErased(hs, gone)

NewHandle(key) ==
  IF CapacityOfShard > 0 THEN [key |-> key, in_cache |-> TRUE, refs |-> 2, closed |-> 0]
  ELSE [key |-> key, in_cache |-> FALSE, refs |-> 1, closed |-> 0]

(* Insert: into the table and the list, over an entry of the same key.      *)
Listed(s, made, e, old) ==
  [InsertIntoTable(s, made, e, old) EXCEPT !.in_use = LRU_Append(@, e), !.usage = @ + Charge]
Cached(s, made, old) ==
  IF CapacityOfShard > 0 THEN FinishErase(Listed(s, made, Len(made), old), {old} \ {NULL}) ELSE s
InsertHandle(key) ==
  \E s \in {shard[Shard(key)]}, made \in {Append(entries, NewHandle(key))} : \E old \in {Find(s, key)} :
    \E t \in {Cached(s, made, old)} : Evict(t, EntriesErased(made, {old} \ {NULL}), Oldest(t))

-----------------------------------------------------------------------------
Idle == [op |-> "idle", key |-> NULL, entry |-> NULL]
EmptyShard ==
  [length |-> FirstLength, list |-> [b \in 0..(FirstLength - 1) |-> << >>], lru |-> << >>, in_use |-> << >>, usage |-> 0]

Init ==
  /\ entries = << >>
  /\ shard = [i \in 1..Shards |-> EmptyShard]
  /\ thread = [t \in Threads |-> Idle]
  /\ destroyed = FALSE

(* FindTable: what Lookup finds, or the file has to be opened first.        *)
FindTable(t, key) ==
  /\ ~destroyed /\ thread[t] = Idle
  /\ \E e \in {Find(shard[Shard(key)], key)} :
       IF e # NULL
       THEN /\ shard' = [shard EXCEPT ![Shard(key)] = Ref(@, e)]
            /\ entries' = [entries EXCEPT ![e].refs = @ + 1]
            /\ thread' = [thread EXCEPT ![t] = [op |-> "uses", key |-> key, entry |-> e]]
       ELSE /\ Len(entries) < MaxEntries
            /\ thread' = [thread EXCEPT ![t] = [op |-> "opens", key |-> key, entry |-> NULL]]
            /\ UNCHANGED <<entries, shard>>
  /\ UNCHANGED destroyed

(* An error is not cached.                                                  *)
OpenFails(t) ==
  /\ thread[t].op = "opens"
  /\ thread' = [thread EXCEPT ![t] = Idle]
  /\ UNCHANGED <<entries, shard, destroyed>>

OpenedTable(t) ==
  /\ thread[t].op = "opens"
  /\ Len(entries) < MaxEntries
  /\ InsertHandle(thread[t].key)
  /\ thread' = [thread EXCEPT ![t].op = "uses", ![t].entry = Len(entries) + 1]
  /\ UNCHANGED destroyed

(* The end of Get, and of an iterator by its cleanup.                       *)
Release(t) ==
  /\ thread[t].op = "uses"
  /\ \E e \in {thread[t].entry} :
       /\ shard' = [shard EXCEPT ![Shard(entries[e].key)] = Unref(@, e)]
       /\ entries' = [entries EXCEPT ![e] = Unreferenced(@)]
  /\ thread' = [thread EXCEPT ![t] = Idle]
  /\ UNCHANGED destroyed

(* Evict of a table whose file is deleted.                                  *)
Erase(t, key) ==
  /\ ~destroyed /\ thread[t] = Idle
  /\ \E e \in {Find(shard[Shard(key)], key)} :
       /\ e # NULL
       /\ shard' = [shard EXCEPT ![Shard(key)] = FinishErase(RemoveFromTable(@, e), {e})]
       /\ entries' = EntriesErased(entries, {e})
  /\ UNCHANGED <<thread, destroyed>>

(* Prune goes from shard to shard, whose mutex it takes in turn.            *)
PruneShard(t, i) ==
  /\ thread[t].op = "prunes" /\ thread[t].key = i
  /\ \E gone \in {ToSet(shard[i].lru)} :
       /\ shard' = [shard EXCEPT ![i] = FinishErase(WithoutAll(@, gone), gone)]
       /\ entries' = EntriesErased(entries, gone)
  /\ thread' = [thread EXCEPT ![t] = IF i = Shards THEN Idle ELSE [@ EXCEPT !.key = i + 1]]
  /\ UNCHANGED destroyed
Prune(t) ==
  /\ ~destroyed /\ thread[t] = Idle
  /\ thread' = [thread EXCEPT ![t] = [op |-> "prunes", key |-> 1, entry |-> NULL]]
  /\ UNCHANGED <<entries, shard, destroyed>>

(* ~LRUCache, when no handle is in use any more.                            *)
Destroy ==
  /\ ~destroyed /\ \A t \in Threads : thread[t] = Idle
  /\ \E gone \in {UNION {ToSet(shard[i].lru) : i \in DOMAIN shard}} : entries' = EntriesErased(entries, gone)
  /\ shard' = [i \in DOMAIN shard |-> EmptyShard]
  /\ destroyed' = TRUE
  /\ UNCHANGED thread

Next ==
  \/ \E t \in Threads, key \in Keys : FindTable(t, key) \/ Erase(t, key)
  \/ \E t \in Threads : OpenFails(t) \/ OpenedTable(t) \/ Release(t) \/ Prune(t)
  \/ \E t \in Threads, i \in 1..Shards : PruneShard(t, i)
  \/ Destroy

Spec == Init /\ [][Next]_cacheVars

-----------------------------------------------------------------------------
Users(e) == {t \in Threads : thread[t].entry = e}
CachedIn(i) == {e \in DOMAIN entries : entries[e].in_cache /\ Shard(entries[e].key) = i}

(* A table is open as long as a thread uses it or the cache has it, and it  *)
(* is closed once, whoever lets go of it last: a thread, an eviction, an    *)
(* Evict, an insertion of the same key by a thread that missed it too.      *)
TablesInUseAreOpen ==
  \A e \in DOMAIN entries :
    /\ entries[e].refs = Cardinality(Users(e)) + (IF entries[e].in_cache THEN 1 ELSE 0)
    /\ entries[e].closed = IF entries[e].refs = 0 THEN 1 ELSE 0

(* What is in the cache is found, once, by its key, through any growth of   *)
(* the hash table; is in one of the lists, the one that tells whether it is *)
(* used.  Insert leaves a shard within its capacity, or with tables that    *)
(* are all in use: later it may have more than its capacity, with tables    *)
(* that nobody uses any more, but never more than threads can use.          *)
FoundByKey(i) == \A e \in CachedIn(i) : Find(shard[i], entries[e].key) = e
CacheIsConsistent ==
  \A i \in 1..Shards :
    /\ FoundByKey(i)
    /\ Cardinality(CachedIn(i)) = Elems(shard[i])
    /\ ToSet(shard[i].lru) = {e \in CachedIn(i) : entries[e].refs = 1}
    /\ ToSet(shard[i].in_use) = {e \in CachedIn(i) : entries[e].refs > 1}
    /\ shard[i].usage = Charge * Cardinality(CachedIn(i))
    /\ shard[i].usage <= Max({CapacityOfShard, Charge * Cardinality(Threads)})
=============================================================================
