------------------------------ MODULE MemTable ------------------------------
(***************************************************************************)
(* leveldb: the memtable and its skip list (db/skiplist.h, db/memtable.cc),*)
(* with one writer and readers that take no lock.                          *)
(*                                                                         *)
(* A node is its internal key <<user key, sequence number>>; the links of  *)
(* a node are a function from its levels to nodes.  A step is one load or  *)
(* store that another thread can tell apart.  max_height_ is read and      *)
(* written without a barrier: a reader may still get any value it has had. *)
(***************************************************************************)
EXTENDS Integers, FiniteSets, FiniteSetsExt

CONSTANTS
  UserKeys,        (* numbers                                              *)
  MaxHeight,       (* kMaxHeight                                           *)
  MaxSequence,     (* entries written                                      *)
  Readers

KeysAssumption == UserKeys \subseteq Nat /\ MaxHeight \in Nat \ {0}

VARIABLES
  next,            (* next_: node -> level -> node                         *)
  heights,         (* the values max_height_ has had                       *)
  types,           (* node -> "value" or "deletion"                        *)
  inserting,       (* Insert under way: [node, prev, level], or None       *)
  sequence,        (* last sequence number readers may use                 *)
  iter             (* reader -> [op, done, at, level, target, node, before] *)

memVars == <<next, heights, types, inserting, sequence, iter>>

Head == <<0, 0>>                          (* head_: any key will do         *)
NULL == <<0, -1>>
Junk == <<0, -2>>                         (* a link that is not written yet *)
None == [node |-> NULL]

(* InternalKeyComparator: user keys rise, sequence numbers fall.            *)
Before(a, b) == a[1] < b[1] \/ (a[1] = b[1] /\ a[2] > b[2])

Levels(h) == 0..(h - 1)
Height == Max(heights)                    (* the writer's own view          *)
Nodes == DOMAIN next \ {Head}
Linked == {n \in Nodes : inserting.node # n \/ inserting.level > 0}

(* KeyIsAfterNode: NULL is infinite.                                        *)
KeyIsAfterNode(key, n) == n # NULL /\ Before(n, key)

-----------------------------------------------------------------------------
(* The writer.  FindGreaterOrEqual, by the only thread that writes: at each *)
(* level the last node before the key, head_ above the height so far.       *)
PrevAt(key, level) ==
  LET before == {n \in Nodes : level \in DOMAIN next[n] /\ Before(n, key)}
  IN  IF before = {} THEN Head ELSE CHOOSE n \in before : \A m \in before : m = n \/ Before(m, n)

Init ==
  /\ next = [n \in {Head} |-> [l \in Levels(MaxHeight) |-> NULL]]
  /\ heights = {1}
  /\ types = << >>
  /\ inserting = None
  /\ sequence = 0
  /\ iter = [r \in Readers |-> [op |-> "next", done |-> TRUE, at |-> Head, level |-> 0, target |-> Head,
                                node |-> NULL, before |-> {}]]

(* MemTable::Add up to the node that Insert makes, of a random height.      *)
Add(user, type, h) ==
  LET node == <<user, sequence + 1>>
  IN  /\ inserting = None
      /\ sequence < MaxSequence
      /\ inserting' = [node |-> node, prev |-> [l \in Levels(h) |-> PrevAt(node, l)], level |-> 0]
      /\ heights' = heights \union (IF h > Height THEN {h} ELSE {})
      /\ next' = [n \in DOMAIN next \union {node} |-> IF n = node THEN [l \in Levels(h) |-> Junk] ELSE next[n]]
      /\ types' = [n \in DOMAIN types \union {node} |-> IF n = node THEN type ELSE types[n]]
      /\ UNCHANGED <<sequence, iter>>

(* Slip: the tall links first.                                              *)
FromTheTop(node, level) == Cardinality(DOMAIN next[node]) - 1 - level
(* The loop of Insert goes from the bottom up.                              *)
LevelToLink(node, level) == level

(* One turn of the loop: nobody can be at the node on that level before the *)
(* second store, so the two are one step.                                   *)
Link ==
  /\ inserting # None
  /\ inserting.level \in DOMAIN inserting.prev
  /\ \E l \in {LevelToLink(inserting.node, inserting.level)} :
       next' = [next EXCEPT ![inserting.node][l] = next[inserting.prev[l]][l],
                            ![inserting.prev[l]][l] = inserting.node]
  /\ inserting' = [inserting EXCEPT !.level = @ + 1]
  /\ UNCHANGED <<heights, types, sequence, iter>>

(* The writer lets readers use the entry: SetLastSequence.                  *)
AddReturns ==
  /\ inserting # None
  /\ inserting.level \notin DOMAIN inserting.prev
  /\ sequence' = inserting.node[2]
  /\ inserting' = None
  /\ UNCHANGED <<next, heights, types, iter>>

-----------------------------------------------------------------------------
(* The readers.  op is the last search, under way or done with its result   *)
(* in node.                                                                 *)
Busy(r) == ~iter[r].done

Begin(r, op, target) ==
  /\ ~Busy(r)
  /\ \E h \in heights :
       iter' = [iter EXCEPT ![r] = [@ EXCEPT !.op = op, !.done = FALSE, !.at = Head, !.level = h - 1,
                                            !.target = target, !.before = Linked]]
  /\ UNCHANGED <<next, heights, types, inserting, sequence>>

Done(r, node) == [iter[r] EXCEPT !.done = TRUE, !.node = node]
Load(r) == next[iter[r].at][iter[r].level]

(* Whether a search goes on to the node it finds on its level.              *)
GoesOn(r, n) ==
  CASE iter[r].op \in {"greater or equal", "less than"} -> KeyIsAfterNode(iter[r].target, n)
    [] iter[r].op = "last" -> n # NULL

(* What it gives at the end of level 0: the node there, or the one before.  *)
NodeOf(r, n) ==
  IF iter[r].op = "greater or equal" THEN n
  ELSE IF iter[r].at = Head THEN NULL ELSE iter[r].at

(* A turn of the loops of FindGreaterOrEqual, FindLessThan and FindLast.    *)
Step(r) ==
  /\ Busy(r)
  /\ \E n \in {Load(r)} :
       iter' = [iter EXCEPT ![r] = IF GoesOn(r, n) THEN [iter[r] EXCEPT !.at = n]
                                   ELSE IF iter[r].level > 0 THEN [iter[r] EXCEPT !.level = @ - 1]
                                   ELSE Done(r, NodeOf(r, n))]
  /\ UNCHANGED <<next, heights, types, inserting, sequence>>

(* SeekToFirst and Next are one load on level 0.                            *)
LoadNext(r, from) ==
  /\ ~Busy(r)
  /\ iter' = [iter EXCEPT ![r] = [@ EXCEPT !.op = "next", !.at = from, !.level = 0, !.target = from,
                                          !.node = next[from][0], !.before = Linked]]
  /\ UNCHANGED <<next, heights, types, inserting, sequence>>

Seek(r) == \E u \in UserKeys, s \in 0..sequence : Begin(r, "greater or equal", <<u, s>>)
SeekToFirst(r) == LoadNext(r, Head)
SeekToLast(r) == Begin(r, "last", Head)
Next_(r) == iter[r].node # NULL /\ LoadNext(r, iter[r].node)
Prev(r) == iter[r].node # NULL /\ Begin(r, "less than", iter[r].node)

(* MemTable::Get, of the seek to its LookupKey: the type of the entry that  *)
(* is found if it has the user key, and else nothing.                       *)
Get(r) ==
  IF iter[r].node # NULL /\ iter[r].node[1] = iter[r].target[1] THEN types[iter[r].node] ELSE "absent"

Next ==
  \/ \E u \in UserKeys, t \in {"value", "deletion"}, h \in 1..MaxHeight : Add(u, t, h)
  \/ Link
  \/ AddReturns
  \/ \E r \in Readers : Step(r) \/ Seek(r) \/ SeekToFirst(r) \/ SeekToLast(r) \/ Next_(r) \/ Prev(r)

Spec == Init /\ [][Next]_memVars

-----------------------------------------------------------------------------
(* No search skips an entry that was linked when it began, and what it      *)
(* finds is an entry on the right side: under any interleaving with an      *)
(* Insert, whatever height it read.                                         *)
Skipped(r) ==
  CASE iter[r].op = "greater or equal" ->
         {n \in iter[r].before : ~Before(n, iter[r].target) /\ (iter[r].node = NULL \/ Before(n, iter[r].node))}
    [] iter[r].op = "next" ->
         {n \in iter[r].before : /\ iter[r].target = Head \/ Before(iter[r].target, n)
                                 /\ iter[r].node = NULL \/ Before(n, iter[r].node)}
    [] iter[r].op = "less than" ->
         {n \in iter[r].before : Before(n, iter[r].target) /\ (iter[r].node = NULL \/ Before(iter[r].node, n))}
    [] iter[r].op = "last" ->
         {n \in iter[r].before : iter[r].node = NULL \/ Before(iter[r].node, n)}
    [] OTHER -> {}

NothingSkipped ==
  \A r \in Readers :
    /\ iter[r].at # Junk
    /\ iter[r].node \in Nodes \union {NULL}
    /\ iter[r].done => Skipped(r) = {}

(* ... nor does Get, which at a sequence number readers may use gives the   *)
(* newest entry of the key up to it, deleted or not.                        *)
Visible(user, s) == {n \in Nodes : n[1] = user /\ n[2] <= s}
GetIsRight ==
  \A r \in Readers :
    iter[r].done /\ iter[r].op = "greater or equal" =>
      Get(r) = IF Visible(iter[r].target[1], iter[r].target[2]) = {} THEN "absent"
               ELSE types[CHOOSE n \in Visible(iter[r].target[1], iter[r].target[2]) :
                            \A m \in Visible(iter[r].target[1], iter[r].target[2]) : m[2] <= n[2]]

SearchesAreRight == NothingSkipped /\ GetIsRight
=============================================================================
