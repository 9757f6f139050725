---------------------------- MODULE LsmTreeProofs ----------------------------
(* The levels of leveldb stay in order (LsmTree!TreeIsInOrder): files of a  *)
(* level above 0 never share a key, and of two entries of a user key the    *)
(* newer one is always in front, in a memtable, in a younger level-0 file   *)
(* or in a lower level.  And reads are right (LsmTree!ReadsAreRight): they  *)
(* give the last value written, or at a snapshot the last one when it was   *)
(* taken, whatever is flushed, moved, merged or dropped.  Both proved for   *)
(* any numbers of levels, keys, writes, snapshots and files, under two      *)
(* hypotheses that the model shows to be needed: no snapshot is open when a *)
(* compaction is picked (MCStaleRead is a run of the code in which one is), *)
(* and no range is compacted by hand (CompactRange takes level-0 files that *)
(* its level-1 inputs do not cover).  The Firebase client calls neither     *)
(* GetSnapshot nor CompactRange.                                            *)
(*                                                                          *)
(* The argument goes from the bottom up: recursion over numbers and sorted  *)
(* sequences; FindFile's search and the widening of a range of level-0      *)
(* files; which files a compaction takes; the order and the keys of its     *)
(* outputs, and what they keep of the inputs; what a version edit leaves    *)
(* behind; TreeInv, the inductive invariant of the order, one lemma for     *)
(* each action; what a read finds in levels in order; and StoreInv, the     *)
(* inductive invariant of the answers, again one lemma for each action.     *)
EXTENDS LsmTree, FiniteSetTheorems, WellFoundedInduction, TLAPS

-----------------------------------------------------------------------------
(* Numbers: a least one, a greatest one, induction, recursion.              *)
NatBefore == {pair \in Nat \X Nat : pair[1] < pair[2]}

LEMMA LeastNumber ==
  ASSUME NEW T, T \subseteq Nat, T # {}
  PROVE  \E m \in T : \A n \in T : m <= n
<1>1. IsWellFoundedOn(NatBefore, Nat)
  BY NatLessThanWellFounded DEF OpToRel, NatBefore
<1>2. PICK m \in T : \A n \in T : <<n, m>> \notin NatBefore
  BY <1>1, WFMin
<1>3. ASSUME NEW n \in T PROVE m <= n
  <2>1. <<n, m>> \in Nat \X Nat /\ <<n, m>>[1] = n /\ <<n, m>>[2] = m
    OBVIOUS
  <2>2. ~(n < m)
    BY <1>2, <2>1 DEF NatBefore
  <2>3. QED
    BY <2>2
<1>4. QED
  BY <1>3

-----------------------------------------------------------------------------
(* Keys of a file, and files whose keys are apart.                          *)
Lo(f) == Smallest(f).key
Hi(f) == Largest(f).key
Apart(f, g) == Hi(f) < Lo(g) \/ Hi(g) < Lo(f)

(* What is in a memtable or a table: entries of the writes so far.          *)
EntriesAre(entries, last) ==
  /\ IsFiniteSet(entries)
  /\ \A e \in entries : e.key \in Nat /\ e.seq \in Nat /\ e.seq <= last

FileIs(f, last) == f.number \in Nat /\ f.entries # {} /\ EntriesAre(f.entries, last)

(* Files of a version: the same entry nowhere twice, numbers their own.     *)
FilesAre(S, last) ==
  /\ IsFiniteSet(S) /\ \A f \in S : FileIs(f, last)
  /\ \A f, g \in S : f.number = g.number => f = g
  /\ \A f, g \in S : \A e \in f.entries, d \in g.entries : e.seq = d.seq => e = d

InOrder(files) == \A i, j \in 1..Len(files) : i < j => BySmallestKey(files[i], files[j])

FilesOf(version) == UNION {ToSet(version[level]) : level \in Levels}

VersionIs(version, last) ==
  /\ version = [level \in Levels |-> version[level]]
  /\ \A level \in Levels : version[level] \in Seq(FilesOf(version)) /\ InOrder(version[level])
  /\ FilesAre(FilesOf(version), last)
  /\ \A level \in Levels \ {0} : \A f, g \in ToSet(version[level]) : f = g \/ Apart(f, g)

LEMMA UpTo ==
  ASSUME NEW N \in Nat, NEW T, 0 \in T, \A n \in 0..(N - 1) : n \in T => n + 1 \in T
  PROVE  \A n \in 0..N : n \in T
<1> DEFINE open == {n \in 0..N : n \notin T}
<1>1. SUFFICES ASSUME open # {} PROVE FALSE
  OBVIOUS
<1>2. PICK m \in open : \A n \in open : m <= n
  <2>1. open \subseteq Nat
    OBVIOUS
  <2> HIDE DEF open
  <2>2. QED
    BY <1>1, <2>1, LeastNumber
<1>3. m \in 0..N /\ m \notin T /\ m # 0
  BY <1>2
<1>4. m - 1 \in 0..(N - 1) /\ m - 1 \in 0..N /\ (m - 1) + 1 = m /\ ~(m <= m - 1)
  BY <1>3
<1>5. m - 1 \in T
  BY <1>2, <1>4
<1>6. QED
  BY <1>3, <1>4, <1>5

(* What f[i \in 0..N] == IF i = 0 THEN first ELSE step[<<f[i - 1], i>>]      *)
(* defines exists, and has its values in D[i] if the steps lead there.      *)
Leads(N, D, first, step) ==
  first \in D[0] /\ \A i \in 1..N : \A d \in D[i - 1] : step[<<d, i>>] \in D[i]

Follows(N, D, first, step, f) ==
  /\ DOMAIN f = 0..N
  /\ \A i \in 0..N : f[i] \in D[i] /\ f[i] = IF i = 0 THEN first ELSE step[<<f[i - 1], i>>]

LEMMA RecursionExists ==
  ASSUME NEW N \in Nat, NEW D, NEW first, NEW step, Leads(N, D, first, step)
  PROVE  \E f : Follows(N, D, first, step, f)
<1> DEFINE Has(f, n) == /\ DOMAIN f = 0..n
                        /\ \A i \in 0..n : f[i] \in D[i] /\ f[i] = IF i = 0 THEN first ELSE step[<<f[i - 1], i>>]
           T == {n \in 0..N : \E f : Has(f, n)}
<1>0. first \in D[0] /\ \A i \in 1..N : \A d \in D[i - 1] : step[<<d, i>>] \in D[i]
  BY DEF Leads
<1>1. 0 \in T
  <2> DEFINE f == [i \in 0..0 |-> first]
  <2>1. DOMAIN f = 0..0 /\ \A i \in 0..0 : i = 0 /\ f[i] = first
    OBVIOUS
  <2> HIDE DEF f
  <2>2. Has(f, 0)
    BY <1>0, <2>1
  <2>3. QED
    BY <2>2
<1>2. ASSUME NEW n \in 0..(N - 1), n \in T PROVE n + 1 \in T
  <2>1. PICK f : Has(f, n)
    BY <1>2
  <2>2. n + 1 \in 1..N /\ n + 1 \in 0..N /\ n \in 0..n /\ n \in Nat
    OBVIOUS
  <2> DEFINE last == step[<<f[n], n + 1>>]
             longer == [i \in 0..(n + 1) |-> IF i = n + 1 THEN last ELSE f[i]]
  <2>3. f[n] \in D[n]
    BY <2>1, <2>2
  <2>4. last \in D[n + 1]
    <3>1. (n + 1) - 1 = n
      BY <2>2
    <3>2. QED
      BY <1>0, <2>2, <2>3, <3>1
  <2>5. DOMAIN longer = 0..(n + 1) /\ longer[n + 1] = last /\ \A i \in 0..n : longer[i] = f[i]
    BY <2>2
  <2> HIDE DEF longer
  <2>6. ASSUME NEW i \in 0..(n + 1)
        PROVE  longer[i] \in D[i] /\ longer[i] = IF i = 0 THEN first ELSE step[<<longer[i - 1], i>>]
    <3>1. CASE i = n + 1
      <4>1. i # 0 /\ i - 1 = n
        BY <2>2, <3>1
      <4>2. longer[i - 1] = f[n]
        BY <2>2, <2>5, <4>1
      <4>3. QED
        BY <2>4, <2>5, <3>1, <4>1, <4>2
    <3>2. CASE i # n + 1
      <4>1. i \in 0..n /\ (i # 0 => i - 1 \in 0..n)
        BY <2>2, <3>2
      <4>2. longer[i] = f[i] /\ (i # 0 => longer[i - 1] = f[i - 1])
        BY <2>5, <4>1
      <4>3. f[i] \in D[i] /\ f[i] = IF i = 0 THEN first ELSE step[<<f[i - 1], i>>]
        BY <2>1, <4>1
      <4>4. QED
        BY <4>2, <4>3
    <3>3. QED
      BY <3>1, <3>2
  <2>7. Has(longer, n + 1)
    BY <2>5, <2>6
  <2>8. QED
    BY <2>2, <2>7
<1>3. N \in T
  <2>1. N \in 0..N
    OBVIOUS
  <2> HIDE DEF T
  <2>2. QED
    BY <1>1, <1>2, <2>1, UpTo
<1>4. PICK f : Has(f, N)
  BY <1>3
<1>5. QED
  BY <1>4 DEF Follows

LEMMA RecursionStays ==
  ASSUME NEW N \in Nat, NEW D, NEW f, f[0] \in D[0], \A i \in 1..N : f[i - 1] \in D[i - 1] => f[i] \in D[i]
  PROVE  \A i \in 0..N : f[i] \in D[i]
<1> DEFINE T == {i \in 0..N : f[i] \in D[i]}
<1>1. 0 \in T
  OBVIOUS
<1>2. ASSUME NEW n \in 0..(N - 1), n \in T PROVE n + 1 \in T
  <2>1. n + 1 \in 1..N /\ n + 1 \in 0..N /\ (n + 1) - 1 = n
    OBVIOUS
  <2>2. f[n] \in D[n]
    BY <1>2
  <2>3. QED
    BY <2>1, <2>2
<1> HIDE DEF T
<1>3. \A n \in 0..N : n \in T
  BY <1>1, <1>2, UpTo
<1>4. QED
  BY <1>3 DEF T

-----------------------------------------------------------------------------
(* Finite sets in a strict order, given as the set of the ordered pairs.    *)
IsStrict(R, S) ==
  /\ \A x \in S : <<x, x>> \notin R
  /\ \A x, y, z \in S : <<x, y>> \in R /\ <<y, z>> \in R => <<x, z>> \in R

IsTotal(R, S) == IsStrict(R, S) /\ \A x, y \in S : x = y \/ <<x, y>> \in R \/ <<y, x>> \in R

RankIn(R, S, x) == Cardinality({y \in S : <<y, x>> \in R})

LEMMA RanksAreNumbers ==
  ASSUME NEW S, IsFiniteSet(S), NEW R, IsStrict(R, S)
  PROVE  /\ Cardinality(S) \in Nat
         /\ \A x \in S : RankIn(R, S, x) \in 0..(Cardinality(S) - 1)
         /\ \A x, y \in S : <<x, y>> \in R => RankIn(R, S, x) < RankIn(R, S, y)
<1> DEFINE Below(x) == {y \in S : <<y, x>> \in R}
           n == Cardinality(S)
<1>1. n \in Nat /\ \A x : IsFiniteSet(Below(x)) /\ Cardinality(Below(x)) \in Nat /\ Below(x) \in SUBSET S
  <2>1. \A x : Below(x) \in SUBSET S
    OBVIOUS
  <2> HIDE DEF Below
  <2>2. QED
    BY <2>1, FS_Subset, FS_CardinalityType
<1>2. ASSUME NEW x \in S PROVE Cardinality(Below(x)) \in 0..(n - 1)
  <2>1. x \notin Below(x)
    BY DEF IsStrict
  <2> HIDE DEF Below, n
  <2>2. Cardinality(Below(x)) <= n /\ (Cardinality(Below(x)) = n => Below(x) = S)
    BY <1>1, FS_Subset DEF n
  <2>3. Cardinality(Below(x)) # n
    BY <2>1, <2>2
  <2>4. QED
    BY <1>1, <2>2, <2>3
<1>3. ASSUME NEW x \in S, NEW y \in S, <<x, y>> \in R PROVE Cardinality(Below(x)) < Cardinality(Below(y))
  <2>1. Below(x) \in SUBSET Below(y) /\ x \in Below(y) /\ x \notin Below(x)
    BY <1>3 DEF IsStrict
  <2> HIDE DEF Below
  <2>2. Cardinality(Below(x)) <= Cardinality(Below(y)) /\ (Cardinality(Below(x)) = Cardinality(Below(y)) => Below(x) = Below(y))
    BY <1>1, <2>1, FS_Subset
  <2>3. Cardinality(Below(x)) # Cardinality(Below(y))
    BY <2>1, <2>2
  <2>4. QED
    BY <1>1, <2>2, <2>3
<1>4. QED
  BY <1>1, <1>2, <1>3 DEF RankIn

(* The last of a set.                                                       *)
LEMMA LastExists ==
  ASSUME NEW S, IsFiniteSet(S), S # {}, NEW R, IsStrict(R, S)
  PROVE  \E x \in S : \A y \in S : <<x, y>> \notin R
<1> DEFINE n == Cardinality(S)
           depths == {n - RankIn(R, S, x) : x \in S}
<1>1. n \in Nat /\ \A x \in S : RankIn(R, S, x) \in 0..(n - 1)
  BY RanksAreNumbers
<1>2. \A x, y \in S : <<x, y>> \in R => RankIn(R, S, x) < RankIn(R, S, y)
  BY RanksAreNumbers
<1>3. depths \subseteq Nat /\ depths # {}
  <2>1. \A i \in 0..(n - 1) : n - i \in Nat
    BY <1>1
  <2> HIDE DEF n
  <2>2. QED
    BY <1>1, <2>1
<1>4. PICK d \in depths : \A e \in depths : d <= e
  <2> HIDE DEF depths
  <2>1. QED
    BY <1>3, LeastNumber
<1>5. PICK x \in S : d = n - RankIn(R, S, x)
  BY <1>4
<1>6. ASSUME NEW y \in S, <<x, y>> \in R PROVE FALSE
  <2>1. n - RankIn(R, S, x) <= n - RankIn(R, S, y)
    BY <1>4, <1>5
  <2>2. RankIn(R, S, x) < RankIn(R, S, y)
    BY <1>2, <1>6
  <2>3. RankIn(R, S, x) \in Nat /\ RankIn(R, S, y) \in Nat
    BY <1>1
  <2> HIDE DEF n, depths
  <2>4. QED
    BY <1>1, <2>1, <2>2, <2>3
<1>7. QED
  BY <1>6

(* A total order gives each rank once.                                      *)
LEMMA RanksAreTaken ==
  ASSUME NEW S, IsFiniteSet(S), NEW R, IsTotal(R, S)
  PROVE  /\ \A i \in 1..Cardinality(S) : \E x \in S : RankIn(R, S, x) = i - 1
         /\ \A x, y \in S : RankIn(R, S, x) = RankIn(R, S, y) => x = y
<1> DEFINE n == Cardinality(S)
           T == 0..(n - 1)
           r == [x \in S |-> RankIn(R, S, x)]
<1>1. n \in Nat /\ (\A x \in S : RankIn(R, S, x) \in T) /\ \A x, y \in S : <<x, y>> \in R => RankIn(R, S, x) < RankIn(R, S, y)
  BY RanksAreNumbers DEF IsTotal
<1>2. ASSUME NEW x \in S, NEW y \in S, RankIn(R, S, x) = RankIn(R, S, y) PROVE x = y
  <2>1. RankIn(R, S, x) \in Nat /\ RankIn(R, S, y) \in Nat
    BY <1>1
  <2>2. <<x, y>> \notin R /\ <<y, x>> \notin R
    BY <1>1, <1>2, <2>1
  <2>3. QED
    BY <2>2 DEF IsTotal
<1>3. IsFiniteSet(T) /\ Cardinality(T) = n
  <2>1. IsFiniteSet(T) /\ Cardinality(T) = IF 0 > n - 1 THEN 0 ELSE (n - 1) - 0 + 1
    BY <1>1, FS_Interval
  <2> HIDE DEF n
  <2>2. QED
    BY <1>1, <2>1
<1>4. r \in [S -> T] /\ \A x \in S : r[x] = RankIn(R, S, x)
  BY <1>1
<1> HIDE DEF r, T
<1>5. r \in Injection(S, T)
  BY <1>2, <1>4 DEF Injection, IsInjective
<1>6. r \in Surjection(S, T)
  BY <1>3, <1>5, FS_Injection
<1>7. \A t \in T : \E x \in S : r[x] = t
  BY <1>6 DEF Surjection
<1>8. ASSUME NEW i \in 1..n PROVE \E x \in S : RankIn(R, S, x) = i - 1
  <2>1. i - 1 \in T
    BY <1>1 DEF T
  <2>2. QED
    BY <1>4, <1>7, <2>1
<1>9. QED
  BY <1>2, <1>8

(* So what lists the members by their ranks has all of them, in the order.  *)
LEMMA ListedByRank ==
  ASSUME NEW S, IsFiniteSet(S), NEW R, IsTotal(R, S), NEW s, s = [i \in 1..Cardinality(S) |-> s[i]],
         \A i \in 1..Cardinality(S) : s[i] \in S /\ RankIn(R, S, s[i]) = i - 1
  PROVE  /\ s \in Seq(S) /\ Len(s) = Cardinality(S) /\ ToSet(s) = S
         /\ \A i, j \in 1..Len(s) : i < j => <<s[i], s[j]>> \in R
<1>1. Cardinality(S) \in Nat
  BY FS_CardinalityType
<1>2. DOMAIN s = 1..Cardinality(S) /\ s \in Seq(S) /\ Len(s) = Cardinality(S)
  BY <1>1
<1>3. ASSUME NEW x \in S PROVE \E i \in DOMAIN s : s[i] = x
  <2>1. RankIn(R, S, x) \in 0..(Cardinality(S) - 1)
    BY RanksAreNumbers DEF IsTotal
  <2>2. RankIn(R, S, x) + 1 \in 1..Cardinality(S) /\ (RankIn(R, S, x) + 1) - 1 = RankIn(R, S, x)
    BY <1>1, <2>1
  <2>3. s[RankIn(R, S, x) + 1] \in S /\ RankIn(R, S, s[RankIn(R, S, x) + 1]) = RankIn(R, S, x)
    BY <2>2
  <2>4. s[RankIn(R, S, x) + 1] = x
    BY <2>3, RanksAreTaken
  <2>5. QED
    BY <1>2, <2>2, <2>4
<1>4. ToSet(s) = S
  BY <1>2, <1>3 DEF ToSet
<1>5. ASSUME NEW i \in 1..Len(s), NEW j \in 1..Len(s), i < j PROVE <<s[i], s[j]>> \in R
  <2>1. s[i] \in S /\ s[j] \in S /\ RankIn(R, S, s[i]) = i - 1 /\ RankIn(R, S, s[j]) = j - 1
    BY <1>2
  <2>2. ~(j - 1 < i - 1) /\ i - 1 # j - 1
    BY <1>5
  <2>3. <<s[j], s[i]>> \notin R
    <3>1. \A x, y \in S : <<x, y>> \in R => RankIn(R, S, x) < RankIn(R, S, y)
      BY RanksAreNumbers DEF IsTotal
    <3>2. QED
      BY <2>1, <2>2, <3>1
  <2>4. s[i] # s[j]
    BY <2>1, <2>2
  <2>5. QED
    BY <2>1, <2>3, <2>4 DEF IsTotal
<1>6. QED
  BY <1>2, <1>4, <1>5

(* The members of a sequence.                                               *)
LEMMA MembersOf ==
  ASSUME NEW S, NEW s \in Seq(S)
  PROVE  /\ Len(s) \in Nat /\ ToSet(s) = {s[i] : i \in 1..Len(s)} /\ ToSet(s) \subseteq S /\ s \in Seq(ToSet(s))
         /\ IsFiniteSet(ToSet(s)) /\ ToSet(<< >>) = {}
         /\ Len(s) = 0 => s = << >>
         /\ \A x : ToSet(Append(s, x)) = ToSet(s) \union {x}
<1>1. Len(s) \in Nat /\ DOMAIN s = 1..Len(s) /\ (\A i \in 1..Len(s) : s[i] \in S) /\ (Len(s) = 0 => s = << >>)
  OBVIOUS
<1>2. ToSet(s) = {s[i] : i \in 1..Len(s)} /\ ToSet(s) \subseteq S /\ ToSet(<< >>) = {}
  BY <1>1 DEF ToSet
<1>3. s \in Seq(ToSet(s))
  BY <1>1, <1>2
<1>4. IsFiniteSet(ToSet(s))
  <2> DEFINE T == ToSet(s)
             A == 1..Len(s)
  <2>1. s \in Surjection(A, T)
    BY <1>1, <1>2 DEF Surjection
  <2>2. IsFiniteSet(A)
    BY <1>1, FS_Interval
  <2>3. QED
    BY <2>1, <2>2, FS_Surjection
<1>5. ASSUME NEW x PROVE ToSet(Append(s, x)) = ToSet(s) \union {x}
  <2>1. s \in Seq(S \union {x})
    BY <1>1
  <2>2. /\ DOMAIN Append(s, x) = 1..(Len(s) + 1) /\ Append(s, x)[Len(s) + 1] = x
        /\ \A i \in 1..Len(s) : Append(s, x)[i] = s[i]
    BY <2>1
  <2>3. 1..(Len(s) + 1) = (1..Len(s)) \union {Len(s) + 1}
    BY <1>1
  <2>4. QED
    BY <1>1, <2>2, <2>3 DEF ToSet
<1>6. QED
  BY <1>1, <1>2, <1>3, <1>4, <1>5

-----------------------------------------------------------------------------
LEMMA MinIsLeast ==
  ASSUME NEW T, T \subseteq Nat, T # {}
  PROVE  Min(T) \in T /\ \A n \in T : Min(T) <= n
<1>1. \E m \in T : \A n \in T : m <= n
  BY LeastNumber
<1>2. QED
  BY <1>1 DEF Min

LEMMA MaxIsGreatest ==
  ASSUME NEW T, T \subseteq Nat, IsFiniteSet(T), T # {}
  PROVE  Max(T) \in T /\ \A n \in T : n <= Max(T)
<1> DEFINE R == {pair \in T \X T : pair[1] < pair[2]}
<1>1. \A x, y \in T : <<x, y>> \in R <=> x < y
  OBVIOUS
<1>2. IsStrict(R, T)
  <2> HIDE DEF R
  <2>1. \A x, y, z \in T : x < y /\ y < z => x < z /\ ~(x < x)
    OBVIOUS
  <2>2. QED
    BY <1>1, <2>1 DEF IsStrict
<1>3. PICK m \in T : \A n \in T : <<m, n>> \notin R
  <2> HIDE DEF R
  <2>1. QED
    BY <1>2, LastExists
<1>4. ASSUME NEW n \in T PROVE n <= m
  <2>1. ~(m < n)
    BY <1>1, <1>3
  <2>2. m \in Nat /\ n \in Nat
    OBVIOUS
  <2>3. QED
    BY <2>1, <2>2
<1>5. QED
  BY <1>4 DEF Max

-----------------------------------------------------------------------------
(* Entries, and the ends of a file.                                         *)
EntriesHaveKeys(S) == \A e \in S : e.key \in Nat /\ e.seq \in Nat

LEMMA LessIsStrict ==
  /\ \A a : a.key \in Nat /\ a.seq \in Nat => ~Less(a, a)
  /\ \A a, b, c : /\ a.key \in Nat /\ a.seq \in Nat /\ b.key \in Nat /\ b.seq \in Nat /\ c.key \in Nat /\ c.seq \in Nat
                  /\ Less(a, b) /\ Less(b, c)
                  => Less(a, c)
  /\ \A a, b : /\ a.key \in Nat /\ a.seq \in Nat /\ b.key \in Nat /\ b.seq \in Nat /\ ~Less(a, b) /\ ~Less(b, a)
               => a.key = b.key /\ a.seq = b.seq
<1>1. \A a, b, c, p, q, r \in Nat :
        /\ ~(a < a \/ (a = a /\ p > p))
        /\ (a < b \/ (a = b /\ p > q)) /\ (b < c \/ (b = c /\ q > r)) => (a < c \/ (a = c /\ p > r))
        /\ ~(a < b \/ (a = b /\ p > q)) /\ ~(b < a \/ (b = a /\ q > p)) => a = b /\ p = q
  OBVIOUS
<1>2. \A a, b : Less(a, b) <=> (a.key < b.key \/ (a.key = b.key /\ a.seq > b.seq))
  BY DEF Less
<1>3. QED
  BY <1>1, <1>2

LEMMA LessOf ==
  ASSUME NEW S, EntriesHaveKeys(S)
  PROVE  \E R : IsStrict(R, S) /\ \A x, y \in S : <<x, y>> \in R <=> Less(x, y)
<1> DEFINE R == {pair \in S \X S : Less(pair[1], pair[2])}
<1>1. \A x, y \in S : <<x, y>> \in R <=> Less(x, y)
  OBVIOUS
<1> HIDE DEF R
<1>2. \A x \in S : <<x, x>> \notin R
  BY <1>1, LessIsStrict DEF EntriesHaveKeys
<1>3. ASSUME NEW x \in S, NEW y \in S, NEW z \in S, <<x, y>> \in R, <<y, z>> \in R PROVE <<x, z>> \in R
  <2>1. Less(x, y) /\ Less(y, z)
    BY <1>1, <1>3
  <2>2. QED
    BY <1>1, <2>1, LessIsStrict DEF EntriesHaveKeys
<1>4. QED
  BY <1>1, <1>2, <1>3 DEF IsStrict

LEMMA MostIsLast ==
  ASSUME NEW S, IsFiniteSet(S), EntriesHaveKeys(S), S # {}
  PROVE  Most(S) \in S /\ \A e \in S : ~Less(Most(S), e) /\ e.key <= Most(S).key
<1>1. PICK R : IsStrict(R, S) /\ \A x, y \in S : <<x, y>> \in R <=> Less(x, y)
  BY LessOf
<1>2. PICK m \in S : \A e \in S : <<m, e>> \notin R
  BY <1>1, LastExists
<1>3. \A e \in S : ~Less(m, e)
  BY <1>1, <1>2
<1>4. Most(S) \in S /\ \A e \in S : ~Less(Most(S), e)
  BY <1>3 DEF Most
<1>5. \A e \in S : e.key <= Most(S).key
  <2>1. \A e \in S : e.key \in Nat /\ Most(S).key \in Nat /\ ~(Most(S).key < e.key)
    BY <1>4 DEF Less, EntriesHaveKeys
  <2>2. QED
    BY <2>1
<1>6. QED
  BY <1>4, <1>5

LEMMA LeastIsFirst ==
  ASSUME NEW S, IsFiniteSet(S), EntriesHaveKeys(S), S # {}
  PROVE  Least(S) \in S /\ \A e \in S : ~Less(e, Least(S)) /\ Least(S).key <= e.key
<1>1. PICK R : IsStrict(R, S) /\ \A x, y \in S : <<x, y>> \in R <=> Less(x, y)
  BY LessOf
<1> DEFINE Q == {pair \in S \X S : <<pair[2], pair[1]>> \in R}
<1>2. \A x, y \in S : <<x, y>> \in Q <=> <<y, x>> \in R
  OBVIOUS
<1> HIDE DEF Q
<1>3. IsStrict(Q, S)
  BY <1>1, <1>2 DEF IsStrict
<1>4. PICK m \in S : \A e \in S : <<m, e>> \notin Q
  BY <1>3, LastExists
<1>5. \A e \in S : ~Less(e, m)
  BY <1>1, <1>2, <1>4
<1>6. Least(S) \in S /\ \A e \in S : ~Less(e, Least(S))
  BY <1>5 DEF Least
<1>7. \A e \in S : Least(S).key <= e.key
  <2>1. \A e \in S : e.key \in Nat /\ Least(S).key \in Nat /\ ~(e.key < Least(S).key)
    BY <1>6 DEF Less, EntriesHaveKeys
  <2>2. QED
    BY <2>1
<1>8. QED
  BY <1>6, <1>7

LEMMA EntriesAreKeyed ==
  ASSUME NEW last \in Nat, NEW S, EntriesAre(S, last)
  PROVE  IsFiniteSet(S) /\ EntriesHaveKeys(S)
BY DEF EntriesAre, EntriesHaveKeys

(* The range of user keys of a file.                                        *)
LEMMA FileRange ==
  ASSUME NEW last \in Nat, NEW f, FileIs(f, last)
  PROVE  /\ Smallest(f) \in f.entries /\ Largest(f) \in f.entries
         /\ Smallest(f).key \in Nat /\ Largest(f).key \in Nat /\ Smallest(f).key <= Largest(f).key
         /\ Smallest(f).seq \in Nat /\ Largest(f).seq \in Nat /\ Largest(f).seq <= last
         /\ \A e \in f.entries : e.key \in Nat /\ Smallest(f).key <= e.key /\ e.key <= Largest(f).key
<1>1. EntriesAre(f.entries, last) /\ f.entries # {}
  BY DEF FileIs
<1>2. IsFiniteSet(f.entries) /\ EntriesHaveKeys(f.entries)
  BY <1>1, EntriesAreKeyed
<1>3. Smallest(f) \in f.entries /\ \A e \in f.entries : Smallest(f).key <= e.key
  BY <1>1, <1>2, LeastIsFirst DEF Smallest
<1>4. Largest(f) \in f.entries /\ \A e \in f.entries : e.key <= Largest(f).key
  BY <1>1, <1>2, MostIsLast DEF Largest
<1>5. \A e \in f.entries : e.key \in Nat /\ e.seq \in Nat /\ e.seq <= last
  BY <1>1 DEF EntriesAre
<1>6. QED
  BY <1>3, <1>4, <1>5

-----------------------------------------------------------------------------
(* The sorted lists.                                                        *)
LEMMA EntriesSorted ==
  ASSUME NEW S, IsFiniteSet(S), EntriesHaveKeys(S), \A e, d \in S : e.seq = d.seq => e = d
  PROVE  /\ Sorted(S, Less) \in Seq(S) /\ Len(Sorted(S, Less)) = Cardinality(S) /\ ToSet(Sorted(S, Less)) = S
         /\ \A i, j \in 1..Cardinality(S) : i < j => Less(Sorted(S, Less)[i], Sorted(S, Less)[j])
<1>1. PICK R : IsStrict(R, S) /\ \A x, y \in S : <<x, y>> \in R <=> Less(x, y)
  BY LessOf
<1>2. IsTotal(R, S)
  <2>1. \A x, y \in S : x = y \/ Less(x, y) \/ Less(y, x)
    BY LessIsStrict DEF EntriesHaveKeys
  <2>2. QED
    BY <1>1, <2>1 DEF IsTotal
<1>3. \A x \in S : RankIn(R, S, x) = Cardinality({y \in S : Less(y, x)})
  <2>1. \A x \in S : {y \in S : <<y, x>> \in R} = {y \in S : Less(y, x)}
    BY <1>1
  <2>2. QED
    BY <2>1 DEF RankIn
<1> DEFINE s == Sorted(S, Less)
           n == Cardinality(S)
           Has(x, i) == Cardinality({y \in S : Less(y, x)}) = i - 1
<1>4. s = [i \in 1..n |-> CHOOSE x \in S : Has(x, i)]
  BY Zenon DEF Sorted
<1>5a. ASSUME NEW i \in 1..n PROVE s[i] \in S /\ RankIn(R, S, s[i]) = i - 1
  <2>1. \E x \in S : Has(x, i)
    BY <1>2, <1>3, RanksAreTaken
  <2>2. s[i] \in S /\ Has(s[i], i)
    <3> HIDE DEF s, Has, n
    <3>1. s[i] = CHOOSE x \in S : Has(x, i)
      BY <1>4
    <3>2. QED
      BY <2>1, <3>1
  <2>3. QED
    BY <1>3, <2>2
<1>5. s = [i \in 1..n |-> s[i]]
  <2> HIDE DEF s, Has, n
  <2>1. QED
    BY <1>4
<1> HIDE DEF s
<1>6. /\ s \in Seq(S) /\ Len(s) = Cardinality(S) /\ ToSet(s) = S
      /\ \A i, j \in 1..Len(s) : i < j => <<s[i], s[j]>> \in R
  BY <1>2, <1>5, <1>5a, ListedByRank DEF n
<1>7. \A i, j \in 1..Cardinality(S) : i < j => Less(s[i], s[j])
  BY <1>1, <1>5a, <1>6
<1>8. QED
  BY <1>6, <1>7 DEF s

LEMMA FilesSorted ==
  ASSUME NEW last \in Nat, NEW S, FilesAre(S, last)
  PROVE  /\ Sorted(S, BySmallestKey) \in Seq(S) /\ Len(Sorted(S, BySmallestKey)) = Cardinality(S)
         /\ ToSet(Sorted(S, BySmallestKey)) = S
         /\ InOrder(Sorted(S, BySmallestKey))
<1> DEFINE R == {pair \in S \X S : BySmallestKey(pair[1], pair[2])}
<1>1. \A x, y \in S : <<x, y>> \in R <=> BySmallestKey(x, y)
  OBVIOUS
<1> HIDE DEF R
<1>2. \A f \in S : Smallest(f).key \in Nat /\ Smallest(f).seq \in Nat /\ f.number \in Nat
  <2>1. \A f \in S : FileIs(f, last)
    BY DEF FilesAre
  <2>2. \A f \in S : Smallest(f).key \in Nat /\ Smallest(f).seq \in Nat
    BY <2>1, FileRange
  <2>3. QED
    BY <2>1, <2>2 DEF FileIs
<1>3. \A f, g \in S : Smallest(f).seq = Smallest(g).seq => Smallest(f) = Smallest(g)
  <2>1. \A f \in S : FileIs(f, last)
    BY DEF FilesAre
  <2>2. \A f \in S : Smallest(f) \in f.entries
    BY <2>1, FileRange
  <2>3. QED
    BY <2>2 DEF FilesAre
<1>4. IsTotal(R, S)
  <2>1. \A f \in S : <<f, f>> \notin R
    BY <1>1, <1>2, LessIsStrict DEF BySmallestKey
  <2>2. ASSUME NEW f \in S, NEW g \in S, NEW h \in S, <<f, g>> \in R, <<g, h>> \in R PROVE <<f, h>> \in R
    <3>1. BySmallestKey(f, g) /\ BySmallestKey(g, h)
      BY <1>1, <2>2
    <3>2. CASE Less(Smallest(f), Smallest(g)) /\ Less(Smallest(g), Smallest(h))
      <4>1. Less(Smallest(f), Smallest(h))
        BY <1>2, <3>2, LessIsStrict
      <4>2. QED
        BY <1>1, <4>1 DEF BySmallestKey
    <3>3. CASE Smallest(f) = Smallest(g) /\ f.number < g.number /\ Smallest(g) = Smallest(h) /\ g.number < h.number
      <4>1. f.number < h.number /\ Smallest(f) = Smallest(h)
        BY <1>2, <3>3
      <4>2. QED
        BY <1>1, <4>1 DEF BySmallestKey
    <3>4. CASE \/ Less(Smallest(f), Smallest(g)) /\ Smallest(g) = Smallest(h)
               \/ Smallest(f) = Smallest(g) /\ Less(Smallest(g), Smallest(h))
      <4>1. Less(Smallest(f), Smallest(h))
        BY <3>4
      <4>2. QED
        BY <1>1, <4>1 DEF BySmallestKey
    <3>5. QED
      BY <3>1, <3>2, <3>3, <3>4 DEF BySmallestKey
  <2>3. ASSUME NEW f \in S, NEW g \in S, f # g, <<f, g>> \notin R PROVE <<g, f>> \in R
    <3>1. ~Less(Smallest(f), Smallest(g)) /\ ~(Smallest(f) = Smallest(g) /\ f.number < g.number)
      BY <1>1, <2>3 DEF BySmallestKey
    <3>2. CASE Less(Smallest(g), Smallest(f))
      BY <1>1, <3>2 DEF BySmallestKey
    <3>3. CASE ~Less(Smallest(g), Smallest(f))
      <4>1. Smallest(f).seq = Smallest(g).seq
        BY <1>2, <3>1, <3>3, LessIsStrict
      <4>2. Smallest(f) = Smallest(g)
        BY <1>3, <4>1
      <4>3. f.number # g.number /\ ~(f.number < g.number)
        BY <2>3, <3>1, <4>2 DEF FilesAre
      <4>4. g.number < f.number
        BY <1>2, <4>3
      <4>5. QED
        BY <1>1, <4>2, <4>4 DEF BySmallestKey
    <3>4. QED
      BY <3>2, <3>3
  <2>4. QED
    BY <2>1, <2>2, <2>3 DEF IsTotal, IsStrict
<1>5. \A x \in S : RankIn(R, S, x) = Cardinality({y \in S : BySmallestKey(y, x)})
  <2>1. \A x \in S : {y \in S : <<y, x>> \in R} = {y \in S : BySmallestKey(y, x)}
    BY <1>1
  <2>2. QED
    BY <2>1 DEF RankIn
<1> DEFINE s == Sorted(S, BySmallestKey)
           n == Cardinality(S)
           Has(x, i) == Cardinality({y \in S : BySmallestKey(y, x)}) = i - 1
<1>6. s = [i \in 1..n |-> CHOOSE x \in S : Has(x, i)]
  BY Zenon DEF Sorted
<1>7. IsFiniteSet(S)
  BY DEF FilesAre
<1>8a. ASSUME NEW i \in 1..n PROVE s[i] \in S /\ RankIn(R, S, s[i]) = i - 1
  <2>1. \E x \in S : Has(x, i)
    BY <1>4, <1>7, <1>5, RanksAreTaken
  <2>2. s[i] \in S /\ Has(s[i], i)
    <3> HIDE DEF s, Has, n
    <3>1. s[i] = CHOOSE x \in S : Has(x, i)
      BY <1>6
    <3>2. QED
      BY <2>1, <3>1
  <2>3. QED
    BY <1>5, <2>2
<1>8. s = [i \in 1..n |-> s[i]]
  <2> HIDE DEF s, Has, n
  <2>1. QED
    BY <1>6
<1> HIDE DEF s
<1>9. /\ s \in Seq(S) /\ Len(s) = Cardinality(S) /\ ToSet(s) = S
      /\ \A i, j \in 1..Len(s) : i < j => <<s[i], s[j]>> \in R
  BY <1>4, <1>7, <1>8, <1>8a, ListedByRank DEF n
<1>10. \A i, j \in 1..Len(s) : i < j => BySmallestKey(s[i], s[j])
  BY <1>1, <1>8a, <1>9
<1>11. QED
  BY <1>9, <1>10 DEF s, InOrder

-----------------------------------------------------------------------------
(* The files of a level that a range of user keys meets.                    *)
Hits(files, range, i) == {j \in 1..i : Overlaps(files[j], range[1], range[2])}

LEMMA HitsAreCounted ==
  ASSUME NEW files, NEW range, NEW i \in Nat
  PROVE  /\ IsFiniteSet(Hits(files, range, i)) /\ Cardinality(Hits(files, range, i)) \in 0..i
         /\ Hits(files, range, 0) = {} /\ Cardinality(Hits(files, range, 0)) = 0
         /\ IF Overlaps(files[i + 1], range[1], range[2])
              THEN /\ Hits(files, range, i + 1) = Hits(files, range, i) \union {i + 1}
                   /\ Cardinality(Hits(files, range, i + 1)) = Cardinality(Hits(files, range, i)) + 1
              ELSE Hits(files, range, i + 1) = Hits(files, range, i)
<1>1. /\ Hits(files, range, i) \in SUBSET (1..i) /\ IsFiniteSet(1..i)
      /\ Cardinality(1..i) = i
  <2>1. IsFiniteSet(1..i) /\ Cardinality(1..i) = IF 1 > i THEN 0 ELSE i - 1 + 1
    BY FS_Interval
  <2>2. QED
    BY <2>1 DEF Hits
<1>2. IsFiniteSet(Hits(files, range, i)) /\ Cardinality(Hits(files, range, i)) \in Nat /\ Cardinality(Hits(files, range, i)) <= i
  BY <1>1, FS_Subset, FS_CardinalityType
<1>3. Hits(files, range, 0) = {} /\ Cardinality(Hits(files, range, 0)) = 0
  <2>1. Hits(files, range, 0) = {}
    BY DEF Hits
  <2>2. QED
    BY <2>1, FS_EmptySet
<1>4. 1..(i + 1) = (1..i) \union {i + 1} /\ i + 1 \notin 1..i
  OBVIOUS
<1>5. CASE Overlaps(files[i + 1], range[1], range[2])
  <2>1. Hits(files, range, i + 1) = Hits(files, range, i) \union {i + 1} /\ i + 1 \notin Hits(files, range, i)
    BY <1>4, <1>5 DEF Hits
  <2>2. QED
    BY <1>2, <1>3, <1>5, <2>1, FS_AddElement
<1>6. CASE ~Overlaps(files[i + 1], range[1], range[2])
  <2>1. Hits(files, range, i + 1) = Hits(files, range, i)
    BY <1>4, <1>6 DEF Hits
  <2>2. QED
    BY <1>2, <1>3, <1>6, <2>1
<1>7. QED
  BY <1>5, <1>6

LEMMA MetAre ==
  ASSUME NEW S, NEW files \in Seq(S), NEW range
  PROVE  /\ Met(files, range) \in Seq(S)
         /\ ToSet(Met(files, range)) = {f \in ToSet(files) : Overlaps(f, range[1], range[2])}
         /\ Len(Met(files, range)) = Cardinality(Hits(files, range, Len(files)))
<1> DEFINE N == Len(files)
           IsMet(f) == f = [i \in 0..N |->
                              IF i = 0 THEN << >>
                              ELSE IF Overlaps(files[i], range[1], range[2]) THEN Append(f[i - 1], files[i])
                              ELSE f[i - 1]]
           met == CHOOSE f : IsMet(f)
           Goes(d, i) == IF Overlaps(files[i], range[1], range[2]) THEN Append(d, files[i]) ELSE d
           step == [p \in Seq(S) \X (1..N) |-> Goes(p[1], p[2])]
           Good(d, i) == /\ ToSet(d) = {files[j] : j \in Hits(files, range, i)}
                         /\ Len(d) = Cardinality(Hits(files, range, i))
           D == [i \in 0..N |-> {d \in Seq(S) : Good(d, i)}]
<1>1. Met(files, range) = met[N]
  BY DEF Met
<1>2. N \in Nat /\ \A i \in 1..N : files[i] \in S
  OBVIOUS
<1>3. << >> \in D[0]
  <2>1. Good(<< >>, 0)
    BY HitsAreCounted DEF ToSet
  <2> HIDE DEF Good
  <2>2. QED
    BY <1>2, <2>1
<1>4. ASSUME NEW i \in 1..N, NEW d \in D[i - 1] PROVE Goes(d, i) \in D[i]
  <2>1. i - 1 \in Nat /\ i - 1 \in 0..N /\ i \in 0..N /\ (i - 1) + 1 = i
    BY <1>2
  <2>2. d \in Seq(S) /\ Good(d, i - 1)
    BY <2>1
  <2>3. IF Overlaps(files[i], range[1], range[2])
          THEN /\ Hits(files, range, i) = Hits(files, range, i - 1) \union {i}
               /\ Cardinality(Hits(files, range, i)) = Cardinality(Hits(files, range, i - 1)) + 1
          ELSE Hits(files, range, i) = Hits(files, range, i - 1)
    BY <2>1, HitsAreCounted
  <2>4. CASE Overlaps(files[i], range[1], range[2])
    <3>1. Append(d, files[i]) \in Seq(S) /\ Len(Append(d, files[i])) = Len(d) + 1 /\ ToSet(Append(d, files[i])) = ToSet(d) \union {files[i]}
      BY <1>2, <2>2, MembersOf
    <3>2. Good(Append(d, files[i]), i)
      BY <2>2, <2>3, <2>4, <3>1
    <3> HIDE DEF Good
    <3>3. QED
      BY <2>1, <2>4, <3>1, <3>2
  <2>5. CASE ~Overlaps(files[i], range[1], range[2])
    <3>1. Good(d, i)
      BY <2>2, <2>3, <2>5
    <3> HIDE DEF Good
    <3>2. QED
      BY <2>1, <2>2, <2>5, <3>1
  <2>6. QED
    BY <2>4, <2>5
<1>5. \A i \in 0..N : D[i] \subseteq Seq(S)
  OBVIOUS
<1>6. \A i \in 1..N : \A d \in Seq(S) : step[<<d, i>>] = Goes(d, i)
  OBVIOUS
<1>7. \A i \in 1..N : i - 1 \in 0..N
  BY <1>2
<1>8. \E f : IsMet(f)
  <2> HIDE DEF D, step, Goes, N
  <2>1. \A i \in 1..N : \A d \in D[i - 1] : step[<<d, i>>] \in D[i]
    BY <1>4, <1>5, <1>6, <1>7
  <2>2. PICK f : /\ DOMAIN f = 0..N
                 /\ \A i \in 0..N : f[i] \in D[i] /\ f[i] = IF i = 0 THEN << >> ELSE step[<<f[i - 1], i>>]
    <3>1. PICK first : first = << >>
      OBVIOUS
    <3>2. Leads(N, D, first, step)
      BY <1>3, <2>1, <3>1 DEF Leads
    <3>3. N \in Nat
      BY <1>2
    <3>4. PICK f : Follows(N, D, first, step, f)
      BY <3>2, <3>3, RecursionExists
    <3>5. QED
      BY <3>1, <3>4 DEF Follows
  <2> DEFINE g == [i \in 0..N |-> f[i]]
  <2>3. \A i \in 0..N : g[i] = f[i]
    OBVIOUS
  <2>4. \A i \in 0..N : g[i] = IF i = 0 THEN << >> ELSE Goes(g[i - 1], i)
    <3>1. \A i \in 0..N : i = 0 \/ i \in 1..N
      BY <1>2
    <3> HIDE DEF g
    <3>2. QED
      BY <1>5, <1>6, <1>7, <2>2, <2>3, <3>1
  <2>5. IsMet(g)
    <3>1. g = [i \in 0..N |-> g[i]]
      OBVIOUS
    <3> HIDE DEF g
    <3>2. QED
      BY <2>4, <3>1 DEF Goes
  <2>6. QED
    BY <2>5
<1>9. IsMet(met)
  BY <1>8
<1> HIDE DEF met
<1>10. \A i \in 0..N : met[i] = IF i = 0 THEN << >> ELSE Goes(met[i - 1], i)
  BY <1>9
<1> HIDE DEF IsMet, Goes, D, step, N
<1>11. \A i \in 0..N : met[i] \in D[i]
  <2>1. met[0] \in D[0] /\ \A i \in 1..N : met[i - 1] \in D[i - 1] => met[i] \in D[i]
    <3>1. 0 \in 0..N /\ \A i \in 1..N : i # 0 /\ i \in 0..N
      BY <1>2
    <3>2. QED
      BY <1>3, <1>4, <1>10, <3>1
  <2>2. QED
    BY <1>2, <2>1, RecursionStays
<1>12. met[N] \in Seq(S) /\ Good(met[N], N)
  <2>1. N \in 0..N
    BY <1>2
  <2>2. met[N] \in D[N]
    BY <1>11, <2>1
  <2> HIDE DEF Good
  <2>3. QED
    BY <2>1, <2>2 DEF D
<1>13. {files[j] : j \in Hits(files, range, N)} = {f \in ToSet(files) : Overlaps(f, range[1], range[2])}
  BY DEF Hits, ToSet, N
<1>14. QED
  BY <1>1, <1>12, <1>13 DEF N

-----------------------------------------------------------------------------
(* The range of a compaction, as the files of level 0 widen it.             *)
LEMMA OverlapsIs ==
  ASSUME NEW begin \in Nat, NEW end \in Nat, NEW f
  PROVE  Overlaps(f, begin, end) <=> ~(begin > Largest(f).key) /\ ~(end < Smallest(f).key)
BY NoneAssumption DEF Overlaps, AfterFile, BeforeFile

RangesAre(S) == \A f \in S : Lo(f) \in Nat /\ Hi(f) \in Nat /\ Lo(f) <= Hi(f)

LEMMA FilesHaveRanges ==
  ASSUME NEW last \in Nat, NEW S, \A f \in S : FileIs(f, last)
  PROVE  RangesAre(S)
BY FileRange DEF RangesAre, Lo, Hi

LEMMA MeetsIs ==
  ASSUME NEW S, RangesAre(S), NEW begin \in Nat, NEW end \in Nat
  PROVE  \A f \in S : Overlaps(f, begin, end) <=> begin <= Hi(f) /\ Lo(f) <= end
<1>1. \A f \in S : Overlaps(f, begin, end) <=> ~(begin > Hi(f)) /\ ~(end < Lo(f))
  BY OverlapsIs DEF Lo, Hi
<1>2. \A f \in S : Lo(f) \in Nat /\ Hi(f) \in Nat
  BY DEF RangesAre
<1>3. \A a, b, c, d \in Nat : ~(a > b) /\ ~(c < d) <=> a <= b /\ d <= c
  OBVIOUS
<1>4. QED
  BY <1>1, <1>2, <1>3

LEMMA WiderIs ==
  ASSUME NEW S, RangesAre(S), NEW m \in Seq(S), NEW begin \in Nat, NEW end \in Nat
  PROVE  \E lo, hi \in Nat :
           /\ Wider(<<begin, end>>, ToSet(m)) = <<lo, hi>>
           /\ lo <= begin /\ end <= hi
           /\ \A f \in ToSet(m) : lo <= Lo(f) /\ Hi(f) <= hi
           /\ lo = begin \/ \E f \in ToSet(m) : Lo(f) = lo
           /\ hi = end \/ \E f \in ToSet(m) : Hi(f) = hi
<1> DEFINE A == {begin} \union {Smallest(f).key : f \in ToSet(m)}
           B == {end} \union {Largest(f).key : f \in ToSet(m)}
<1>1. ToSet(m) \subseteq S
  BY MembersOf
<1>2. A \subseteq Nat /\ A # {} /\ B \subseteq Nat /\ B # {}
  BY <1>1 DEF RangesAre, Lo, Hi
<1>3. IsFiniteSet(B)
  <2> DEFINE keys == [i \in 1..Len(m) |-> Largest(m[i]).key]
  <2>1. \A i \in 1..Len(m) : m[i] \in S
    OBVIOUS
  <2>2. keys \in Seq(Nat) /\ Len(keys) = Len(m) /\ \A i \in 1..Len(m) : keys[i] = Largest(m[i]).key
    BY <2>1 DEF RangesAre, Hi
  <2> HIDE DEF keys
  <2>3. ToSet(keys) = {Largest(f).key : f \in ToSet(m)}
    <3>1. ToSet(keys) = {keys[i] : i \in 1..Len(keys)}
      <4>1. keys \in Seq(Nat)
        BY <2>2
      <4>2. QED
        BY <4>1, MembersOf
    <3>2. ToSet(m) = {m[i] : i \in 1..Len(m)}
      BY MembersOf
    <3>3. QED
      BY <2>2, <3>1, <3>2
  <2>4. IsFiniteSet(ToSet(keys)) /\ IsFiniteSet({end})
    BY <2>2, MembersOf, FS_Singleton
  <2>5. IsFiniteSet(ToSet(keys) \union {end})
    BY <2>4, FS_AddElement
  <2>6. B = ToSet(keys) \union {end}
    BY <2>3
  <2>7. QED
    BY <2>5, <2>6
<1> DEFINE lo == Min(A)
           hi == Max(B)
<1>4. lo \in A /\ \A n \in A : lo <= n
  <2> HIDE DEF A
  <2>1. QED
    BY <1>2, MinIsLeast
<1>5. hi \in B /\ \A n \in B : n <= hi
  <2> HIDE DEF B
  <2>1. QED
    BY <1>2, <1>3, MaxIsGreatest
<1>6. Wider(<<begin, end>>, ToSet(m)) = <<lo, hi>>
  <2>1. begin # NoEnd /\ end # NoEnd
    BY NoneAssumption
  <2>2. QED
    BY <2>1 DEF Wider
<1>7. lo \in Nat /\ hi \in Nat
  BY <1>2, <1>4, <1>5
<1>8. \A f \in ToSet(m) : lo <= Lo(f) /\ Hi(f) <= hi
  BY <1>4, <1>5 DEF Lo, Hi
<1>9. (lo = begin \/ \E f \in ToSet(m) : Lo(f) = lo) /\ (hi = end \/ \E f \in ToSet(m) : Hi(f) = hi)
  BY <1>4, <1>5 DEF Lo, Hi
<1>10. lo <= begin /\ end <= hi
  BY <1>4, <1>5
<1> HIDE DEF lo, hi
<1>11. QED
  BY <1>6, <1>7, <1>8, <1>9, <1>10

Covered(S, lo, hi, k) == \E f \in S : lo <= Lo(f) /\ Lo(f) <= k /\ k <= Hi(f) /\ Hi(f) <= hi

(* Where a range reaches, files lead that lie in it; or it is settled.      *)
WidenedTo(files, begin, end, lo, hi) ==
  /\ lo \in Nat /\ hi \in Nat /\ lo <= begin /\ end <= hi
  /\ \A k \in lo..hi : k \in begin..end \/ Covered(ToSet(files), lo, hi, k)

Settled(files, lo, hi) == \A f \in ToSet(Met(files, <<lo, hi>>)) : lo <= Lo(f) /\ Hi(f) <= hi

(* One round of widening.                                                   *)
WidensTo(files, begin, end, lo, hi, l, h) ==
  /\ Wider(<<lo, hi>>, ToSet(Met(files, <<lo, hi>>))) = <<l, h>>
  /\ WidenedTo(files, begin, end, l, h)
  /\ Settled(files, lo, hi) => l = lo /\ h = hi
  /\ \/ Settled(files, lo, hi) \/ Settled(files, l, h)
     \/ Cardinality(Hits(files, <<lo, hi>>, Len(files))) < Cardinality(Hits(files, <<l, h>>, Len(files)))

LEMMA WiderAgain ==
  ASSUME NEW S, RangesAre(S), NEW files \in Seq(S), NEW begin \in Nat, NEW end \in Nat, begin <= end,
         NEW lo, NEW hi, WidenedTo(files, begin, end, lo, hi)
  PROVE  \E l, h : WidensTo(files, begin, end, lo, hi, l, h)
<1> DEFINE m == Met(files, <<lo, hi>>)
           N == Len(files)
<1>1. lo \in Nat /\ hi \in Nat /\ lo <= begin /\ end <= hi
  BY DEF WidenedTo
<1>2. /\ m \in Seq(S) /\ ToSet(m) \subseteq S /\ ToSet(files) \subseteq S
      /\ ToSet(m) = {f \in ToSet(files) : Overlaps(f, lo, hi)}
      /\ N \in Nat
  <2>1. m \in Seq(S) /\ ToSet(m) = {f \in ToSet(files) : Overlaps(f, <<lo, hi>>[1], <<lo, hi>>[2])}
    BY MetAre
  <2>2. QED
    BY <2>1, MembersOf
<1> HIDE DEF m
<1>3. PICK l, h \in Nat :
           /\ Wider(<<lo, hi>>, ToSet(m)) = <<l, h>>
           /\ l <= lo /\ hi <= h
           /\ \A f \in ToSet(m) : l <= Lo(f) /\ Hi(f) <= h
           /\ l = lo \/ \E f \in ToSet(m) : Lo(f) = l
           /\ h = hi \/ \E f \in ToSet(m) : Hi(f) = h
  BY <1>1, <1>2, WiderIs
<1>4. \A f \in ToSet(m) : Lo(f) \in Nat /\ Hi(f) \in Nat /\ lo <= Hi(f) /\ Lo(f) <= hi
  <2>1. \A f \in S : Overlaps(f, lo, hi) <=> lo <= Hi(f) /\ Lo(f) <= hi
    BY <1>1, MeetsIs
  <2>2. QED
    BY <1>2, <2>1 DEF RangesAre
<1>5. WidenedTo(files, begin, end, l, h)
  <2>1. l <= begin /\ end <= h
    BY <1>1, <1>3
  <2>2. ASSUME NEW k \in l..h, k \notin begin..end PROVE Covered(ToSet(files), l, h, k)
    <3>1. CASE k < lo
      <4>1. PICK f \in ToSet(m) : Lo(f) = l
        BY <1>1, <1>3, <3>1
      <4>2. l <= Lo(f) /\ Hi(f) <= h /\ Lo(f) \in Nat /\ Hi(f) \in Nat /\ lo <= Hi(f)
        BY <1>3, <1>4
      <4>3. Lo(f) <= k /\ k <= Hi(f)
        BY <1>1, <3>1, <4>1, <4>2
      <4>4. QED
        BY <1>2, <4>2, <4>3 DEF Covered
    <3>2. CASE k > hi
      <4>1. PICK f \in ToSet(m) : Hi(f) = h
        BY <1>1, <1>3, <3>2
      <4>2. l <= Lo(f) /\ Hi(f) <= h /\ Lo(f) \in Nat /\ Hi(f) \in Nat /\ Lo(f) <= hi
        BY <1>3, <1>4
      <4>3. Lo(f) <= k /\ k <= Hi(f)
        BY <1>1, <3>2, <4>1, <4>2
      <4>4. QED
        BY <1>2, <4>2, <4>3 DEF Covered
    <3>3. CASE lo <= k /\ k <= hi
      <4>1. k \in lo..hi
        BY <1>1, <3>3
      <4>2. PICK f \in ToSet(files) : lo <= Lo(f) /\ Lo(f) <= k /\ k <= Hi(f) /\ Hi(f) <= hi
        BY <2>2, <4>1 DEF WidenedTo, Covered
      <4>3. Lo(f) \in Nat /\ Hi(f) \in Nat
        BY <1>2 DEF RangesAre
      <4>4. l <= Lo(f) /\ Hi(f) <= h
        BY <1>1, <1>3, <4>2, <4>3
      <4>5. QED
        BY <4>2, <4>4 DEF Covered
    <3>4. QED
      BY <1>1, <3>1, <3>2, <3>3
  <2>3. QED
    BY <2>1, <2>2 DEF WidenedTo
<1>6. ASSUME Settled(files, lo, hi) PROVE l = lo /\ h = hi
  <2>1. \A f \in ToSet(m) : lo <= Lo(f) /\ Hi(f) <= hi
    BY <1>6 DEF Settled, m
  <2>2. l = lo \/ lo <= l
    BY <1>3, <2>1
  <2>3. h = hi \/ h <= hi
    BY <1>3, <2>1
  <2>4. QED
    BY <1>1, <1>3, <2>2, <2>3
<1>7. Settled(files, l, h) \/ Cardinality(Hits(files, <<lo, hi>>, N)) < Cardinality(Hits(files, <<l, h>>, N))
  <2> DEFINE P == Hits(files, <<lo, hi>>, N)
             Q == Hits(files, <<l, h>>, N)
  <2>1. /\ P = {j \in 1..N : Overlaps(files[j], lo, hi)}
        /\ Q = {j \in 1..N : Overlaps(files[j], l, h)}
    BY DEF Hits
  <2>2. /\ \A f \in S : Overlaps(f, lo, hi) <=> lo <= Hi(f) /\ Lo(f) <= hi
        /\ \A f \in S : Overlaps(f, l, h) <=> l <= Hi(f) /\ Lo(f) <= h
    BY <1>1, MeetsIs
  <2>3. \A f \in S : Overlaps(f, lo, hi) => Overlaps(f, l, h)
    <3>1. ASSUME NEW f \in S, lo <= Hi(f), Lo(f) <= hi PROVE l <= Hi(f) /\ Lo(f) <= h
      <4>1. Lo(f) \in Nat /\ Hi(f) \in Nat
        BY DEF RangesAre
      <4>2. QED
        BY <1>1, <1>3, <3>1, <4>1
    <3>2. QED
      BY <2>2, <3>1
  <2>4. \A j \in 1..N : files[j] \in S
    OBVIOUS
  <2>5. P \in SUBSET Q
    BY <2>1, <2>3, <2>4
  <2>6. IsFiniteSet(Q) /\ IsFiniteSet(P) /\ Cardinality(P) \in Nat /\ Cardinality(Q) \in Nat
    BY <1>2, HitsAreCounted, FS_CardinalityType
  <2>7. Cardinality(P) <= Cardinality(Q) /\ (Cardinality(Q) = Cardinality(P) => Q = P)
    <3> HIDE DEF P, Q
    <3>1. QED
      BY <2>5, <2>6, FS_Subset
  <2>8. ASSUME Q = P PROVE Settled(files, l, h)
    <3>1. ToSet(Met(files, <<l, h>>)) = {f \in ToSet(files) : Overlaps(f, l, h)}
      <4>1. ToSet(Met(files, <<l, h>>)) = {f \in ToSet(files) : Overlaps(f, <<l, h>>[1], <<l, h>>[2])}
        BY MetAre
      <4>2. QED
        BY <4>1
    <3>2. ASSUME NEW f \in ToSet(files), Overlaps(f, l, h) PROVE f \in ToSet(m)
      <4>1. PICK j \in 1..N : files[j] = f
        BY MembersOf
      <4>2. j \in P
        BY <2>1, <2>8, <3>2, <4>1
      <4>3. QED
        BY <1>2, <2>1, <4>1, <4>2
    <3>3. QED
      BY <1>3, <3>1, <3>2 DEF Settled
  <2> HIDE DEF P, Q
  <2>9. QED
    BY <2>6, <2>7, <2>8 DEF P, Q
<1>8. QED
  BY <1>3, <1>5, <1>6, <1>7 DEF m, N, WidensTo

(* Every round meets a file more, until the range is settled.               *)
LEMMA WidenedIs ==
  ASSUME NEW S, RangesAre(S), NEW files \in Seq(S), NEW begin \in Nat, NEW end \in Nat, begin <= end
  PROVE  \E lo, hi : /\ Widened(files, begin, end) = <<lo, hi>>
                     /\ WidenedTo(files, begin, end, lo, hi) /\ Settled(files, lo, hi)
<1> DEFINE N == Len(files)
           IsWide(f) == f = [i \in 0..N |-> IF i = 0 THEN <<begin, end>> ELSE Wider(f[i - 1], ToSet(Met(files, f[i - 1])))]
           wide == CHOOSE f : IsWide(f)
           Goes(d) == Wider(d, ToSet(Met(files, d)))
           step == [p \in (Nat \X Nat) \X (1..N) |-> Goes(p[1])]
           Good(d, i) == \E lo, hi :
             /\ d = <<lo, hi>> /\ WidenedTo(files, begin, end, lo, hi)
             /\ Settled(files, lo, hi) \/ Cardinality(Hits(files, d, N)) > i
           D == [i \in 0..N |-> {d \in Nat \X Nat : Good(d, i)}]
<1>1. Widened(files, begin, end) = wide[N]
  BY DEF Widened
<1>2. N \in Nat /\ \A i \in 1..N : i - 1 \in 0..N /\ i - 1 \in Nat /\ i \in 0..N /\ i # 0
  OBVIOUS
<1>3. <<begin, end>> \in D[0]
  <2>1. WidenedTo(files, begin, end, begin, end)
    BY DEF WidenedTo
  <2>2. ASSUME ~Settled(files, begin, end) PROVE Cardinality(Hits(files, <<begin, end>>, N)) > 0
    <3>1. PICK f \in ToSet(Met(files, <<begin, end>>)) : TRUE
      BY <2>2 DEF Settled
    <3>2. f \in ToSet(files) /\ Overlaps(f, <<begin, end>>[1], <<begin, end>>[2])
      BY <3>1, MetAre
    <3>3. PICK j \in 1..N : files[j] = f
      <4> HIDE DEF IsWide, wide, Goes, step, Good, D
      <4>1. ToSet(files) = {files[j] : j \in 1..N}
        BY MembersOf
      <4>2. QED
        BY <3>2, <4>1
    <3>4. j \in Hits(files, <<begin, end>>, N)
      BY <3>2, <3>3 DEF Hits
    <3>5. IsFiniteSet(Hits(files, <<begin, end>>, N)) /\ Cardinality(Hits(files, <<begin, end>>, N)) \in 0..N
      BY <1>2, HitsAreCounted
    <3>6. Cardinality(Hits(files, <<begin, end>>, N)) # 0
      BY <3>4, <3>5, FS_EmptySet
    <3>7. QED
      BY <1>2, <3>5, <3>6
  <2>3. Good(<<begin, end>>, 0)
    BY <2>1, <2>2
  <2> HIDE DEF Good
  <2>4. QED
    BY <1>2, <2>3
<1>4. ASSUME NEW i \in 1..N, NEW d \in D[i - 1] PROVE Goes(d) \in D[i]
  <2>1. Good(d, i - 1)
    <3> HIDE DEF Good
    <3>1. QED
      BY <1>2
  <2>2. PICK lo, hi :
             /\ d = <<lo, hi>> /\ WidenedTo(files, begin, end, lo, hi)
             /\ Settled(files, lo, hi) \/ Cardinality(Hits(files, d, N)) > i - 1
    BY <2>1
  <2>3. PICK l, h : WidensTo(files, begin, end, lo, hi, l, h)
    <3> HIDE DEF Good, D, IsWide, step, wide, Goes, N
    <3>1. WidenedTo(files, begin, end, lo, hi)
      BY <2>2
    <3>2. QED
      BY <3>1, WiderAgain
  <2>4. Goes(d) = <<l, h>>
    BY <2>2, <2>3 DEF WidensTo
  <2>5. Settled(files, l, h) \/ Cardinality(Hits(files, <<l, h>>, N)) > i
    <3>1. Cardinality(Hits(files, <<lo, hi>>, N)) \in Nat /\ Cardinality(Hits(files, <<l, h>>, N)) \in Nat
      BY <1>2, HitsAreCounted
    <3>2. CASE Settled(files, lo, hi)
      BY <2>3, <3>2 DEF WidensTo
    <3>3. CASE ~Settled(files, lo, hi)
      <4>1. Cardinality(Hits(files, <<lo, hi>>, N)) > i - 1
        BY <2>2, <3>3
      <4>2. CASE Cardinality(Hits(files, <<lo, hi>>, N)) < Cardinality(Hits(files, <<l, h>>, N))
        <5>1. \A a, b, c \in Nat : a > c - 1 /\ a < b => b > c
          OBVIOUS
        <5>2. i \in Nat
          BY <1>2
        <5>3. QED
          BY <3>1, <4>1, <4>2, <5>1, <5>2
      <4>3. QED
        BY <2>3, <3>3, <4>2 DEF WidensTo, N
    <3>4. QED
      BY <3>2, <3>3
  <2>6. Good(<<l, h>>, i)
    BY <2>3, <2>5 DEF WidensTo
  <2> HIDE DEF Good, Goes
  <2>8. l \in Nat /\ h \in Nat
    BY <2>3 DEF WidenedTo, WidensTo
  <2>7. <<l, h>> \in D[i]
    BY <1>2, <2>6, <2>8
  <2>9. QED
    BY <2>4, <2>7
<1>5. \A i \in 0..N : D[i] \subseteq Nat \X Nat
  OBVIOUS
<1>6. \A i \in 1..N : \A d \in Nat \X Nat : step[<<d, i>>] = Goes(d)
  <2> HIDE DEF Goes
  <2>1. QED
    OBVIOUS
<1>7. \E f : IsWide(f)
  <2> HIDE DEF D, step, Goes, N
  <2>1. \A i \in 1..N : \A d \in D[i - 1] : step[<<d, i>>] \in D[i]
    BY <1>2, <1>4, <1>5, <1>6
  <2>2. PICK f : /\ DOMAIN f = 0..N
                 /\ \A i \in 0..N : f[i] \in D[i] /\ f[i] = IF i = 0 THEN <<begin, end>> ELSE step[<<f[i - 1], i>>]
    <3>1. PICK first : first = <<begin, end>>
      OBVIOUS
    <3>2. Leads(N, D, first, step)
      BY <1>3, <2>1, <3>1 DEF Leads
    <3>3. N \in Nat
      BY <1>2
    <3>4. PICK f : Follows(N, D, first, step, f)
      BY <3>2, <3>3, RecursionExists
    <3>5. QED
      BY <3>1, <3>4 DEF Follows
  <2> DEFINE g == [i \in 0..N |-> f[i]]
  <2>3. \A i \in 0..N : g[i] = f[i]
    OBVIOUS
  <2>4. \A i \in 0..N : g[i] = IF i = 0 THEN <<begin, end>> ELSE Goes(g[i - 1])
    <3> HIDE DEF g
    <3>1. g[0] = <<begin, end>>
      <4>1. 0 \in 0..N
        BY <1>2
      <4>2. g[0] = f[0] /\ f[0] = <<begin, end>>
        BY <2>2, <2>3, <4>1
      <4>3. QED
        BY <4>2
    <3>2. ASSUME NEW i \in 1..N PROVE g[i] = Goes(g[i - 1])
      <4>1. f[i - 1] \in Nat \X Nat /\ f[i] = step[<<f[i - 1], i>>] /\ g[i] = f[i] /\ g[i - 1] = f[i - 1]
        BY <1>2, <1>5, <2>2, <2>3
      <4>2. QED
        BY <1>6, <4>1
    <3>3. \A i \in 0..N : i = 0 \/ i \in 1..N
      BY <1>2
    <3>4. QED
      BY <1>2, <3>1, <3>2, <3>3
  <2>5. IsWide(g)
    <3>1. g = [i \in 0..N |-> g[i]]
      OBVIOUS
    <3> HIDE DEF g
    <3>2. QED
      BY <2>4, <3>1 DEF Goes
  <2>6. QED
    BY <2>5
<1>8. IsWide(wide)
  BY <1>7
<1> HIDE DEF wide
<1>9. \A i \in 0..N : wide[i] = IF i = 0 THEN <<begin, end>> ELSE Goes(wide[i - 1])
  BY <1>8
<1> HIDE DEF IsWide, Goes, D, step, N
<1>10. \A i \in 0..N : wide[i] \in D[i]
  <2>1. wide[0] \in D[0] /\ \A i \in 1..N : wide[i - 1] \in D[i - 1] => wide[i] \in D[i]
    <3>1. 0 \in 0..N
      BY <1>2
    <3>2. QED
      BY <1>2, <1>3, <1>4, <1>9, <3>1
  <2>2. QED
    BY <1>2, <2>1, RecursionStays
<1>11. Good(wide[N], N)
  <2>1. N \in 0..N
    BY <1>2
  <2>2. wide[N] \in D[N]
    BY <1>10, <2>1
  <2> HIDE DEF Good
  <2>3. QED
    BY <2>1, <2>2 DEF D
<1>12. PICK lo, hi :
          /\ wide[N] = <<lo, hi>> /\ WidenedTo(files, begin, end, lo, hi)
          /\ Settled(files, lo, hi) \/ Cardinality(Hits(files, wide[N], N)) > N
  BY <1>11
<1>13. Cardinality(Hits(files, wide[N], N)) \in 0..N
  BY <1>2, HitsAreCounted
<1>14. Settled(files, lo, hi)
  BY <1>2, <1>12, <1>13
<1>15. QED
  BY <1>1, <1>12, <1>14

-----------------------------------------------------------------------------
(* The binary search among files that are in order.                         *)
LEMMA Halves ==
  ASSUME NEW l \in Nat, NEW r \in Nat, l < r
  PROVE  (l + r) \div 2 \in Nat /\ l <= (l + r) \div 2 /\ (l + r) \div 2 < r
OBVIOUS

LEMMA FirstNotBefore ==
  ASSUME NEW N \in Nat, NEW B, \A i, j \in 1..N : i < j /\ j \in B => i \in B
  PROVE  \E c \in 0..N : \A j \in 1..N : j \in B <=> j <= c
<1> DEFINE T == {n \in 0..N : n = N \/ n + 1 \notin B}
<1>1. PICK c \in T : \A n \in T : c <= n
  <2>1. N \in T /\ T \subseteq Nat
    OBVIOUS
  <2> HIDE DEF T
  <2>2. QED
    BY <2>1, LeastNumber
<1>2. ASSUME NEW j \in 1..N, j <= c PROVE j \in B
  <2>1. j - 1 \in 0..N /\ ~(c <= j - 1) /\ (j - 1) + 1 = j /\ j - 1 # N
    BY <1>2
  <2>2. j - 1 \notin T
    BY <1>1, <2>1
  <2>3. QED
    BY <2>1, <2>2
<1>3. ASSUME NEW j \in 1..N, j \in B, ~(j <= c) PROVE FALSE
  <2>1. c \in 0..N /\ c # N /\ c + 1 \notin B
    BY <1>3
  <2>2. c + 1 \in 1..N /\ (c + 1 < j \/ c + 1 = j)
    BY <1>3, <2>1
  <2>3. QED
    BY <1>3, <2>1, <2>2
<1>4. QED
  BY <1>2, <1>3

Clamped(c, l, r) == IF l >= r THEN r ELSE IF c >= r THEN r ELSE IF c <= l THEN l ELSE c

LEMMA ClampedHalves ==
  ASSUME NEW c \in Nat, NEW l \in Nat, NEW r \in Nat, NEW mid \in Nat, l <= mid, mid < r
  PROVE  Clamped(c, l, r) = IF mid + 1 <= c THEN Clamped(c, mid + 1, r) ELSE Clamped(c, l, mid)
BY DEF Clamped

LEMMA FindFileIs ==
  ASSUME NEW S, NEW files \in Seq(S), NEW key,
         \A i, j \in 1..Len(files) : i < j /\ Less(Largest(files[j]), key) => Less(Largest(files[i]), key)
  PROVE  \E c \in 0..Len(files) :
           FindFile(files, key) = c /\ \A j \in 1..Len(files) : Less(Largest(files[j]), key) <=> j <= c
<1> DEFINE N == Len(files)
           P(j) == Less(Largest(files[j]), key)
           Pairs == (0..N) \X (0..N)
           Searches(f) == f = [range \in Pairs |->
                                 IF range[1] >= range[2] THEN range[2]
                                 ELSE IF Less(Largest(files[((range[1] + range[2]) \div 2) + 1]), key)
                                        THEN f[<<((range[1] + range[2]) \div 2) + 1, range[2]>>]
                                 ELSE f[<<range[1], (range[1] + range[2]) \div 2>>]]
           search == CHOOSE f : Searches(f)
           Halving(f) == \A l, r \in 0..N :
                           f[<<l, r>>] = IF l >= r THEN r
                                         ELSE IF P(((l + r) \div 2) + 1) THEN f[<<((l + r) \div 2) + 1, r>>]
                                         ELSE f[<<l, (l + r) \div 2>>]
<1>1. FindFile(files, key) = search[<<0, N>>]
  BY DEF FindFile
<1>2. N \in Nat
  OBVIOUS
<1>3. PICK c \in 0..N : \A j \in 1..N : P(j) <=> j <= c
  <2> DEFINE B == {j \in 1..N : P(j)}
  <2>1. \A i, j \in 1..N : i < j /\ j \in B => i \in B
    OBVIOUS
  <2>2. \A j \in 1..N : j \in B <=> P(j)
    OBVIOUS
  <2> HIDE DEF B, N, P
  <2>3. \E c \in 0..N : \A j \in 1..N : j \in B <=> j <= c
    BY <1>2, <2>1, FirstNotBefore
  <2>4. QED
    BY <2>2, <2>3
<1>4. ASSUME NEW l \in 0..N, NEW r \in 0..N, l < r
      PROVE  /\ (l + r) \div 2 \in 0..N /\ ((l + r) \div 2) + 1 \in 0..N /\ ((l + r) \div 2) + 1 \in 1..N
             /\ l <= (l + r) \div 2 /\ (l + r) \div 2 < r
  <2>1. PICK mid : mid = (l + r) \div 2
    OBVIOUS
  <2>2. mid \in Nat /\ l <= mid /\ mid < r
    BY <1>2, <1>4, <2>1, Halves
  <2>3. mid \in 0..N /\ mid + 1 \in 0..N /\ mid + 1 \in 1..N
    BY <1>2, <2>2
  <2>4. QED
    BY <2>1, <2>2, <2>3
<1> DEFINE g == [range \in Pairs |-> Clamped(c, range[1], range[2])]
<1>5. \A l, r \in 0..N : g[<<l, r>>] = Clamped(c, l, r)
  <2> HIDE DEF N
  <2>1. QED
    OBVIOUS
<1>6. ASSUME NEW l \in 0..N, NEW r \in 0..N
      PROVE  Clamped(c, l, r) = IF l >= r THEN r
                                ELSE IF P(((l + r) \div 2) + 1) THEN Clamped(c, ((l + r) \div 2) + 1, r)
                                ELSE Clamped(c, l, (l + r) \div 2)
  <2>1. CASE l >= r
    BY <2>1 DEF Clamped
  <2>2. CASE ~(l >= r)
    <3>1. PICK mid : mid = (l + r) \div 2
      OBVIOUS
    <3>2. l \in Nat /\ r \in Nat /\ c \in Nat /\ l < r
      BY <1>2, <2>2
    <3> HIDE DEF N, P
    <3>3. mid \in 0..N /\ mid + 1 \in 1..N /\ l <= mid /\ mid < r
      BY <1>4, <3>1, <3>2
    <3>4. mid \in Nat
      BY <3>3
    <3>5. Clamped(c, l, r) = IF mid + 1 <= c THEN Clamped(c, mid + 1, r) ELSE Clamped(c, l, mid)
      BY <3>2, <3>3, <3>4, ClampedHalves
    <3>6. P(mid + 1) <=> mid + 1 <= c
      BY <1>3, <3>3
    <3>7. QED
      BY <2>2, <3>1, <3>5, <3>6
  <2>3. QED
    BY <2>1, <2>2
<1> HIDE DEF N, P
<1>7. \E f : Searches(f)
  <2>1. \A range \in Pairs :
          g[range] = IF range[1] >= range[2] THEN range[2]
                     ELSE IF P(((range[1] + range[2]) \div 2) + 1)
                            THEN g[<<((range[1] + range[2]) \div 2) + 1, range[2]>>]
                     ELSE g[<<range[1], (range[1] + range[2]) \div 2>>]
    <3> SUFFICES ASSUME NEW l \in 0..N, NEW r \in 0..N
                 PROVE  g[<<l, r>>] = IF l >= r THEN r
                                      ELSE IF P(((l + r) \div 2) + 1) THEN g[<<((l + r) \div 2) + 1, r>>]
                                      ELSE g[<<l, (l + r) \div 2>>]
      OBVIOUS
    <3>1. CASE l >= r
      BY <1>5, <1>6, <3>1
    <3>2. CASE ~(l >= r)
      <4>1. l < r
        BY <1>2, <3>2
      <4>2. (l + r) \div 2 \in 0..N /\ ((l + r) \div 2) + 1 \in 0..N
        BY <1>4, <4>1
      <4> HIDE DEF g
      <4>3. /\ g[<<((l + r) \div 2) + 1, r>>] = Clamped(c, ((l + r) \div 2) + 1, r)
            /\ g[<<l, (l + r) \div 2>>] = Clamped(c, l, (l + r) \div 2)
            /\ g[<<l, r>>] = Clamped(c, l, r)
        BY <1>5, <4>2
      <4>4. QED
        BY <1>6, <4>3
    <3>3. QED
      BY <3>1, <3>2
  <2>2. g = [range \in Pairs |-> g[range]]
    OBVIOUS
  <2> HIDE DEF g
  <2>3. Searches(g)
    BY <2>1, <2>2 DEF P
  <2>4. QED
    BY <2>3
<1>8. Searches(search)
  BY <1>7
<1> HIDE DEF search
<1>9. Halving(search)
  <2> SUFFICES ASSUME NEW l \in 0..N, NEW r \in 0..N
               PROVE  search[<<l, r>>] = IF l >= r THEN r
                                      ELSE IF P(((l + r) \div 2) + 1) THEN search[<<((l + r) \div 2) + 1, r>>]
                                      ELSE search[<<l, (l + r) \div 2>>]
    OBVIOUS
  <2>1. <<l, r>> \in Pairs /\ <<l, r>>[1] = l /\ <<l, r>>[2] = r
    OBVIOUS
  <2>2. QED
    BY <1>8, <2>1 DEF P
<1> HIDE DEF Searches
<1> DEFINE T == {n \in 0..N : \A l, r \in 0..N : r - l <= n => search[<<l, r>>] = Clamped(c, l, r)}
<1>10. 0 \in T
  <2>1. ASSUME NEW l \in 0..N, NEW r \in 0..N, r - l <= 0 PROVE search[<<l, r>>] = Clamped(c, l, r)
    <3>1. l >= r
      BY <1>2, <2>1
    <3>2. QED
      BY <1>6, <1>9, <3>1
  <2> HIDE DEF Halving
  <2>2. QED
    BY <1>2, <2>1
<1>11. ASSUME NEW n \in 0..(N - 1), n \in T PROVE n + 1 \in T
  <2>1. ASSUME NEW l \in 0..N, NEW r \in 0..N, r - l <= n + 1 PROVE search[<<l, r>>] = Clamped(c, l, r)
    <3>1. CASE l >= r
      BY <1>6, <1>9, <3>1
    <3>2. CASE ~(l >= r)
      <4>1. PICK mid : mid = (l + r) \div 2
        OBVIOUS
      <4>2. l < r
        BY <1>2, <3>2
      <4>3. mid \in 0..N /\ mid + 1 \in 0..N /\ l <= mid /\ mid < r
        BY <1>4, <4>1, <4>2
      <4>4. r - (mid + 1) <= n /\ mid - l <= n
        BY <1>2, <2>1, <4>3
      <4>5. search[<<mid + 1, r>>] = Clamped(c, mid + 1, r) /\ search[<<l, mid>>] = Clamped(c, l, mid)
        BY <1>11, <4>3, <4>4
      <4>6. search[<<l, r>>] = IF P(mid + 1) THEN search[<<mid + 1, r>>] ELSE search[<<l, mid>>]
        BY <1>9, <3>2, <4>1
      <4>7. Clamped(c, l, r) = IF P(mid + 1) THEN Clamped(c, mid + 1, r) ELSE Clamped(c, l, mid)
        BY <1>6, <3>2, <4>1
      <4>8. QED
        BY <4>5, <4>6, <4>7
    <3>3. QED
      BY <3>1, <3>2
  <2> HIDE DEF Halving
  <2>2. n + 1 \in 0..N
    BY <1>2
  <2>3. QED
    BY <2>1, <2>2
<1>12. search[<<0, N>>] = Clamped(c, 0, N)
  <2> HIDE DEF T, Halving
  <2>1. N \in T
    <3>1. N \in 0..N
      BY <1>2
    <3>2. QED
      BY <1>2, <1>10, <1>11, <3>1, UpTo
  <2>2. 0 \in 0..N /\ N \in 0..N /\ N - 0 <= N
    BY <1>2
  <2>3. QED
    BY <2>1, <2>2 DEF T
<1>13. Clamped(c, 0, N) = c
  BY <1>2 DEF Clamped
<1>14. QED
  BY <1>1, <1>3, <1>12, <1>13 DEF N, P

-----------------------------------------------------------------------------
(* The levels of a version.                                                 *)
LEMMA LevelFiles ==
  ASSUME NEW last, NEW version, VersionIs(version, last), NEW level \in Levels
  PROVE  /\ version[level] \in Seq(FilesOf(version)) /\ Len(version[level]) \in Nat
         /\ ToSet(version[level]) = {version[level][i] : i \in 1..Len(version[level])}
         /\ ToSet(version[level]) \subseteq FilesOf(version) /\ IsFiniteSet(ToSet(version[level]))
<1>1. version[level] \in Seq(FilesOf(version))
  BY DEF VersionIs
<1>2. QED
  BY <1>1, MembersOf

LEMMA VersionRanges ==
  ASSUME NEW last \in Nat, NEW version, VersionIs(version, last)
  PROVE  RangesAre(FilesOf(version)) /\ \A f \in FilesOf(version) : FileIs(f, last)
BY FilesHaveRanges DEF VersionIs, FilesAre

LEMMA LevelInOrder ==
  ASSUME NEW last \in Nat, NEW version, VersionIs(version, last), NEW level \in Levels \ {0},
         NEW i \in 1..Len(version[level]), NEW j \in 1..Len(version[level]), i < j
  PROVE  Hi(version[level][i]) < Lo(version[level][j])
<1>1. PICK f, g : f = version[level][i] /\ g = version[level][j]
  OBVIOUS
<1>2. f \in ToSet(version[level]) /\ g \in ToSet(version[level]) /\ f \in FilesOf(version) /\ g \in FilesOf(version)
  BY <1>1, LevelFiles
<1>3. BySmallestKey(f, g)
  BY <1>1 DEF VersionIs, InOrder
<1>4. Smallest(f).seq \in Nat /\ f.number \in Nat /\ FileIs(f, last) /\ FileIs(g, last)
  BY <1>2, VersionRanges, FileRange DEF FileIs
<1>5. Lo(f) \in Nat /\ Hi(f) \in Nat /\ Lo(g) \in Nat /\ Hi(g) \in Nat /\ Lo(f) <= Hi(f) /\ Lo(g) <= Hi(g)
  BY <1>2, VersionRanges DEF RangesAre
<1>6. Lo(f) <= Lo(g)
  <2>1. Lo(f) < Lo(g) \/ Lo(f) = Lo(g)
    BY <1>3 DEF BySmallestKey, Less, Lo
  <2>2. QED
    BY <1>5, <2>1
<1>7. f # g
  <2>1. ~Less(Smallest(f), Smallest(f))
    BY <1>4, <1>5, LessIsStrict DEF Lo
  <2>2. ~(f.number < f.number)
    BY <1>4
  <2>3. QED
    BY <1>3, <2>1, <2>2 DEF BySmallestKey
<1>8. Apart(f, g)
  BY <1>2, <1>7 DEF VersionIs
<1>9. QED
  BY <1>1, <1>5, <1>6, <1>8 DEF Apart

(* Where the flush of a memtable goes nothing overlaps it.                  *)
LEMMA SearchInLevel ==
  ASSUME NEW last \in Nat, NEW version, VersionIs(version, last), NEW level \in Levels \ {0}, NEW key, key.key \in Nat
  PROVE  \E c \in 0..Len(version[level]) :
           /\ FindFile(version[level], key) = c
           /\ \A j \in 1..Len(version[level]) : Less(Largest(version[level][j]), key) <=> j <= c
<1> DEFINE files == version[level]
<1>1. files \in Seq(FilesOf(version)) /\ \A i \in 1..Len(files) : files[i] \in FilesOf(version)
  BY LevelFiles
<1>2. ASSUME NEW i \in 1..Len(files), NEW j \in 1..Len(files), i < j, Less(Largest(files[j]), key)
      PROVE  Less(Largest(files[i]), key)
  <2>1. Hi(files[i]) < Lo(files[j])
    BY <1>2, LevelInOrder
  <2>2. Hi(files[i]) \in Nat /\ Lo(files[j]) \in Nat /\ Hi(files[j]) \in Nat /\ Lo(files[j]) <= Hi(files[j])
    BY <1>1, VersionRanges DEF RangesAre
  <2>3. Hi(files[j]) <= key.key
    BY <1>2, <2>2 DEF Less, Hi
  <2>4. Hi(files[i]) < key.key
    BY <2>1, <2>2, <2>3
  <2>5. QED
    BY <2>4 DEF Less, Hi
<1> HIDE DEF files
<1>3. \E c \in 0..Len(files) : FindFile(files, key) = c /\ \A j \in 1..Len(files) : Less(Largest(files[j]), key) <=> j <= c
  BY <1>1, <1>2, FindFileIs
<1>4. QED
  BY <1>3 DEF files

IsOverlapped(version, level, begin, end, maxSeq) ==
  SomeFileOverlapsRange(level > 0, version[level], begin, end, maxSeq)

LEMMA NothingOverlaps ==
  ASSUME NEW last \in Nat, NEW version, VersionIs(version, last), NEW level \in Levels,
         NEW begin \in Nat, NEW end \in Nat, NEW maxSeq \in Nat, last <= maxSeq,
         ~IsOverlapped(version, level, begin, end, maxSeq)
  PROVE  \A f \in ToSet(version[level]) : Hi(f) < begin \/ end < Lo(f)
<1> DEFINE files == version[level]
           N == Len(files)
<1>1. /\ files \in Seq(FilesOf(version)) /\ ToSet(files) = {files[i] : i \in 1..N} /\ N \in Nat
      /\ \A i \in 1..N : files[i] \in FilesOf(version)
  <2>1. files \in Seq(FilesOf(version))
    BY LevelFiles
  <2> HIDE DEF files
  <2>2. ToSet(files) = {files[i] : i \in 1..N} /\ N \in Nat
    BY <2>1, MembersOf
  <2>3. QED
    BY <2>1, <2>2
<1>2. \A f \in FilesOf(version) : Lo(f) \in Nat /\ Hi(f) \in Nat /\ Lo(f) <= Hi(f)
  BY VersionRanges DEF RangesAre
<1>3. CASE level = 0
  <2>1. \A i \in 1..N : ~Overlaps(files[i], begin, end)
    BY <1>3 DEF IsOverlapped, SomeFileOverlapsRange
  <2>2. \A f \in FilesOf(version) : Overlaps(f, begin, end) <=> begin <= Hi(f) /\ Lo(f) <= end
    BY VersionRanges, MeetsIs
  <2>3. \A i \in 1..N : ~(begin <= Hi(files[i]) /\ Lo(files[i]) <= end)
    BY <1>1, <2>1, <2>2
  <2>4. \A i \in 1..N : Hi(files[i]) < begin \/ end < Lo(files[i])
    <3> HIDE DEF N, files
    <3>1. \A i \in 1..N : Lo(files[i]) \in Nat /\ Hi(files[i]) \in Nat
      BY <1>1, <1>2
    <3>2. QED
      BY <2>3, <3>1
  <2>5. QED
    BY <1>1, <2>4
<1>4. CASE level # 0
  <2> DEFINE key == LookupKey(begin, maxSeq)
  <2>1. level \in Levels \ {0} /\ key.key = begin /\ key.seq = maxSeq
    BY <1>4 DEF LookupKey
  <2>2. PICK c \in 0..N : FindFile(files, key) = c /\ \A j \in 1..N : Less(Largest(files[j]), key) <=> j <= c
    BY <2>1, SearchInLevel
  <2>3. \A j \in 1..N : Less(Largest(files[j]), key) <=> Hi(files[j]) < begin
    <3>1. ASSUME NEW j \in 1..N PROVE Largest(files[j]).seq \in Nat /\ Largest(files[j]).seq <= last
      <4>1. FileIs(files[j], last)
        BY <1>1, VersionRanges
      <4>2. QED
        BY <4>1, FileRange
    <3> HIDE DEF files, N
    <3>2. \A j \in 1..N : ~(Largest(files[j]).seq > maxSeq)
      BY <3>1
    <3>3. QED
      BY <2>1, <3>2 DEF Less, Hi
  <2>4. ~(c < N /\ ~BeforeFile(end, files[c + 1]))
    <3>1. level > 0 /\ begin # NoEnd
      BY <1>4, NoneAssumption DEF Levels
    <3>2. QED
      BY <2>2, <3>1 DEF IsOverlapped, SomeFileOverlapsRange
  <2>5. c < N => end < Lo(files[c + 1])
    BY <2>4 DEF BeforeFile, Lo
  <2>6. ASSUME NEW j \in 1..N PROVE Hi(files[j]) < begin \/ end < Lo(files[j])
    <3>1. CASE j <= c
      BY <2>2, <2>3, <3>1
    <3>2. CASE j = c + 1
      <4>1. c < N
        BY <1>1, <3>2
      <4>2. QED
        BY <2>5, <3>2, <4>1
    <3>3. CASE j > c + 1
      <4>1. c < N /\ c + 1 \in 1..N /\ c + 1 < j
        BY <1>1, <3>3
      <4>2. Hi(files[c + 1]) < Lo(files[j])
        BY <2>1, <4>1, LevelInOrder
      <4>3. /\ Lo(files[c + 1]) \in Nat /\ Hi(files[c + 1]) \in Nat /\ Lo(files[c + 1]) <= Hi(files[c + 1])
            /\ Lo(files[j]) \in Nat
        BY <1>1, <1>2, <4>1
      <4>4. end < Lo(files[c + 1])
        BY <2>5, <4>1
      <4> HIDE DEF files, N
      <4>5. QED
        BY <4>2, <4>3, <4>4
    <3>4. QED
      BY <1>1, <3>1, <3>2, <3>3
  <2>7. QED
    BY <1>1, <2>6
<1>5. QED
  BY <1>3, <1>4

LEMMA LevelPicked ==
  ASSUME NEW last \in Nat, NEW version, VersionIs(version, last),
         NEW begin \in Nat, NEW end \in Nat, NEW maxSeq \in Nat, last <= maxSeq,
         NEW level, level = PickLevelForMemTableOutput(version, begin, end, maxSeq)
  PROVE  /\ level \in Levels
         /\ level # 0 => \A l \in 0..level : \A f \in ToSet(version[l]) : Hi(f) < begin \/ end < Lo(f)
<1> DEFINE overlap(l) == SomeFileOverlapsRange(l > 0, version[l], begin, end, maxSeq)
           passes(l) == /\ ~overlap(l + 1)
                        /\ l + 2 < NumLevels =>
                             TotalFileSize(GetOverlappingInputs(version, l + 2, begin, end)) <= MaxGrandParentOverlap
           T == {n \in 0..MaxMemCompactLevel : \A l \in 0..(n - 1) : passes(l)}
<1>1. level = IF overlap(0) THEN 0 ELSE Max(T)
  BY DEF PickLevelForMemTableOutput
<1>2. NumLevels \in Nat /\ NumLevels >= 2 /\ MaxMemCompactLevel \in 0..(NumLevels - 1)
  BY LevelsAssumption
<1>3. Max(T) \in T
  <2>1. T \subseteq 0..MaxMemCompactLevel /\ 0 \in T
    BY <1>2
  <2>2. T \subseteq Nat /\ T \in SUBSET (0..MaxMemCompactLevel) /\ IsFiniteSet(0..MaxMemCompactLevel)
    BY <1>2, <2>1, FS_Interval
  <2> HIDE DEF T
  <2>3. IsFiniteSet(T)
    BY <2>2, FS_Subset
  <2>4. QED
    BY <2>1, <2>2, <2>3, MaxIsGreatest
<1>4. level \in Levels
  <2>1. \A n \in 0..MaxMemCompactLevel : n \in Levels
    BY <1>2 DEF Levels
  <2>2. 0 \in Levels
    BY <1>2 DEF Levels
  <2> HIDE DEF overlap, passes
  <2>3. QED
    BY <1>1, <1>3, <2>1, <2>2
<1>5. ASSUME level # 0, NEW l \in 0..level PROVE l \in Levels /\ ~overlap(l)
  <2>1. ~overlap(0) /\ \A k \in 0..(level - 1) : ~overlap(k + 1)
    <3> HIDE DEF overlap
    <3>1. QED
      BY <1>1, <1>3, <1>5
  <2>2. l \in Levels /\ (l = 0 \/ (l - 1 \in 0..(level - 1) /\ (l - 1) + 1 = l))
    BY <1>2, <1>4 DEF Levels
  <2> HIDE DEF overlap
  <2>3. QED
    BY <2>1, <2>2
<1>6. ASSUME level # 0, NEW l \in 0..level PROVE \A f \in ToSet(version[l]) : Hi(f) < begin \/ end < Lo(f)
  <2>1. l \in Levels /\ ~IsOverlapped(version, l, begin, end, maxSeq)
    BY <1>5, <1>6 DEF IsOverlapped
  <2>2. QED
    BY <2>1, NothingOverlaps
<1>7. QED
  BY <1>4, <1>6

-----------------------------------------------------------------------------
(* The sizes of files, and the level that is compacted for its size.        *)
LEMMA TotalIs ==
  ASSUME NEW S, NEW files \in Seq(S), \A f \in S : Cardinality(f.entries) \in Nat
  PROVE  TotalFileSize(files) \in Nat /\ (Len(files) = 0 => TotalFileSize(files) = 0)
<1> DEFINE N == Len(files)
           IsSum(f) == f = [i \in 0..N |-> IF i = 0 THEN 0 ELSE f[i - 1] + Cardinality(files[i].entries)]
           sum == CHOOSE f : IsSum(f)
           step == [p \in Nat \X (1..N) |-> p[1] + Cardinality(files[p[2]].entries)]
           D == [i \in 0..N |-> Nat]
<1>1. TotalFileSize(files) = sum[N]
  BY DEF TotalFileSize
<1>2. /\ N \in Nat /\ N \in 0..N
      /\ \A i \in 1..N : i # 0 /\ i \in 0..N /\ i - 1 \in 0..N /\ Cardinality(files[i].entries) \in Nat
  OBVIOUS
<1>3. /\ 0 \in D[0] /\ \A i \in 0..N : D[i] = Nat
      /\ \A i \in 1..N : \A d \in Nat : step[<<d, i>>] = d + Cardinality(files[i].entries)
  BY <1>2
<1> HIDE DEF N, step, D
<1>4. \A i \in 1..N : \A d \in Nat : d + Cardinality(files[i].entries) \in Nat
  BY <1>2
<1>5. \E f : IsSum(f)
  <2>1. \A i \in 1..N : \A d \in D[i - 1] : step[<<d, i>>] \in D[i]
    <3> HIDE DEF IsSum, sum
    <3>1. ASSUME NEW i \in 1..N, NEW d \in D[i - 1] PROVE step[<<d, i>>] \in D[i]
      <4>1. D[i - 1] = Nat /\ D[i] = Nat
        BY <1>2, <1>3
      <4>2. d \in Nat
        BY <4>1
      <4>3. step[<<d, i>>] = d + Cardinality(files[i].entries)
        BY <1>3, <4>2
      <4>4. d + Cardinality(files[i].entries) \in Nat
        BY <1>4, <4>2
      <4>5. QED
        BY <4>1, <4>3, <4>4
    <3>2. QED
      BY <3>1
  <2>2. PICK f : /\ DOMAIN f = 0..N
                 /\ \A i \in 0..N : f[i] \in D[i] /\ f[i] = IF i = 0 THEN 0 ELSE step[<<f[i - 1], i>>]
    <3> HIDE DEF IsSum, sum
    <3>1. PICK first : first = 0
      OBVIOUS
    <3>2. Leads(N, D, first, step)
      BY <1>3, <2>1, <3>1 DEF Leads
    <3>3. N \in Nat
      BY <1>2
    <3>4. PICK f : Follows(N, D, first, step, f)
      BY <3>2, <3>3, RecursionExists
    <3>5. QED
      BY <3>1, <3>4 DEF Follows
  <2> DEFINE g == [i \in 0..N |-> f[i]]
  <2>3. \A i \in 0..N : g[i] = f[i] /\ f[i] \in Nat
    BY <1>3, <2>2
  <2>4. \A i \in 0..N : g[i] = IF i = 0 THEN 0 ELSE g[i - 1] + Cardinality(files[i].entries)
    <3>1. \A i \in 0..N : i = 0 \/ i \in 1..N
      BY <1>2
    <3> HIDE DEF g
    <3>2. QED
      BY <1>2, <1>3, <2>2, <2>3, <3>1
  <2>5. IsSum(g)
    <3>1. g = [i \in 0..N |-> g[i]]
      OBVIOUS
    <3> HIDE DEF g
    <3>2. QED
      BY <2>4, <3>1
  <2>6. QED
    BY <2>5
<1>6. IsSum(sum)
  BY <1>5
<1> HIDE DEF sum
<1>7. \A i \in 0..N : sum[i] = IF i = 0 THEN 0 ELSE sum[i - 1] + Cardinality(files[i].entries)
  BY <1>6
<1> HIDE DEF IsSum
<1>8. \A i \in 0..N : sum[i] \in D[i]
  <2>1. sum[0] \in D[0] /\ \A i \in 1..N : sum[i - 1] \in D[i - 1] => sum[i] \in D[i]
    <3>1. 0 \in 0..N
      BY <1>2
    <3>2. sum[0] = 0
      BY <1>7, <3>1
    <3>3. ASSUME NEW i \in 1..N, sum[i - 1] \in D[i - 1] PROVE sum[i] \in D[i]
      <4>1. D[i - 1] = Nat /\ D[i] = Nat
        BY <1>2, <1>3
      <4>2. sum[i - 1] \in Nat
        BY <3>3, <4>1
      <4>3. sum[i] = sum[i - 1] + Cardinality(files[i].entries)
        BY <1>2, <1>7
      <4>4. sum[i - 1] + Cardinality(files[i].entries) \in Nat
        BY <1>4, <4>2
      <4>5. QED
        BY <4>1, <4>3, <4>4
    <3>4. QED
      BY <1>3, <3>2, <3>3
  <2>2. QED
    BY <1>2, <2>1, RecursionStays
<1>9. QED
  BY <1>1, <1>2, <1>3, <1>7, <1>8 DEF N

LEMMA BytesAre ==
  \A level \in 1..(NumLevels - 1) : MaxBytesForLevel[level] \in Nat \ {0}
<1> DEFINE N == NumLevels - 2
           P == Nat \ {0}
           IsMax(f) == f = [level \in 1..(NumLevels - 1) |->
                              IF level = 1 THEN Level1Bytes ELSE LevelFactor * f[level - 1]]
           step == [p \in P \X (1..N) |-> LevelFactor * p[1]]
           D == [i \in 0..N |-> P]
<1>1. MaxBytesForLevel = CHOOSE f : IsMax(f)
  BY DEF MaxBytesForLevel
<1>2. /\ N \in Nat /\ \A i \in 1..N : i # 0 /\ i \in 0..N /\ i - 1 \in 0..N
      /\ \A level \in 1..(NumLevels - 1) : level - 1 \in 0..N /\ (level = 1 <=> level - 1 = 0) /\ (level # 1 => level - 1 \in 1..(NumLevels - 1) /\ level - 1 \in 1..N)
      /\ \A i \in 0..N : i + 1 \in 1..(NumLevels - 1) /\ (i + 1) - 1 = i
  BY LevelsAssumption
<1>3. \A d \in P : LevelFactor * d \in P
  BY SizesAssumption
<1>4. /\ Level1Bytes \in D[0] /\ (\A i \in 0..N : D[i] = P)
      /\ \A i \in 1..N : \A d \in P : step[<<d, i>>] = LevelFactor * d
  BY <1>2, SizesAssumption
<1> HIDE DEF step, D, N, P
<1>5. \E f : IsMax(f)
  <2>1. \A i \in 1..N : \A d \in D[i - 1] : step[<<d, i>>] \in D[i]
    <3> HIDE DEF IsMax
    <3>1. ASSUME NEW i \in 1..N, NEW d \in D[i - 1] PROVE step[<<d, i>>] \in D[i]
      <4>1. D[i - 1] = P /\ D[i] = P
        BY <1>2, <1>4
      <4>2. d \in P
        BY <4>1
      <4>3. step[<<d, i>>] = LevelFactor * d
        BY <1>4, <4>2
      <4>4. LevelFactor * d \in P
        BY <1>3, <4>2
      <4>5. QED
        BY <4>1, <4>3, <4>4
    <3>2. QED
      BY <3>1
  <2>2. PICK f : /\ DOMAIN f = 0..N
                 /\ \A i \in 0..N : f[i] \in D[i] /\ f[i] = IF i = 0 THEN Level1Bytes ELSE step[<<f[i - 1], i>>]
    <3> HIDE DEF IsMax
    <3>1. PICK first : first = Level1Bytes
      OBVIOUS
    <3>2. Leads(N, D, first, step)
      BY <1>4, <2>1, <3>1 DEF Leads
    <3>3. N \in Nat
      BY <1>2
    <3>4. PICK f : Follows(N, D, first, step, f)
      BY <3>2, <3>3, RecursionExists
    <3>5. QED
      BY <3>1, <3>4 DEF Follows
  <2> DEFINE g == [level \in 1..(NumLevels - 1) |-> f[level - 1]]
  <2>3. \A level \in 1..(NumLevels - 1) : g[level] = f[level - 1]
    OBVIOUS
  <2>4. ASSUME NEW level \in 1..(NumLevels - 1)
        PROVE  g[level] = IF level = 1 THEN Level1Bytes ELSE LevelFactor * g[level - 1]
    <3> HIDE DEF g
    <3>1. CASE level = 1
      <4>1. g[level] = f[0] /\ f[0] = Level1Bytes
        BY <1>2, <2>2, <2>3, <3>1
      <4>2. QED
        BY <3>1, <4>1
    <3>2. CASE level # 1
      <4>1. level - 1 \in 0..N /\ level - 1 # 0 /\ level - 1 \in 1..(NumLevels - 1) /\ level - 1 \in 1..N
        BY <1>2, <3>2
      <4>2. (level - 1) - 1 \in 0..N
        BY <1>2, <4>1
      <4>3. g[level] = f[level - 1] /\ g[level - 1] = f[(level - 1) - 1]
        BY <2>3, <4>1
      <4>4. f[level - 1] = step[<<f[(level - 1) - 1], level - 1>>] /\ f[(level - 1) - 1] \in P
        BY <1>4, <2>2, <4>1, <4>2
      <4>5. QED
        BY <1>4, <3>2, <4>1, <4>3, <4>4
    <3>3. QED
      BY <3>1, <3>2
  <2>5. IsMax(g)
    <3>1. g = [level \in 1..(NumLevels - 1) |-> g[level]]
      OBVIOUS
    <3> HIDE DEF g
    <3>2. QED
      BY <2>4, <3>1
  <2>6. QED
    BY <2>5
<1>6. IsMax(MaxBytesForLevel)
  BY <1>1, <1>5
<1> DEFINE h == [i \in 0..N |-> MaxBytesForLevel[i + 1]]
<1>7. \A level \in 1..(NumLevels - 1) :
        MaxBytesForLevel[level] = IF level = 1 THEN Level1Bytes ELSE LevelFactor * MaxBytesForLevel[level - 1]
  <2> HIDE DEF h
  <2>1. QED
    BY <1>6
<1> HIDE DEF IsMax
<1>8. \A i \in 0..N : h[i] = MaxBytesForLevel[i + 1]
  OBVIOUS
<1> HIDE DEF h
<1>9. \A i \in 0..N : h[i] \in D[i]
  <2>1. h[0] \in D[0]
    <3>1. 0 \in 0..N /\ 1 \in 1..(NumLevels - 1) /\ 0 + 1 = 1
      BY <1>2
    <3>2. h[0] = Level1Bytes
      BY <1>7, <1>8, <3>1
    <3>3. QED
      BY <1>4, <3>2
  <2>2. ASSUME NEW i \in 1..N, h[i - 1] \in D[i - 1] PROVE h[i] \in D[i]
    <3>1. /\ i \in 0..N /\ i - 1 \in 0..N /\ i # 0 /\ i + 1 \in 1..(NumLevels - 1)
          /\ i + 1 # 1 /\ (i + 1) - 1 = i /\ (i - 1) + 1 = i
      BY <1>2
    <3>2. h[i] = MaxBytesForLevel[i + 1] /\ h[i - 1] = MaxBytesForLevel[i]
      BY <1>8, <3>1
    <3>3. h[i] = LevelFactor * h[i - 1]
      BY <1>7, <3>1, <3>2
    <3>4. h[i - 1] \in P
      BY <1>4, <2>2, <3>1
    <3>5. QED
      BY <1>3, <1>4, <3>1, <3>3, <3>4
  <2>3. QED
    BY <1>2, <2>1, <2>2, RecursionStays
<1>10. QED
  BY <1>2, <1>4, <1>8, <1>9 DEF P

(* The order of fractions by cross multiplication.                          *)
LEMMA TimesKeepsOrder ==
  ASSUME NEW x \in Nat, NEW y \in Nat, NEW p \in Nat \ {0}
  PROVE  /\ x < y <=> x * p < y * p
         /\ x <= y <=> x * p <= y * p
         /\ x * p = y * p => x = y
<1>1. x < y => x * p < y * p
  OBVIOUS
<1>2. y < x => y * p < x * p
  OBVIOUS
<1>3. x * p \in Nat /\ y * p \in Nat
  OBVIOUS
<1>4. QED
  BY <1>1, <1>2, <1>3

LEMMA FractionsAreOrdered ==
  ASSUME NEW x \in Nat, NEW y \in Nat, NEW z \in Nat, NEW p \in Nat \ {0}, NEW q \in Nat \ {0}, NEW r \in Nat \ {0},
         x * q <= y * p, y * r <= z * q
  PROVE  x * r <= z * p /\ (x * q < y * p \/ y * r < z * q => x * r < z * p)
<1> DEFINE a == x * q
           b == y * p
           c == y * r
           d == z * q
           e == x * r
           f == z * p
<1>1. a \in Nat /\ b \in Nat /\ c \in Nat /\ d \in Nat /\ e \in Nat /\ f \in Nat
  OBVIOUS
<1>2. a * r = e * q /\ b * r = c * p /\ d * p = f * q
  BY Z3
<1>3. a <= b /\ c <= d
  OBVIOUS
<1> HIDE DEF a, b, c, d, e, f
<1>4. a * r <= b * r /\ c * p <= d * p /\ (a < b => a * r < b * r) /\ (c < d => c * p < d * p)
  BY <1>1, <1>3, TimesKeepsOrder
<1>5. e * q \in Nat /\ c * p \in Nat /\ f * q \in Nat
  BY <1>1
<1>6. e * q <= f * q /\ (a < b \/ c < d => e * q < f * q)
  BY <1>2, <1>4, <1>5
<1>7. e <= f /\ (a < b \/ c < d => e < f)
  BY <1>1, <1>6, TimesKeepsOrder
<1>8. QED
  BY <1>7 DEF a, b, c, d, e, f

-----------------------------------------------------------------------------
LEMMA CardinalitiesAre ==
  ASSUME NEW last \in Nat, NEW S, \A f \in S : FileIs(f, last)
  PROVE  \A f \in S : Cardinality(f.entries) \in Nat
<1>1. \A f \in S : IsFiniteSet(f.entries)
  BY DEF FileIs, EntriesAre
<1>2. QED
  BY <1>1, FS_CardinalityType

LEMMA ScoresAre ==
  ASSUME NEW last \in Nat, NEW version, VersionIs(version, last), NEW level \in 0..(NumLevels - 2)
  PROVE  /\ Score(version, level)[1] \in Nat /\ Score(version, level)[2] \in Nat \ {0}
         /\ Len(version[level]) = 0 => Score(version, level)[1] = 0
<1>1. level \in Levels /\ (level # 0 => level \in 1..(NumLevels - 1))
  BY LevelsAssumption DEF Levels
<1>2. version[level] \in Seq(FilesOf(version)) /\ Len(version[level]) \in Nat
  BY <1>1, LevelFiles
<1>3. \A f \in FilesOf(version) : Cardinality(f.entries) \in Nat
  BY VersionRanges, CardinalitiesAre
<1>4. TotalFileSize(version[level]) \in Nat /\ (Len(version[level]) = 0 => TotalFileSize(version[level]) = 0)
  BY <1>2, <1>3, TotalIs
<1>5. CASE level = 0
  <2>1. Score(version, level) = <<Len(version[0]), L0Trigger>>
    BY <1>5 DEF Score
  <2>2. QED
    BY <1>2, <1>5, <2>1, SizesAssumption
<1>6. CASE level # 0
  <2>1. Score(version, level) = <<TotalFileSize(version[level]), MaxBytesForLevel[level]>>
    BY <1>6 DEF Score
  <2>2. MaxBytesForLevel[level] \in Nat \ {0}
    BY <1>1, <1>6, BytesAre
  <2>3. QED
    BY <1>4, <2>1, <2>2
<1>7. QED
  BY <1>5, <1>6

LEMMA BestScore ==
  ASSUME NEW N \in Nat, NEW x, NEW p, \A l \in 0..N : x[l] \in Nat /\ p[l] \in Nat \ {0}
  PROVE  \E l \in 0..N : \A m \in 0..N :
           /\ ~(x[m] * p[l] > x[l] * p[m])
           /\ m < l => x[l] * p[m] > x[m] * p[l]
<1> DEFINE S == 0..N
           Better(a, b) == x[b] * p[a] < x[a] * p[b] \/ (x[a] * p[b] = x[b] * p[a] /\ a < b)
           R == {pair \in S \X S : Better(pair[2], pair[1])}
<1>1. \A a, b \in S : <<a, b>> \in R <=> Better(b, a)
  OBVIOUS
<1>2. \A a, b \in S : x[a] * p[b] \in Nat
  <2>1. \A k, n \in Nat : k * n \in Nat
    OBVIOUS
  <2>2. QED
    BY <2>1
<1>3. ASSUME NEW a \in S, NEW b \in S, NEW c \in S, Better(a, b), Better(b, c) PROVE Better(a, c)
  <2>1. /\ x[a] \in Nat /\ x[b] \in Nat /\ x[c] \in Nat
        /\ p[a] \in Nat \ {0} /\ p[b] \in Nat \ {0} /\ p[c] \in Nat \ {0}
    OBVIOUS
  <2>2. x[c] * p[b] <= x[b] * p[c] /\ x[b] * p[a] <= x[a] * p[b]
    <3>1. \A k, n \in Nat : k < n \/ n = k => k <= n
      OBVIOUS
    <3>2. QED
      BY <1>2, <1>3, <3>1
  <2> HIDE DEF S
  <2>3. /\ x[c] * p[a] <= x[a] * p[c]
        /\ x[c] * p[b] < x[b] * p[c] \/ x[b] * p[a] < x[a] * p[b] => x[c] * p[a] < x[a] * p[c]
    BY <2>1, <2>2, FractionsAreOrdered
  <2>4. CASE x[c] * p[b] < x[b] * p[c] \/ x[b] * p[a] < x[a] * p[b]
    BY <2>3, <2>4
  <2>5. CASE ~(x[c] * p[b] < x[b] * p[c] \/ x[b] * p[a] < x[a] * p[b])
    <3>1. a < b /\ b < c
      BY <1>3, <2>5
    <3>2. a < c
      BY <3>1 DEF S
    <3>3. x[c] * p[a] < x[a] * p[c] \/ x[a] * p[c] = x[c] * p[a]
      <4>1. \A k, n \in Nat : k <= n => k < n \/ n = k
        OBVIOUS
      <4>2. QED
        BY <1>2, <2>3, <4>1
    <3>4. QED
      BY <3>2, <3>3
  <2>6. QED
    BY <2>4, <2>5
<1>4. ASSUME NEW a \in S PROVE ~Better(a, a)
  <2>1. x[a] * p[a] \in Nat /\ ~(a < a)
    BY <1>2
  <2>2. \A k \in Nat : ~(k < k)
    OBVIOUS
  <2>3. QED
    BY <2>1, <2>2
<1>5. PICK l \in S : \A m \in S : <<l, m>> \notin R
  <2>1. IsStrict(R, S)
    <3> HIDE DEF R, Better, S
    <3>1. QED
      BY <1>1, <1>3, <1>4 DEF IsStrict
  <2>2. 0 \in S /\ IsFiniteSet(0..N)
    BY FS_Interval
  <2> HIDE DEF R, S
  <2>3. QED
    BY <2>1, <2>2, LastExists DEF S
<1>6. ASSUME NEW m \in S
      PROVE  ~(x[m] * p[l] > x[l] * p[m]) /\ (m < l => x[l] * p[m] > x[m] * p[l])
  <2>1. ~Better(m, l)
    BY <1>1, <1>5
  <2>2. x[m] * p[l] \in Nat /\ x[l] * p[m] \in Nat
    BY <1>2
  <2>3. ~(x[l] * p[m] < x[m] * p[l]) /\ ~(x[m] * p[l] = x[l] * p[m] /\ m < l)
    BY <2>1
  <2>4. \A i, j \in Nat : ~(j < i) => ~(i > j) /\ (i # j => j > i)
    OBVIOUS
  <2> HIDE DEF Better, R, S
  <2>5. QED
    BY <2>2, <2>3, <2>4
<1>7. QED
  BY <1>6

LEMMA SizePicks ==
  ASSUME NEW last \in Nat, NEW version, VersionIs(version, last)
  PROVE  /\ CompactionLevel(version) \in 0..(NumLevels - 2)
         /\ SizeCompaction(version) => Len(version[CompactionLevel(version)]) \in Nat \ {0}
<1> DEFINE N == NumLevels - 2
           x == [l \in 0..N |-> Score(version, l)[1]]
           p == [l \in 0..N |-> Score(version, l)[2]]
           higher(l, m) == Score(version, l)[1] * Score(version, m)[2]
                             > Score(version, m)[1] * Score(version, l)[2]
           Best(l) == \A m \in 0..N : ~higher(m, l) /\ (m < l => higher(l, m))
<1>1. N \in Nat
  BY LevelsAssumption
<1>2. \A l \in 0..N : x[l] = Score(version, l)[1] /\ p[l] = Score(version, l)[2]
  OBVIOUS
<1>3. \A l \in 0..N : Score(version, l)[1] \in Nat /\ Score(version, l)[2] \in Nat \ {0}
  BY ScoresAre
<1> HIDE DEF x, p
<1>4. \E l \in 0..N : Best(l)
  <2>1. \A l \in 0..N : x[l] \in Nat /\ p[l] \in Nat \ {0}
    BY <1>2, <1>3
  <2> HIDE DEF N
  <2>2. PICK l \in 0..N : \A m \in 0..N :
           /\ ~(x[m] * p[l] > x[l] * p[m])
           /\ m < l => x[l] * p[m] > x[m] * p[l]
    BY <1>1, <2>1, BestScore
  <2>3. QED
    BY <1>2, <2>2
<1>5. CompactionLevel(version) = CHOOSE l \in 0..N : Best(l)
  BY DEF CompactionLevel
<1>6. CompactionLevel(version) \in 0..N
  <2> HIDE DEF Best, N
  <2>1. QED
    BY <1>4, <1>5
<1>7. ASSUME SizeCompaction(version) PROVE Len(version[CompactionLevel(version)]) \in Nat \ {0}
  <2>1. PICK l \in 0..N : l = CompactionLevel(version)
    BY <1>6
  <2>2. Score(version, l)[1] >= Score(version, l)[2]
    BY <1>7, <2>1 DEF SizeCompaction
  <2>3. Score(version, l)[1] # 0
    BY <1>3, <2>2
  <2>4. Len(version[l]) # 0
    BY <2>3, ScoresAre
  <2>5. l \in Levels
    BY <2>1, LevelsAssumption DEF Levels
  <2>6. Len(version[l]) \in Nat
    BY <2>5, LevelFiles
  <2>7. QED
    BY <2>1, <2>4, <2>6
<1>8. QED
  BY <1>6, <1>7

-----------------------------------------------------------------------------
(* The files that a read may go through.                                    *)
LEMMA NewestSorted ==
  ASSUME NEW S, IsFiniteSet(S), \A f \in S : f.number \in Nat, \A f, g \in S : f.number = g.number => f = g
  PROVE  /\ Sorted(S, NewestFirst) \in Seq(S) /\ ToSet(Sorted(S, NewestFirst)) = S
         /\ \A i, j \in 1..Len(Sorted(S, NewestFirst)) :
              i < j => Sorted(S, NewestFirst)[i].number > Sorted(S, NewestFirst)[j].number
<1> DEFINE R == {pair \in S \X S : pair[1].number > pair[2].number}
<1>1. \A x, y \in S : <<x, y>> \in R <=> x.number > y.number
  OBVIOUS
<1> HIDE DEF R
<1>2. IsTotal(R, S)
  <2>1. \A a, b, c \in Nat : ~(a > a) /\ (a > b /\ b > c => a > c) /\ (a = b \/ a > b \/ b > a)
    OBVIOUS
  <2>2. QED
    BY <1>1, <2>1 DEF IsTotal, IsStrict
<1>3. \A x \in S : RankIn(R, S, x) = Cardinality({y \in S : NewestFirst(y, x)})
  <2>1. \A x \in S : {y \in S : <<y, x>> \in R} = {y \in S : NewestFirst(y, x)}
    BY <1>1 DEF NewestFirst
  <2>2. QED
    BY <2>1 DEF RankIn
<1> DEFINE s == Sorted(S, NewestFirst)
           n == Cardinality(S)
           Has(x, i) == Cardinality({y \in S : NewestFirst(y, x)}) = i - 1
<1>4. s = [i \in 1..n |-> CHOOSE x \in S : Has(x, i)]
  BY Zenon DEF Sorted
<1>5a. ASSUME NEW i \in 1..n PROVE s[i] \in S /\ RankIn(R, S, s[i]) = i - 1
  <2>1. \E x \in S : Has(x, i)
    BY <1>2, <1>3, RanksAreTaken
  <2>2. s[i] \in S /\ Has(s[i], i)
    <3> HIDE DEF s, Has, n
    <3>1. s[i] = CHOOSE x \in S : Has(x, i)
      BY <1>4
    <3>2. QED
      BY <2>1, <3>1
  <2>3. QED
    BY <1>3, <2>2
<1>5. s = [i \in 1..n |-> s[i]]
  <2> HIDE DEF s, Has, n
  <2>1. QED
    BY <1>4
<1> HIDE DEF s
<1>6. /\ s \in Seq(S) /\ Len(s) = Cardinality(S) /\ ToSet(s) = S
      /\ \A i, j \in 1..Len(s) : i < j => <<s[i], s[j]>> \in R
  BY <1>2, <1>5, <1>5a, ListedByRank DEF n
<1>7. \A i, j \in 1..Len(s) : i < j => s[i].number > s[j].number
  BY <1>1, <1>5a, <1>6
<1>8. QED
  BY <1>6, <1>7 DEF s

(* What is found in a level below level 0.                                  *)
At(level, f) == [level |-> level, file |-> f]

InLevel(version, k, seq, level) ==
  IF /\ FindFile(version[level], LookupKey(k, seq)) < Len(version[level])
     /\ Smallest(version[level][FindFile(version[level], LookupKey(k, seq)) + 1]).key <= k
    THEN <<At(level, version[level][FindFile(version[level], LookupKey(k, seq)) + 1])>>
    ELSE << >>

LEMMA InLevelIs ==
  ASSUME NEW last \in Nat, NEW version, VersionIs(version, last), NEW k \in Nat, NEW seq \in Nat, NEW level \in Levels \ {0}
  PROVE  /\ \/ InLevel(version, k, seq, level) = << >>
            \/ \E f \in ToSet(version[level]) : InLevel(version, k, seq, level) = <<At(level, f)>>
         /\ \A f \in ToSet(version[level]) :
              Visible(f.entries, k, seq) # {} => InLevel(version, k, seq, level) = <<At(level, f)>>
<1> DEFINE files == version[level]
           N == Len(files)
           key == LookupKey(k, seq)
<1>1. key.key = k /\ key.seq = seq
  BY DEF LookupKey
<1>2. PICK c \in 0..N : FindFile(files, key) = c /\ \A j \in 1..N : Less(Largest(files[j]), key) <=> j <= c
  BY <1>1, SearchInLevel
<1>3. N \in Nat /\ ToSet(files) = {files[j] : j \in 1..N} /\ \A j \in 1..N : files[j] \in FilesOf(version)
  <2>1. files \in Seq(FilesOf(version))
    BY LevelFiles
  <2> HIDE DEF files
  <2>2. ToSet(files) = {files[i] : i \in 1..N} /\ N \in Nat
    BY <2>1, MembersOf
  <2>3. QED
    BY <2>1, <2>2
<1>4. InLevel(version, k, seq, level) =
        IF c < N /\ Smallest(files[c + 1]).key <= k THEN <<At(level, files[c + 1])>> ELSE << >>
  BY <1>2 DEF InLevel
<1> HIDE DEF files, N, key
<1>5. c < N => c + 1 \in 1..N
  BY <1>3
<1>6. ASSUME NEW f \in ToSet(files), Visible(f.entries, k, seq) # {}
      PROVE  c < N /\ Smallest(files[c + 1]).key <= k /\ files[c + 1] = f
  <2>1. PICK j \in 1..N : files[j] = f
    BY <1>3
  <2>2. PICK e \in f.entries : e.key = k /\ e.seq <= seq
    BY <1>6 DEF Visible
  <2>3. FileIs(f, last)
    BY <1>3, <2>1, VersionRanges
  <2>4. Smallest(f).key <= k /\ k <= Largest(f).key /\ Largest(f).key \in Nat /\ Smallest(f).key \in Nat /\ Largest(f).seq \in Nat
    BY <2>2, <2>3, FileRange
  <2>5. ~Less(Largest(f), key)
    <3>1. ~Less(Largest(f), e) /\ e.seq \in Nat
      <4>1. IsFiniteSet(f.entries) /\ EntriesHaveKeys(f.entries) /\ f.entries # {} /\ e.seq \in Nat
        BY <2>2, <2>3, EntriesAreKeyed DEF FileIs, EntriesAre
      <4>2. ~Less(Most(f.entries), e)
        BY <2>2, <4>1, MostIsLast
      <4>3. QED
        BY <4>1, <4>2 DEF Largest
    <3>2. \A a, b, p, q, r \in Nat : b <= a /\ ~(a < b \/ (a = b /\ p > q)) /\ q <= r => ~(a < b \/ (a = b /\ p > r))
      OBVIOUS
    <3>3. Less(Largest(f), e) <=> (Largest(f).key < k \/ (Largest(f).key = k /\ Largest(f).seq > e.seq))
      BY <2>2 DEF Less
    <3>4. Less(Largest(f), key) <=> (Largest(f).key < k \/ (Largest(f).key = k /\ Largest(f).seq > seq))
      BY <1>1 DEF Less
    <3>5. QED
      BY <2>2, <2>4, <3>1, <3>2, <3>3, <3>4
  <2>6. ~(j <= c)
    BY <1>2, <2>1, <2>5 DEF files, N, key
  <2>7. c < N
    BY <1>3, <2>6
  <2>8. ASSUME c + 1 < j PROVE FALSE
    <3>1. Hi(files[c + 1]) < Lo(files[j])
      BY <1>5, <2>7, <2>8, LevelInOrder DEF files, N
    <3>2. Hi(files[c + 1]) \in Nat
      BY <1>3, <1>5, <2>7, VersionRanges DEF RangesAre
    <3>3. Hi(files[c + 1]) < k
      BY <2>1, <2>4, <3>1, <3>2 DEF Lo
    <3>4. Less(Largest(files[c + 1]), key)
      BY <1>1, <3>3 DEF Less, Hi
    <3>5. c + 1 <= c
      BY <1>2, <1>5, <2>7, <3>4 DEF files, N, key
    <3>6. QED
      BY <1>3, <3>5
  <2>9. j = c + 1
    BY <1>3, <2>6, <2>8
  <2>10. QED
    BY <2>1, <2>4, <2>7, <2>9
<1>7. QED
  BY <1>3, <1>4, <1>5, <1>6 DEF files

FoundFiles(version) == [level : Levels, file : FilesOf(version)]

FoundInLevels(version, s, l) ==
  /\ s \in Seq(FoundFiles(version))
  /\ \A i \in 1..Len(s) : s[i].level <= l /\ s[i].file \in ToSet(version[s[i].level])

FoundBefore(a, b) == a.level < b.level \/ (a.level = 0 /\ b.level = 0 /\ a.file.number > b.file.number)

FoundInOrder(s) == \A i, j \in 1..Len(s) : i < j => FoundBefore(s[i], s[j])

FoundAll(version, s, k, seq, l) ==
  \A m \in 0..l : \A f \in ToSet(version[m]) :
    Visible(f.entries, k, seq) # {} => \E i \in 1..Len(s) : s[i] = At(m, f)

FoundDownTo(version, s, k, seq, l) ==
  FoundInLevels(version, s, l) /\ FoundInOrder(s) /\ FoundAll(version, s, k, seq, l)

LEMMA AtIs ==
  /\ \A l, f : At(l, f).level = l /\ At(l, f).file = f
  /\ \A version : \A l \in Levels, f \in FilesOf(version) : At(l, f) \in FoundFiles(version)
  /\ \A version : \A x \in FoundFiles(version) : x.level \in Nat /\ x.level \in Levels /\ x = At(x.level, x.file)
<1>1. \A l, f : At(l, f).level = l /\ At(l, f).file = f
  BY DEF At
<1>2. ASSUME NEW version, NEW l \in Levels, NEW f \in FilesOf(version) PROVE At(l, f) \in FoundFiles(version)
  BY DEF At, FoundFiles
<1>3. ASSUME NEW version, NEW x \in FoundFiles(version) PROVE x.level \in Nat /\ x.level \in Levels /\ x = At(x.level, x.file)
  BY LevelsAssumption DEF At, FoundFiles, Levels
<1>4. QED
  BY <1>1, <1>2, <1>3

TopFiles(version, k) == Sorted({f \in ToSet(version[0]) : Smallest(f).key <= k /\ k <= Largest(f).key}, NewestFirst)

LEMMA TopFilesAre ==
  ASSUME NEW last \in Nat, NEW version, VersionIs(version, last), NEW k \in Nat, NEW seq \in Nat
  PROVE  /\ TopFiles(version, k) \in Seq(ToSet(version[0]))
         /\ \A i, j \in 1..Len(TopFiles(version, k)) : i < j => TopFiles(version, k)[i].number > TopFiles(version, k)[j].number
         /\ \A f \in ToSet(version[0]) : Visible(f.entries, k, seq) # {} => f \in ToSet(TopFiles(version, k))
<1> DEFINE met == {f \in ToSet(version[0]) : Smallest(f).key <= k /\ k <= Largest(f).key}
           sorted == TopFiles(version, k)
<1>1. 0 \in Levels
  BY LevelsAssumption DEF Levels
<1>2. IsFiniteSet(met) /\ met \subseteq FilesOf(version) /\ met \subseteq ToSet(version[0])
  <2>1. IsFiniteSet(ToSet(version[0])) /\ ToSet(version[0]) \subseteq FilesOf(version)
    BY <1>1, LevelFiles
  <2>2. met \in SUBSET ToSet(version[0])
    OBVIOUS
  <2> HIDE DEF met
  <2>3. QED
    BY <2>1, <2>2, FS_Subset
<1>3. (\A f \in met : f.number \in Nat) /\ \A f, g \in met : f.number = g.number => f = g
  <2>1. \A f \in FilesOf(version) : f.number \in Nat
    BY VersionRanges DEF FileIs
  <2>2. \A f, g \in FilesOf(version) : f.number = g.number => f = g
    BY DEF VersionIs, FilesAre
  <2> HIDE DEF met
  <2>3. QED
    BY <1>2, <2>1, <2>2
<1>4. /\ sorted \in Seq(met) /\ ToSet(sorted) = met
      /\ \A i, j \in 1..Len(sorted) : i < j => sorted[i].number > sorted[j].number
  <2>1. sorted = Sorted(met, NewestFirst)
    BY DEF TopFiles
  <2> HIDE DEF met
  <2>2. QED
    BY <1>2, <1>3, <2>1, NewestSorted
<1>5. \A f \in ToSet(version[0]) : Visible(f.entries, k, seq) # {} => f \in met
  <2>1. ASSUME NEW f \in ToSet(version[0]), Visible(f.entries, k, seq) # {} PROVE f \in met
    <3>1. PICK e \in f.entries : e.key = k
      BY <2>1 DEF Visible
    <3>2. FileIs(f, last)
      BY <1>1, LevelFiles, VersionRanges
    <3>3. QED
      BY <3>1, <3>2, FileRange
  <2>2. QED
    BY <2>1
<1> HIDE DEF met, sorted
<1>6. ToSet(sorted) = {sorted[i] : i \in 1..Len(sorted)} /\ sorted \in Seq(ToSet(version[0]))
  BY <1>2, <1>4, MembersOf
<1>7. QED
  BY <1>4, <1>5, <1>6 DEF sorted

TopFound(version, k) == [i \in 1..Len(TopFiles(version, k)) |-> At(0, TopFiles(version, k)[i])]

LEMMA FoundOnTop ==
  ASSUME NEW last \in Nat, NEW version, VersionIs(version, last), NEW k \in Nat, NEW seq \in Nat,
         NEW s, s = TopFound(version, k)
  PROVE  FoundDownTo(version, s, k, seq, 0)
<1>0. PICK sorted : sorted = TopFiles(version, k)
  OBVIOUS
<1>1. /\ sorted \in Seq(ToSet(version[0])) /\ Len(sorted) \in Nat
      /\ \A i \in 1..Len(sorted) : sorted[i] \in ToSet(version[0])
  <2>1. sorted \in Seq(ToSet(version[0]))
    BY <1>0, TopFilesAre
  <2>2. QED
    BY <2>1
<1>2. \A i, j \in 1..Len(sorted) : i < j => sorted[i].number > sorted[j].number
  BY <1>0, TopFilesAre
<1>3. ASSUME NEW f \in ToSet(version[0]), Visible(f.entries, k, seq) # {} PROVE \E i \in 1..Len(sorted) : sorted[i] = f
  <2>1. f \in ToSet(sorted)
    BY <1>0, <1>3, TopFilesAre
  <2>2. ToSet(sorted) = {sorted[i] : i \in 1..Len(sorted)}
    BY <1>1, MembersOf
  <2>3. QED
    BY <2>1, <2>2
<1>4. 0 \in Levels /\ \A f \in ToSet(version[0]) : f \in FilesOf(version)
  <2>1. 0 \in Levels
    BY LevelsAssumption DEF Levels
  <2>2. QED
    BY <2>1, LevelFiles
<1>5. \A i \in 1..Len(sorted) : At(0, sorted[i]) \in FoundFiles(version)
  BY <1>1, <1>4, AtIs
<1>6. s = [i \in 1..Len(sorted) |-> At(0, sorted[i])]
  BY <1>0 DEF TopFound
<1>7. s \in Seq(FoundFiles(version)) /\ Len(s) = Len(sorted) /\ \A i \in 1..Len(s) : s[i] = At(0, sorted[i])
  BY <1>1, <1>5, <1>6
<1>8. \A i \in 1..Len(s) : s[i].level = 0 /\ s[i].file = sorted[i] /\ s[i].file \in ToSet(version[0])
  BY <1>1, <1>7, AtIs
<1>9. FoundInLevels(version, s, 0)
  <2>1. \A i \in 1..Len(s) : s[i].level <= 0 /\ s[i].file \in ToSet(version[s[i].level])
    BY <1>8
  <2>2. QED
    BY <1>7, <2>1 DEF FoundInLevels
<1>10. FoundInOrder(s)
  BY <1>2, <1>7, <1>8 DEF FoundInOrder, FoundBefore
<1>11. FoundAll(version, s, k, seq, 0)
  <2>1. \A m \in 0..0 : m = 0
    OBVIOUS
  <2>2. QED
    BY <1>3, <1>7, <2>1 DEF FoundAll
<1>12. QED
  BY <1>9, <1>10, <1>11 DEF FoundDownTo

LEMMA FoundFurther ==
  ASSUME NEW last \in Nat, NEW version, VersionIs(version, last), NEW k \in Nat, NEW seq \in Nat,
         NEW level \in Levels \ {0}, NEW s, FoundDownTo(version, s, k, seq, level - 1)
  PROVE  FoundDownTo(version, s \o InLevel(version, k, seq, level), k, seq, level)
<1>1. level \in Nat /\ level # 0 /\ level \in Levels /\ \A m \in 0..level : m = level \/ m \in 0..(level - 1)
  BY LevelsAssumption DEF Levels
<1>2. FoundInLevels(version, s, level - 1) /\ FoundInOrder(s) /\ FoundAll(version, s, k, seq, level - 1)
  BY DEF FoundDownTo
<1>3. PICK N : N = Len(s)
  OBVIOUS
<1>4. s \in Seq(FoundFiles(version)) /\ N \in Nat
  BY <1>2, <1>3 DEF FoundInLevels
<1>5. \A i \in 1..N : s[i] \in FoundFiles(version) /\ s[i].level \in Nat
  <2>1. \A i \in 1..N : s[i] \in FoundFiles(version)
    BY <1>3, <1>4
  <2>2. QED
    BY <2>1, AtIs
<1>6. \A i \in 1..N : s[i].level < level /\ s[i].level <= level /\ s[i].file \in ToSet(version[s[i].level])
  <2>1. \A i \in 1..N : s[i].level <= level - 1 /\ s[i].file \in ToSet(version[s[i].level])
    BY <1>2, <1>3 DEF FoundInLevels
  <2>2. \A n \in Nat : n <= level - 1 => n < level /\ n <= level
    BY <1>1
  <2>3. QED
    BY <1>5, <2>1, <2>2
<1>7. \A f \in ToSet(version[level]) :
              Visible(f.entries, k, seq) # {} => InLevel(version, k, seq, level) = <<At(level, f)>>
  BY InLevelIs
<1>8. CASE InLevel(version, k, seq, level) = << >>
  <2>1. s \o InLevel(version, k, seq, level) = s
    BY <1>4, <1>8
  <2>2. FoundInLevels(version, s, level)
    BY <1>3, <1>4, <1>6 DEF FoundInLevels
  <2>3. \A f \in ToSet(version[level]) : Visible(f.entries, k, seq) = {}
    BY <1>7, <1>8
  <2>4. FoundAll(version, s, k, seq, level)
    BY <1>1, <1>2, <2>3 DEF FoundAll
  <2>5. QED
    BY <1>2, <2>1, <2>2, <2>4 DEF FoundDownTo
<1>9. ASSUME NEW f \in ToSet(version[level]), InLevel(version, k, seq, level) = <<At(level, f)>>
      PROVE  FoundDownTo(version, s \o InLevel(version, k, seq, level), k, seq, level)
  <2>1. PICK x : x = At(level, f)
    OBVIOUS
  <2>2. x \in FoundFiles(version) /\ x.level = level /\ x.file = f
    <3>1. f \in FilesOf(version)
      BY <1>1, LevelFiles
    <3>2. QED
      BY <1>1, <2>1, <3>1, AtIs
  <2>3. PICK t : t = s \o <<x>>
    OBVIOUS
  <2>4. s \o InLevel(version, k, seq, level) = t
    BY <1>9, <2>1, <2>3
  <2>5. /\ t \in Seq(FoundFiles(version)) /\ Len(t) = N + 1 /\ t[N + 1] = x
        /\ \A i \in 1..N : t[i] = s[i]
    BY <1>3, <1>4, <2>2, <2>3
  <2>6. /\ \A i \in 1..(N + 1) : i \in 1..N \/ i = N + 1
        /\ N + 1 \in 1..(N + 1) /\ \A i \in 1..N : i \in 1..(N + 1)
        /\ \A i, j \in 1..(N + 1) : i < j => i \in 1..N
    BY <1>4
  <2>7. FoundInLevels(version, t, level)
    <3>1. level <= level
      BY <1>1
    <3>2. \A i \in 1..(N + 1) : t[i].level <= level /\ t[i].file \in ToSet(version[t[i].level])
      BY <1>6, <2>2, <2>5, <2>6, <3>1
    <3>3. QED
      BY <2>5, <3>2 DEF FoundInLevels
  <2>8. FoundInOrder(t)
    <3>1. ASSUME NEW i \in 1..(N + 1), NEW j \in 1..(N + 1), i < j PROVE FoundBefore(t[i], t[j])
      <4>1. i \in 1..N /\ t[i] = s[i]
        BY <2>5, <2>6, <3>1
      <4>2. CASE j \in 1..N
        <5>1. FoundBefore(s[i], s[j])
          BY <1>2, <1>3, <3>1, <4>1, <4>2 DEF FoundInOrder
        <5>2. QED
          BY <2>5, <4>1, <4>2, <5>1
      <4>3. CASE j = N + 1
        BY <1>6, <2>2, <2>5, <4>1, <4>3 DEF FoundBefore
      <4>4. QED
        BY <2>6, <4>2, <4>3
    <3>2. QED
      BY <2>5, <3>1 DEF FoundInOrder
  <2>9. FoundAll(version, t, k, seq, level)
    <3>1. ASSUME NEW m \in 0..level, NEW g \in ToSet(version[m]), Visible(g.entries, k, seq) # {}
          PROVE  \E i \in 1..(N + 1) : t[i] = At(m, g)
      <4>1. CASE m = level
        <5>1. <<At(level, f)>> = <<At(level, g)>>
          BY <1>7, <1>9, <3>1, <4>1
        <5>2. At(level, f) = At(level, g)
          BY <5>1
        <5>3. QED
          BY <2>1, <2>5, <2>6, <4>1, <5>2
      <4>2. CASE m # level
        <5>1. PICK i \in 1..N : s[i] = At(m, g)
          BY <1>1, <1>2, <1>3, <3>1, <4>2 DEF FoundAll
        <5>2. QED
          BY <2>5, <2>6, <5>1
      <4>3. QED
        BY <4>1, <4>2
    <3>2. QED
      BY <2>5, <3>1 DEF FoundAll
  <2>10. QED
    BY <2>4, <2>7, <2>8, <2>9 DEF FoundDownTo
<1>10. \/ InLevel(version, k, seq, level) = << >>
       \/ \E f \in ToSet(version[level]) : InLevel(version, k, seq, level) = <<At(level, f)>>
  BY InLevelIs
<1>11. QED
  BY <1>8, <1>9, <1>10

LEMMA FilesForIs ==
  ASSUME NEW last \in Nat, NEW version, VersionIs(version, last), NEW k \in Nat, NEW seq \in Nat
  PROVE  FoundDownTo(version, FilesFor(version, k, seq), k, seq, NumLevels - 1)
<1> DEFINE N == NumLevels - 1
           top == TopFound(version, k)
           below(level) == InLevel(version, k, seq, level)
           IsFound(f) == f = [level \in Levels |-> IF level = 0 THEN top ELSE f[level - 1] \o below(level)]
           found == CHOOSE f : IsFound(f)
           S == Seq(FoundFiles(version))
           step == [p \in S \X (1..N) |-> p[1] \o below(p[2])]
           D == [l \in 0..N |-> {s \in S : FoundDownTo(version, s, k, seq, l)}]
<1>1. FilesFor(version, k, seq) = found[N]
  BY DEF FilesFor, InLevel, At, TopFiles, TopFound
<1>2. /\ N \in Nat /\ N \in 0..N /\ Levels = 0..N /\ 0 \in 0..N
      /\ \A l \in 1..N : l \in Levels \ {0} /\ l # 0 /\ l \in 0..N /\ l - 1 \in 0..N
      /\ \A l \in 0..N : l = 0 \/ l \in 1..N
  BY LevelsAssumption DEF Levels
<1>3. \A l \in 0..N : \A s : s \in D[l] <=> s \in S /\ FoundDownTo(version, s, k, seq, l)
  OBVIOUS
<1>4. \A l \in 1..N : \A s \in S : step[<<s, l>>] = s \o below(l)
  OBVIOUS
<1>5. FoundDownTo(version, top, k, seq, 0)
  BY FoundOnTop
<1> HIDE DEF top, N, S, step, D, below
<1>6. \A l : \A s : FoundDownTo(version, s, k, seq, l) => s \in S
  BY DEF FoundDownTo, FoundInLevels, S
<1>7. top \in D[0]
  BY <1>2, <1>3, <1>5, <1>6
<1>8. ASSUME NEW l \in 1..N, NEW s \in D[l - 1] PROVE s \in S /\ s \o below(l) \in D[l]
  <2>1. l \in Levels \ {0} /\ l - 1 \in 0..N /\ l \in 0..N
    BY <1>2
  <2>2. s \in S /\ FoundDownTo(version, s, k, seq, l - 1)
    BY <1>3, <2>1
  <2>3. FoundDownTo(version, s \o below(l), k, seq, l)
    BY <2>1, <2>2, FoundFurther DEF below
  <2>4. QED
    BY <1>3, <1>6, <2>1, <2>2, <2>3
<1>9. \E f : IsFound(f)
  <2>1. \A i \in 1..N : \A d \in D[i - 1] : step[<<d, i>>] \in D[i]
    <3> HIDE DEF IsFound, found
    <3>1. QED
      BY <1>4, <1>8
  <2>2. PICK f : /\ DOMAIN f = 0..N
                 /\ \A i \in 0..N : f[i] \in D[i] /\ f[i] = IF i = 0 THEN top ELSE step[<<f[i - 1], i>>]
    <3> HIDE DEF IsFound, found
    <3>1. Leads(N, D, top, step)
      BY <1>7, <2>1 DEF Leads
    <3>2. PICK f : Follows(N, D, top, step, f)
      BY <1>2, <3>1, RecursionExists
    <3>3. QED
      BY <3>2 DEF Follows
  <2> DEFINE g == [i \in Levels |-> f[i]]
  <2>3. \A i \in 0..N : g[i] = f[i]
    BY <1>2
  <2>4. \A i \in Levels : g[i] = IF i = 0 THEN top ELSE g[i - 1] \o below(i)
    <3> HIDE DEF g, IsFound, found
    <3>1. g[0] = top
      BY <1>2, <2>2, <2>3
    <3>2. ASSUME NEW i \in 1..N PROVE g[i] = g[i - 1] \o below(i)
      <4>1. f[i - 1] \in D[i - 1] /\ f[i] = step[<<f[i - 1], i>>] /\ g[i] = f[i] /\ g[i - 1] = f[i - 1]
        BY <1>2, <2>2, <2>3
      <4>2. f[i - 1] \in S
        BY <1>8, <4>1
      <4>3. QED
        BY <1>4, <4>1, <4>2
    <3>3. QED
      BY <1>2, <3>1, <3>2
  <2>5. IsFound(g)
    <3>1. g = [i \in Levels |-> g[i]]
      OBVIOUS
    <3> HIDE DEF g
    <3>2. QED
      BY <2>4, <3>1
  <2>6. QED
    BY <2>5
<1>10. IsFound(found)
  BY <1>9
<1> HIDE DEF found
<1>11. \A i \in Levels : found[i] = IF i = 0 THEN top ELSE found[i - 1] \o below(i)
  BY <1>10
<1> HIDE DEF IsFound
<1>12. \A i \in 0..N : found[i] \in D[i]
  <2>1. found[0] \in D[0]
    BY <1>2, <1>7, <1>11
  <2>2. ASSUME NEW i \in 1..N, found[i - 1] \in D[i - 1] PROVE found[i] \in D[i]
    <3>1. found[i] = found[i - 1] \o below(i)
      BY <1>2, <1>11
    <3>2. QED
      BY <1>8, <2>2, <3>1
  <2>3. QED
    BY <1>2, <2>1, <2>2, RecursionStays
<1>13. QED
  BY <1>1, <1>2, <1>3, <1>12 DEF N

(* More than one: the first of them is not on the last level.               *)
LEMMA FirstFound ==
  ASSUME NEW last \in Nat, NEW version, VersionIs(version, last), NEW k \in Nat, NEW seq \in Nat,
         Len(FilesFor(version, k, seq)) >= 2
  PROVE  \E level \in 0..(NumLevels - 2) : \E f \in ToSet(version[level]) :
           Head(FilesFor(version, k, seq)) = At(level, f)
<1>1. PICK s : s = FilesFor(version, k, seq)
  OBVIOUS
<1>2. FoundInLevels(version, s, NumLevels - 1) /\ FoundInOrder(s) /\ Len(s) >= 2
  BY <1>1, FilesForIs DEF FoundDownTo
<1>3. s \in Seq(FoundFiles(version)) /\ Len(s) \in Nat
  BY <1>2 DEF FoundInLevels
<1>4. 1 \in 1..Len(s) /\ 2 \in 1..Len(s) /\ 1 < 2 /\ Head(s) = s[1] /\ s[1] \in FoundFiles(version) /\ s[2] \in FoundFiles(version)
  BY <1>2, <1>3
<1>5. s[1].level \in Nat /\ s[2].level \in Nat /\ s[1] = At(s[1].level, s[1].file)
  BY <1>4, AtIs
<1>6. s[2].level <= NumLevels - 1 /\ s[1].file \in ToSet(version[s[1].level])
  BY <1>2, <1>4 DEF FoundInLevels
<1>7. s[1].level < s[2].level \/ s[1].level = 0
  BY <1>2, <1>4 DEF FoundInOrder, FoundBefore
<1>8. s[1].level \in 0..(NumLevels - 2)
  BY <1>5, <1>6, <1>7, LevelsAssumption
<1>9. QED
  BY <1>1, <1>4, <1>5, <1>6, <1>8

-----------------------------------------------------------------------------
(* The entries of several files, and the range of their keys.               *)
Entries(F) == UNION {f.entries : f \in F}

LEMMA EntriesAreFew ==
  ASSUME NEW last \in Nat, NEW E, \A e \in E : e.seq \in Nat /\ e.seq <= last, \A e, d \in E : e.seq = d.seq => e = d
  PROVE  IsFiniteSet(E)
<1> DEFINE T == 0..last
           r == [e \in E |-> e.seq]
<1>1. IsFiniteSet(T)
  BY FS_Interval
<1>2. r \in [E -> T] /\ \A e \in E : r[e] = e.seq
  OBVIOUS
<1> HIDE DEF r, T
<1>3. r \in Injection(E, T)
  BY <1>2 DEF Injection, IsInjective
<1>4. QED
  BY <1>1, <1>3, FS_Injection

LEMMA EntriesOfFiles ==
  ASSUME NEW last \in Nat, NEW S, FilesAre(S, last), NEW F, F \subseteq S
  PROVE  IsFiniteSet(Entries(F)) /\ EntriesHaveKeys(Entries(F)) /\ EntriesAre(Entries(F), last)
         /\ \A e, d \in Entries(F) : e.seq = d.seq => e = d
<1>1. \A e \in Entries(F) : e.key \in Nat /\ e.seq \in Nat /\ e.seq <= last
  <2>1. \A f \in S : \A e \in f.entries : e.key \in Nat /\ e.seq \in Nat /\ e.seq <= last
    BY DEF FilesAre, FileIs, EntriesAre
  <2>2. QED
    BY <2>1 DEF Entries
<1>2. \A e, d \in Entries(F) : e.seq = d.seq => e = d
  <2>1. \A f, g \in S : \A e \in f.entries, d \in g.entries : e.seq = d.seq => e = d
    BY DEF FilesAre
  <2>2. QED
    BY <2>1 DEF Entries
<1>3. IsFiniteSet(Entries(F))
  BY <1>1, <1>2, EntriesAreFew
<1>4. QED
  BY <1>1, <1>2, <1>3 DEF EntriesHaveKeys, EntriesAre

IsHull(F, lo, hi) ==
  /\ lo \in Nat /\ hi \in Nat
  /\ \A f \in F : lo <= Lo(f) /\ Hi(f) <= hi
  /\ \E f \in F : Lo(f) = lo
  /\ \E f \in F : Hi(f) = hi

LEMMA HullIs ==
  ASSUME NEW last \in Nat, NEW S, FilesAre(S, last), NEW F, F \subseteq S, F # {}
  PROVE  IsHull(F, Least(Entries(F)).key, Most(Entries(F)).key)
<1>1. IsFiniteSet(Entries(F)) /\ EntriesHaveKeys(Entries(F))
  BY EntriesOfFiles
<1>2. \A f \in F : FileIs(f, last) /\ Smallest(f) \in f.entries /\ Largest(f) \in f.entries
  <2>1. \A f \in F : FileIs(f, last)
    BY DEF FilesAre
  <2>2. QED
    BY <2>1, FileRange
<1>3. \A f \in F : Smallest(f) \in Entries(F) /\ Largest(f) \in Entries(F)
  BY <1>2 DEF Entries
<1>4. Entries(F) # {}
  BY <1>3
<1>5. Least(Entries(F)) \in Entries(F) /\ \A e \in Entries(F) : Least(Entries(F)).key <= e.key
  BY <1>1, <1>4, LeastIsFirst
<1>6. Most(Entries(F)) \in Entries(F) /\ \A e \in Entries(F) : e.key <= Most(Entries(F)).key
  BY <1>1, <1>4, MostIsLast
<1>7. Least(Entries(F)).key \in Nat /\ Most(Entries(F)).key \in Nat
  BY <1>1, <1>5, <1>6 DEF EntriesHaveKeys
<1>8. \A f \in F : Lo(f) \in Nat /\ Hi(f) \in Nat /\ Least(Entries(F)).key <= Lo(f) /\ Hi(f) <= Most(Entries(F)).key
  <2>1. \A f \in F : Lo(f) \in Nat /\ Hi(f) \in Nat
    BY <1>2, FileRange DEF Lo, Hi
  <2>2. QED
    BY <1>3, <1>5, <1>6, <2>1 DEF Lo, Hi
<1>9. \E f \in F : Lo(f) = Least(Entries(F)).key
  <2>1. PICK f \in F : Least(Entries(F)) \in f.entries
    BY <1>5 DEF Entries
  <2>2. Lo(f) <= Least(Entries(F)).key
    BY <1>2, <2>1, FileRange DEF Lo
  <2>3. \A a, b \in Nat : a <= b /\ b <= a => a = b
    OBVIOUS
  <2>4. QED
    BY <1>7, <1>8, <2>2, <2>3
<1>10. \E f \in F : Hi(f) = Most(Entries(F)).key
  <2>1. PICK f \in F : Most(Entries(F)) \in f.entries
    BY <1>6 DEF Entries
  <2>2. Most(Entries(F)).key <= Hi(f)
    BY <1>2, <2>1, FileRange DEF Hi
  <2>3. \A a, b \in Nat : a <= b /\ b <= a => a = b
    OBVIOUS
  <2>4. QED
    BY <1>7, <1>8, <2>2, <2>3
<1>11. QED
  BY <1>7, <1>8, <1>9, <1>10 DEF IsHull

(* The keys that files reach one after another.                             *)
Spans(F, lo, hi) ==
  /\ lo \in Nat /\ hi \in Nat
  /\ \A f \in F : lo <= Lo(f) /\ Hi(f) <= hi
  /\ \A k \in lo..hi : \E f \in F : Lo(f) <= k /\ k <= Hi(f)

LEMMA SpanIsHull ==
  ASSUME NEW F, RangesAre(F), NEW lo, NEW hi, Spans(F, lo, hi), NEW p, NEW q, IsHull(F, p, q)
  PROVE  p = lo /\ q = hi /\ lo <= hi
<1>1. lo \in Nat /\ hi \in Nat /\ p \in Nat /\ q \in Nat
  BY DEF Spans, IsHull
<1>2. \A f \in F : Lo(f) \in Nat /\ Hi(f) \in Nat /\ Lo(f) <= Hi(f)
  BY DEF RangesAre
<1>3. \A f \in F : lo <= Lo(f) /\ Hi(f) <= hi /\ p <= Lo(f) /\ Hi(f) <= q
  BY DEF Spans, IsHull
<1>4. lo <= p /\ q <= hi /\ lo <= hi
  <2>1. PICK f \in F : Lo(f) = p
    BY DEF IsHull
  <2>2. PICK g \in F : Hi(g) = q
    BY DEF IsHull
  <2>3. lo <= Lo(f) /\ Hi(g) <= hi /\ Lo(f) <= Hi(f) /\ Hi(f) <= hi /\ Lo(f) \in Nat /\ Hi(f) \in Nat
    BY <1>2, <1>3
  <2>4. QED
    BY <1>1, <2>1, <2>2, <2>3
<1>5. lo \in lo..hi /\ hi \in lo..hi
  BY <1>1, <1>4
<1>6. PICK f \in F : Lo(f) <= lo
  BY <1>5 DEF Spans
<1>7. PICK g \in F : hi <= Hi(g)
  BY <1>5 DEF Spans
<1>8. p <= Lo(f) /\ Hi(g) <= q /\ Lo(f) \in Nat /\ Hi(g) \in Nat
  BY <1>2, <1>3
<1>9. QED
  BY <1>1, <1>4, <1>6, <1>7, <1>8

Meeting(T, lo, hi) == {f \in T : lo <= Hi(f) /\ Lo(f) <= hi}

(* What GetOverlappingInputs gives of the files T of a level: all that meet *)
(* a range in which they lie, and which they lead to from the one asked for.*)
ReachesTo(T, lo, hi, M, l, h) ==
  /\ l \in Nat /\ h \in Nat /\ l <= lo /\ hi <= h
  /\ M = Meeting(T, l, h)
  /\ \A f \in M : l <= Lo(f) /\ Hi(f) <= h
  /\ \A k \in l..h : k \in lo..hi \/ \E f \in M : Lo(f) <= k /\ k <= Hi(f)

LEMMA SpansFurther ==
  ASSUME NEW F, RangesAre(F), NEW lo, NEW hi, Spans(F, lo, hi), NEW T, NEW M, NEW l, NEW h, ReachesTo(T, lo, hi, M, l, h)
  PROVE  Spans(F \union M, l, h)
<1>1. lo \in Nat /\ hi \in Nat /\ l \in Nat /\ h \in Nat /\ l <= lo /\ hi <= h
  BY DEF Spans, ReachesTo
<1>2. ASSUME NEW f \in F PROVE l <= Lo(f) /\ Hi(f) <= h
  <2>1. lo <= Lo(f) /\ Hi(f) <= hi /\ Lo(f) \in Nat /\ Hi(f) \in Nat
    BY DEF Spans, RangesAre
  <2>2. QED
    BY <1>1, <2>1
<1>3. \A f \in M : l <= Lo(f) /\ Hi(f) <= h
  BY DEF ReachesTo
<1>4. \A k \in l..h : \E f \in F \union M : Lo(f) <= k /\ k <= Hi(f)
  BY DEF ReachesTo, Spans
<1>5. QED
  BY <1>1, <1>2, <1>3, <1>4 DEF Spans

(* Below level 0, where the files are apart.                                *)
LEMMA ReachedApart ==
  ASSUME NEW T, RangesAre(T), \A f, g \in T : f = g \/ Apart(f, g),
         NEW lo \in Nat, NEW hi \in Nat, lo <= hi, NEW l \in Nat, NEW h \in Nat, l <= lo, hi <= h,
         NEW M, M = Meeting(T, lo, hi),
         \A f \in M : l <= Lo(f) /\ Hi(f) <= h,
         l = lo \/ \E f \in M : Lo(f) = l,
         h = hi \/ \E f \in M : Hi(f) = h
  PROVE  ReachesTo(T, lo, hi, M, l, h)
<1>1. \A f \in T : Lo(f) \in Nat /\ Hi(f) \in Nat /\ Lo(f) <= Hi(f)
  BY DEF RangesAre
<1>2. \A f \in M : f \in T /\ lo <= Hi(f) /\ Lo(f) <= hi
  BY DEF Meeting
<1>3. ASSUME NEW g \in T, l <= Hi(g), Lo(g) <= h PROVE lo <= Hi(g)
  <2>1. SUFFICES ASSUME Hi(g) < lo PROVE FALSE
    BY <1>1
  <2>2. PICK f \in M : Lo(f) = l
    BY <1>1, <1>3, <2>1
  <2>3. f # g
    BY <1>1, <1>2, <2>1
  <2>4. Hi(f) < Lo(g) \/ Hi(g) < Lo(f)
    BY <1>2, <2>3 DEF Apart
  <2>5. /\ Lo(f) \in Nat /\ Hi(f) \in Nat /\ lo <= Hi(f)
        /\ Lo(g) \in Nat /\ Hi(g) \in Nat /\ Lo(g) <= Hi(g)
    BY <1>1, <1>2
  <2>6. QED
    BY <1>3, <2>1, <2>2, <2>4, <2>5
<1>4. ASSUME NEW g \in T, l <= Hi(g), Lo(g) <= h PROVE Lo(g) <= hi
  <2>1. SUFFICES ASSUME hi < Lo(g) PROVE FALSE
    BY <1>1
  <2>2. PICK f \in M : Hi(f) = h
    BY <1>1, <1>4, <2>1
  <2>3. f # g
    BY <1>1, <1>2, <2>1
  <2>4. Hi(f) < Lo(g) \/ Hi(g) < Lo(f)
    BY <1>2, <2>3 DEF Apart
  <2>5. /\ Lo(f) \in Nat /\ Hi(f) \in Nat /\ Lo(f) <= hi
        /\ Lo(g) \in Nat /\ Hi(g) \in Nat /\ Lo(g) <= Hi(g)
    BY <1>1, <1>2
  <2>6. QED
    BY <1>4, <2>1, <2>2, <2>4, <2>5
<1>5. ASSUME NEW g \in M PROVE l <= Hi(g) /\ Lo(g) <= h
  <2>1. g \in T /\ lo <= Hi(g) /\ Lo(g) <= hi /\ Lo(g) \in Nat /\ Hi(g) \in Nat
    BY <1>1, <1>2
  <2>2. QED
    BY <2>1
<1>6. M = Meeting(T, l, h)
  BY <1>2, <1>3, <1>4, <1>5 DEF Meeting
<1>7. ASSUME NEW k \in l..h, k \notin lo..hi PROVE \E f \in M : Lo(f) <= k /\ k <= Hi(f)
  <2>1. CASE k < lo
    <3>1. PICK f \in M : Lo(f) = l
      BY <2>1
    <3>2. Lo(f) \in Nat /\ Hi(f) \in Nat /\ lo <= Hi(f)
      BY <1>1, <1>2
    <3>3. Lo(f) <= k /\ k <= Hi(f)
      BY <2>1, <3>1, <3>2
    <3>4. QED
      BY <3>3
  <2>2. CASE k > hi
    <3>1. PICK f \in M : Hi(f) = h
      BY <2>2
    <3>2. Lo(f) \in Nat /\ Hi(f) \in Nat /\ Lo(f) <= hi
      BY <1>1, <1>2
    <3>3. Lo(f) <= k /\ k <= Hi(f)
      BY <2>2, <3>1, <3>2
    <3>4. QED
      BY <3>3
  <2>3. QED
    BY <1>7, <2>1, <2>2
<1>8. QED
  BY <1>6, <1>7 DEF ReachesTo

LEMMA MetAreMeeting ==
  ASSUME NEW S, RangesAre(S), NEW files \in Seq(S), NEW lo \in Nat, NEW hi \in Nat
  PROVE  Met(files, <<lo, hi>>) \in Seq(S) /\ ToSet(Met(files, <<lo, hi>>)) = Meeting(ToSet(files), lo, hi)
<1>1. Met(files, <<lo, hi>>) \in Seq(S) /\ ToSet(Met(files, <<lo, hi>>)) = {f \in ToSet(files) : Overlaps(f, <<lo, hi>>[1], <<lo, hi>>[2])}
  BY MetAre
<1>2. ToSet(files) \subseteq S
  BY MembersOf
<1>3. \A f \in S : Overlaps(f, lo, hi) <=> lo <= Hi(f) /\ Lo(f) <= hi
  BY MeetsIs
<1>4. {f \in ToSet(files) : Overlaps(f, lo, hi)} = Meeting(ToSet(files), lo, hi)
  BY <1>2, <1>3 DEF Meeting
<1>5. QED
  BY <1>1, <1>4

LEMMA OverlappingInputsAre ==
  ASSUME NEW last \in Nat, NEW version, VersionIs(version, last), NEW level \in Levels,
         NEW lo \in Nat, NEW hi \in Nat, lo <= hi
  PROVE  /\ GetOverlappingInputs(version, level, lo, hi) \in Seq(FilesOf(version))
         /\ \E l, h : ReachesTo(ToSet(version[level]), lo, hi, ToSet(GetOverlappingInputs(version, level, lo, hi)), l, h)
<1> DEFINE S == FilesOf(version)
           T == ToSet(version[level])
<1>1. RangesAre(S) /\ version[level] \in Seq(S) /\ T \subseteq S
  BY VersionRanges, LevelFiles
<1>2. RangesAre(T)
  BY <1>1 DEF RangesAre
<1> HIDE DEF S
<1>3. CASE level = 0
  <2>1. PICK l, h : /\ Widened(version[0], lo, hi) = <<l, h>>
                    /\ WidenedTo(version[0], lo, hi, l, h) /\ Settled(version[0], l, h)
    BY <1>1, <1>3, WidenedIs
  <2>2. l \in Nat /\ h \in Nat /\ l <= lo /\ hi <= h
    BY <2>1 DEF WidenedTo
  <2>3. GetOverlappingInputs(version, level, lo, hi) = Met(version[0], <<l, h>>)
    BY <1>3, <2>1 DEF GetOverlappingInputs
  <2>4. Met(version[0], <<l, h>>) \in Seq(S) /\ ToSet(Met(version[0], <<l, h>>)) = Meeting(T, l, h)
    BY <1>1, <1>3, <2>2, MetAreMeeting
  <2>5. \A f \in Meeting(T, l, h) : l <= Lo(f) /\ Hi(f) <= h
    BY <2>1, <2>4 DEF Settled
  <2>6. ASSUME NEW k \in l..h, k \notin lo..hi PROVE \E f \in Meeting(T, l, h) : Lo(f) <= k /\ k <= Hi(f)
    <3>1. PICK f \in T : l <= Lo(f) /\ Lo(f) <= k /\ k <= Hi(f) /\ Hi(f) <= h
      BY <1>3, <2>1, <2>6 DEF WidenedTo, Covered
    <3>2. Lo(f) \in Nat /\ Hi(f) \in Nat /\ Lo(f) <= Hi(f)
      BY <1>2 DEF RangesAre
    <3>3. l <= Hi(f) /\ Lo(f) <= h
      BY <2>2, <3>1, <3>2
    <3>4. QED
      BY <3>1, <3>3 DEF Meeting
  <2>7. ReachesTo(T, lo, hi, Meeting(T, l, h), l, h)
    BY <2>2, <2>5, <2>6 DEF ReachesTo
  <2>8. QED
    BY <2>3, <2>4, <2>7 DEF S
<1>4. CASE level # 0
  <2>1. GetOverlappingInputs(version, level, lo, hi) = Met(version[level], <<lo, hi>>)
    BY <1>4 DEF GetOverlappingInputs
  <2>2. PICK m : m = Met(version[level], <<lo, hi>>)
    OBVIOUS
  <2>3. m \in Seq(S) /\ ToSet(m) = Meeting(T, lo, hi)
    BY <1>1, <2>2, MetAreMeeting
  <2>4. PICK l, h \in Nat :
           /\ l <= lo /\ hi <= h
           /\ \A f \in ToSet(m) : l <= Lo(f) /\ Hi(f) <= h
           /\ l = lo \/ \E f \in ToSet(m) : Lo(f) = l
           /\ h = hi \/ \E f \in ToSet(m) : Hi(f) = h
    BY <1>1, <2>3, WiderIs
  <2>5. \A f, g \in T : f = g \/ Apart(f, g)
    BY <1>4 DEF VersionIs
  <2>6. ReachesTo(T, lo, hi, ToSet(m), l, h)
    <3> HIDE DEF T
    <3>1. QED
      BY <1>2, <2>3, <2>4, <2>5, ReachedApart
  <2>7. QED
    BY <2>1, <2>2, <2>3, <2>6 DEF S
<1>5. QED
  BY <1>3, <1>4

-----------------------------------------------------------------------------
(* The inputs A and B of a compaction of a level: nothing else of the level *)
(* overlaps A but later flushes to level 0, and nothing else of the next    *)
(* comes where the keys of the inputs are.                                  *)
Taken(version, level, A, B) ==
  /\ level \in 0..(NumLevels - 2)
  /\ A # {} /\ A \subseteq ToSet(version[level]) /\ B \subseteq ToSet(version[level + 1])
  /\ \A f \in ToSet(version[level]) \ A, g \in A : Apart(f, g) \/ (level = 0 /\ f.number > g.number)
  /\ \E lo, hi : /\ Spans(A \union B, lo, hi)
                 /\ \A g \in ToSet(version[level + 1]) \ B : Hi(g) < lo \/ hi < Lo(g)

CompactionIs(version, c) ==
  /\ Taken(version, c.level, ToSet(c.inputs[1]), ToSet(c.inputs[2]))
  /\ c.inputs[1] \in Seq(FilesOf(version)) /\ c.inputs[2] \in Seq(FilesOf(version))
  /\ c.grandparents \in Seq(FilesOf(version))

LEMMA NextLevel ==
  ASSUME NEW level \in 0..(NumLevels - 2)
  PROVE  /\ level \in Levels /\ level + 1 \in Levels \ {0} /\ level + 1 # level
         /\ level + 2 < NumLevels => level + 2 \in Levels
BY LevelsAssumption DEF Levels

LEMMA TogetherAre ==
  ASSUME NEW S, NEW a \in Seq(S), NEW b \in Seq(S)
  PROVE  a \o b \in Seq(S) /\ ToSet(a \o b) = ToSet(a) \union ToSet(b)
<1>1. /\ a \o b \in Seq(S) /\ Len(a \o b) = Len(a) + Len(b)
      /\ \A i \in 1..Len(a) : (a \o b)[i] = a[i]
      /\ \A i \in 1..Len(b) : (a \o b)[Len(a) + i] = b[i]
  OBVIOUS
<1>2. /\ ToSet(a) = {a[i] : i \in 1..Len(a)} /\ ToSet(b) = {b[i] : i \in 1..Len(b)}
      /\ ToSet(a \o b) = {(a \o b)[i] : i \in 1..Len(a \o b)}
      /\ Len(a) \in Nat /\ Len(b) \in Nat
  BY <1>1, MembersOf
<1>3. /\ \A i \in 1..Len(a) : i \in 1..(Len(a) + Len(b))
      /\ \A i \in 1..Len(b) : Len(a) + i \in 1..(Len(a) + Len(b))
      /\ \A i \in 1..(Len(a) + Len(b)) : i \in 1..Len(a) \/ (i - Len(a) \in 1..Len(b) /\ Len(a) + (i - Len(a)) = i)
  BY <1>2
<1>4. ASSUME NEW x \in ToSet(a \o b) PROVE x \in ToSet(a) \union ToSet(b)
  <2>1. PICK i \in 1..(Len(a) + Len(b)) : (a \o b)[i] = x
    BY <1>1, <1>2
  <2>2. CASE i \in 1..Len(a)
    BY <1>1, <1>2, <2>1, <2>2
  <2>3. CASE i - Len(a) \in 1..Len(b) /\ Len(a) + (i - Len(a)) = i
    <3>1. b[i - Len(a)] = x
      BY <1>1, <2>1, <2>3
    <3>2. QED
      BY <1>2, <2>3, <3>1
  <2>4. QED
    BY <1>3, <2>2, <2>3
<1>5. \A x \in ToSet(a) : x \in ToSet(a \o b)
  BY <1>1, <1>2, <1>3
<1>6. \A x \in ToSet(b) : x \in ToSet(a \o b)
  BY <1>1, <1>2, <1>3
<1>7. QED
  BY <1>1, <1>4, <1>5, <1>6

LEMMA InRangeIs ==
  ASSUME NEW last \in Nat, NEW version, VersionIs(version, last), NEW level \in Levels,
         NEW F, F \subseteq FilesOf(version), NEW lo, NEW hi, IsHull(F, lo, hi)
  PROVE  InRangeOf(version, level, Entries(F)) = GetOverlappingInputs(version, level, lo, hi) /\ lo <= hi /\ lo \in Nat /\ hi \in Nat
<1>1. FilesAre(FilesOf(version), last)
  BY DEF VersionIs
<1>2. F # {} /\ lo \in Nat /\ hi \in Nat
  BY DEF IsHull
<1>3. IsHull(F, Least(Entries(F)).key, Most(Entries(F)).key)
  BY <1>1, <1>2, HullIs
<1>4. RangesAre(F)
  BY VersionRanges DEF RangesAre
<1>5. \A f \in F : Lo(f) \in Nat /\ Hi(f) \in Nat /\ Lo(f) <= Hi(f)
  BY <1>4 DEF RangesAre
<1>6. PICK p, q : p = Least(Entries(F)).key /\ q = Most(Entries(F)).key
  OBVIOUS
<1>7. IsHull(F, p, q)
  BY <1>3, <1>6
<1>8. p = lo
  <2>1. PICK f \in F : Lo(f) = lo
    BY DEF IsHull
  <2>2. PICK g \in F : Lo(g) = p
    BY <1>7 DEF IsHull
  <2>3. p <= Lo(f) /\ lo <= Lo(g) /\ p \in Nat
    BY <1>7 DEF IsHull
  <2>4. QED
    BY <1>2, <2>1, <2>2, <2>3
<1>9. q = hi
  <2>1. PICK f \in F : Hi(f) = hi
    BY DEF IsHull
  <2>2. PICK g \in F : Hi(g) = q
    BY <1>7 DEF IsHull
  <2>3. Hi(f) <= q /\ Hi(g) <= hi /\ q \in Nat
    BY <1>7 DEF IsHull
  <2>4. QED
    BY <1>2, <2>1, <2>2, <2>3
<1>10. lo <= hi
  <2>1. PICK f \in F : Lo(f) = lo
    BY DEF IsHull
  <2>2. Hi(f) <= hi /\ Lo(f) <= Hi(f) /\ Hi(f) \in Nat
    BY <1>5 DEF IsHull
  <2>3. QED
    BY <1>2, <2>1, <2>2
<1>11. QED
  BY <1>2, <1>6, <1>8, <1>9, <1>10 DEF InRangeOf

(* The same where the files span the range.                                 *)
LEMMA InSpanIs ==
  ASSUME NEW last \in Nat, NEW version, VersionIs(version, last), NEW level \in Levels,
         NEW F, F \subseteq FilesOf(version), F # {}, NEW lo, NEW hi, Spans(F, lo, hi)
  PROVE  /\ IsHull(F, lo, hi)
         /\ InRangeOf(version, level, Entries(F)) \in Seq(FilesOf(version))
         /\ \E l, h : ReachesTo(ToSet(version[level]), lo, hi, ToSet(InRangeOf(version, level, Entries(F))), l, h)
<1>1. FilesAre(FilesOf(version), last)
  BY DEF VersionIs
<1>2. PICK p, q : IsHull(F, p, q)
  BY <1>1, HullIs
<1>3. RangesAre(F)
  BY VersionRanges DEF RangesAre
<1>4. p = lo /\ q = hi
  BY <1>2, <1>3, SpanIsHull
<1>5. IsHull(F, lo, hi)
  BY <1>2, <1>4
<1>6. InRangeOf(version, level, Entries(F)) = GetOverlappingInputs(version, level, lo, hi) /\ lo <= hi /\ lo \in Nat /\ hi \in Nat
  BY <1>5, InRangeIs
<1>7. /\ GetOverlappingInputs(version, level, lo, hi) \in Seq(FilesOf(version))
      /\ \E l, h : ReachesTo(ToSet(version[level]), lo, hi, ToSet(GetOverlappingInputs(version, level, lo, hi)), l, h)
  BY <1>6, OverlappingInputsAre
<1>8. QED
  BY <1>5, <1>6, <1>7

LEMMA TakenIs ==
  ASSUME NEW version, NEW level \in 0..(NumLevels - 2), NEW A, NEW B, A # {}, B \subseteq ToSet(version[level + 1]),
         RangesAre(ToSet(version[level])), RangesAre(ToSet(version[level + 1])),
         NEW lo \in Nat, NEW hi \in Nat, A = Meeting(ToSet(version[level]), lo, hi), \A f \in A : lo <= Lo(f) /\ Hi(f) <= hi,
         NEW l, NEW h, Spans(A \union B, l, h),
         \A g \in ToSet(version[level + 1]) \ B : Hi(g) < l \/ h < Lo(g)
  PROVE  Taken(version, level, A, B)
<1>1. A \subseteq ToSet(version[level])
  BY DEF Meeting
<1>2. ASSUME NEW f \in ToSet(version[level]) \ A, NEW g \in A PROVE Apart(f, g)
  <2>1. /\ Lo(f) \in Nat /\ Hi(f) \in Nat /\ Lo(g) \in Nat /\ Hi(g) \in Nat /\ lo <= Lo(g) /\ Hi(g) <= hi
        /\ ~(lo <= Hi(f) /\ Lo(f) <= hi)
    BY <1>1 DEF RangesAre, Meeting
  <2>2. Hi(f) < Lo(g) \/ Hi(g) < Lo(f)
    BY <2>1
  <2>3. QED
    BY <2>2 DEF Apart
<1>3. QED
  BY <1>1, <1>2 DEF Taken

LEMMA NoneBetween ==
  ASSUME NEW T, RangesAre(T), NEW l \in Nat, NEW h \in Nat
  PROVE  \A g \in T \ Meeting(T, l, h) : Hi(g) < l \/ h < Lo(g)
<1> SUFFICES ASSUME NEW g \in T, ~(l <= Hi(g) /\ Lo(g) <= h) PROVE Hi(g) < l \/ h < Lo(g)
  BY DEF Meeting
<1>1. Lo(g) \in Nat /\ Hi(g) \in Nat
  BY DEF RangesAre
<1>2. QED
  BY <1>1

(* A wider range that meets as many files meets the same.                   *)
LEMMA MetTheSame ==
  ASSUME NEW S, RangesAre(S), NEW files \in Seq(S), NEW lo \in Nat, NEW hi \in Nat, NEW p \in Nat, NEW q \in Nat,
         p <= lo, hi <= q, Len(Met(files, <<lo, hi>>)) = Len(Met(files, <<p, q>>))
  PROVE  Meeting(ToSet(files), p, q) = Meeting(ToSet(files), lo, hi)
<1> DEFINE H == Hits(files, <<lo, hi>>, Len(files))
           K == Hits(files, <<p, q>>, Len(files))
<1>1. Len(files) \in Nat /\ ToSet(files) = {files[i] : i \in 1..Len(files)} /\ \A i \in 1..Len(files) : files[i] \in S
  BY MembersOf
<1>2. /\ \A f \in S : Overlaps(f, lo, hi) <=> lo <= Hi(f) /\ Lo(f) <= hi
      /\ \A f \in S : Overlaps(f, p, q) <=> p <= Hi(f) /\ Lo(f) <= q
  BY MeetsIs
<1>3. /\ H = {j \in 1..Len(files) : Overlaps(files[j], lo, hi)}
      /\ K = {j \in 1..Len(files) : Overlaps(files[j], p, q)}
  BY DEF Hits
<1>4. Cardinality(H) = Cardinality(K) /\ IsFiniteSet(K)
  BY <1>1, MetAre, HitsAreCounted
<1> HIDE DEF H, K
<1>5. \A f \in S : lo <= Hi(f) /\ Lo(f) <= hi => p <= Hi(f) /\ Lo(f) <= q
  <2>1. \A f \in S : Lo(f) \in Nat /\ Hi(f) \in Nat
    BY DEF RangesAre
  <2>2. QED
    BY <2>1
<1>6. H \subseteq K
  BY <1>1, <1>2, <1>3, <1>5
<1>7. H = K
  BY <1>4, <1>6, FS_Subset
<1>8. \A j \in 1..Len(files) : Overlaps(files[j], lo, hi) <=> Overlaps(files[j], p, q)
  BY <1>3, <1>7
<1>9. \A f \in ToSet(files) : lo <= Hi(f) /\ Lo(f) <= hi <=> p <= Hi(f) /\ Lo(f) <= q
  BY <1>1, <1>2, <1>8
<1>10. QED
  BY <1>9 DEF Meeting

LEMMA CompactionOfIs ==
  ASSUME NEW last \in Nat, NEW version, VersionIs(version, last), NEW level \in 0..(NumLevels - 2),
         NEW inputs0 \in Seq(FilesOf(version)), NEW inputs1 \in Seq(FilesOf(version)),
         Taken(version, level, ToSet(inputs0), ToSet(inputs1))
  PROVE  CompactionIs(version, CompactionOf(version, level, inputs0, inputs1))
<1> DEFINE c == CompactionOf(version, level, inputs0, inputs1)
           A == ToSet(inputs0)
           B == ToSet(inputs1)
           S == FilesOf(version)
<1>1. /\ c.level = level /\ c.inputs[1] = inputs0 /\ c.inputs[2] = inputs1
      /\ c.grandparents = IF level + 2 < NumLevels THEN InRangeOf(version, level + 2, EntriesOf(inputs0 \o inputs1)) ELSE << >>
  BY DEF CompactionOf
<1> HIDE DEF c
<1>2. A \subseteq S /\ B \subseteq S
  BY MembersOf
<1>3. EntriesOf(inputs0 \o inputs1) = Entries(A \union B)
  <2>1. ToSet(inputs0 \o inputs1) = A \union B
    BY TogetherAre
  <2>2. QED
    BY <2>1 DEF EntriesOf, Entries
<1>4. PICK lo, hi : Spans(A \union B, lo, hi)
  BY DEF Taken
<1>5. A \union B # {} /\ A \union B \subseteq S
  BY <1>2 DEF Taken
<1>6. ASSUME level + 2 < NumLevels PROVE InRangeOf(version, level + 2, EntriesOf(inputs0 \o inputs1)) \in Seq(S)
  <2>1. level + 2 \in Levels
    BY <1>6, NextLevel
  <2>2. PICK F : F = A \union B
    OBVIOUS
  <2>3. F \subseteq FilesOf(version) /\ F # {} /\ Spans(F, lo, hi)
    BY <1>4, <1>5, <2>2
  <2>4. InRangeOf(version, level + 2, Entries(F)) \in Seq(FilesOf(version))
    BY <2>1, <2>3, InSpanIs
  <2>5. QED
    BY <1>3, <2>2, <2>4
<1>7. << >> \in Seq(S)
  OBVIOUS
<1>8. c.grandparents \in Seq(S)
  BY <1>1, <1>6, <1>7
<1>9. QED
  BY <1>1, <1>8 DEF CompactionIs, c

(* VersionSet::SetupOtherInputs, from files of a level that span a range    *)
(* and are all that meet it.                                                *)
LEMMA SetupIs ==
  ASSUME NEW last \in Nat, NEW version, VersionIs(version, last), NEW level \in 0..(NumLevels - 2),
         NEW inputs0 \in Seq(FilesOf(version)), ToSet(inputs0) # {},
         NEW lo0, NEW hi0, Spans(ToSet(inputs0), lo0, hi0), ToSet(inputs0) = Meeting(ToSet(version[level]), lo0, hi0)
  PROVE  CompactionIs(version, SetupOtherInputs(version, level, inputs0))
<1> DEFINE S == FilesOf(version)
           T == ToSet(version[level])
           U == ToSet(version[level + 1])
           A == ToSet(inputs0)
<1>1. level \in Levels /\ level + 1 \in Levels \ {0} /\ level + 1 \in Levels
  BY NextLevel
<1>2. RangesAre(S) /\ T \subseteq S /\ U \subseteq S /\ version[level + 1] \in Seq(S)
  BY <1>1, VersionRanges, LevelFiles
<1>3. RangesAre(T) /\ RangesAre(U)
  BY <1>2 DEF RangesAre
<1>4. A \subseteq T /\ A \subseteq S
  BY <1>2 DEF Meeting
<1>5. PICK inputs1 : inputs1 = InRangeOf(version, level + 1, EntriesOf(inputs0))
  OBVIOUS
<1> DEFINE B == ToSet(inputs1)
<1>6. EntriesOf(inputs0) = Entries(A)
  BY DEF EntriesOf, Entries
<1>7. IsHull(A, lo0, hi0) /\ inputs1 \in Seq(S) /\ \E l, h : ReachesTo(U, lo0, hi0, B, l, h)
  BY <1>1, <1>4, <1>5, <1>6, InSpanIs
<1>8. PICK lo1, hi1 : ReachesTo(U, lo0, hi0, B, lo1, hi1)
  BY <1>7
<1>9. RangesAre(A)
  BY <1>2, <1>4 DEF RangesAre
<1>10. Spans(A \union B, lo1, hi1)
  <2> HIDE DEF A, B, U
  <2>1. Spans(A, lo0, hi0)
    BY DEF A
  <2>2. QED
    BY <1>8, <1>9, <2>1, SpansFurther
<1>11. B \subseteq U /\ B \subseteq S /\ A \union B \subseteq S /\ A \union B # {}
  BY <1>2, <1>4, <1>8 DEF ReachesTo, Meeting
<1>12. /\ lo0 \in Nat /\ hi0 \in Nat /\ lo1 \in Nat /\ hi1 \in Nat /\ lo1 <= lo0 /\ hi0 <= hi1
       /\ \A f \in A : lo0 <= Lo(f) /\ Hi(f) <= hi0
  BY <1>8 DEF ReachesTo, Spans
<1>13. \A g \in U \ B : Hi(g) < lo1 \/ hi1 < Lo(g)
  <2>1. B = Meeting(U, lo1, hi1)
    BY <1>8 DEF ReachesTo
  <2>2. QED
    BY <1>3, <1>12, <2>1, NoneBetween
<1>14. Taken(version, level, A, B)
  BY <1>3, <1>10, <1>11, <1>12, <1>13, TakenIs
<1>15. CompactionIs(version, CompactionOf(version, level, inputs0, inputs1))
  BY <1>7, <1>14, CompactionOfIs
<1>16. PICK expanded0 : expanded0 = InRangeOf(version, level, EntriesOf(inputs0 \o inputs1))
  OBVIOUS
<1>17. PICK expanded1 : expanded1 = InRangeOf(version, level + 1, EntriesOf(expanded0))
  OBVIOUS
<1>18. SetupOtherInputs(version, level, inputs0) = Grown(version, level, inputs0, inputs1, expanded0, expanded1)
  BY <1>5, <1>16, <1>17 DEF SetupOtherInputs, WithNextLevel, GrownTo
<1> DEFINE A2 == ToSet(expanded0)
<1>19. EntriesOf(inputs0 \o inputs1) = Entries(A \union B)
  <2>1. ToSet(inputs0 \o inputs1) = A \union B
    BY <1>7, TogetherAre
  <2>2. QED
    BY <2>1 DEF EntriesOf, Entries
<1>20. expanded0 \in Seq(S) /\ \E l, h : ReachesTo(T, lo1, hi1, A2, l, h)
  <2>1. PICK F : F = A \union B
    OBVIOUS
  <2>2. F \subseteq FilesOf(version) /\ F # {} /\ Spans(F, lo1, hi1) /\ expanded0 = InRangeOf(version, level, Entries(F))
    BY <1>10, <1>11, <1>16, <1>19, <2>1
  <2>3. QED
    BY <1>1, <2>2, InSpanIs
<1>21. PICK lo2, hi2 : ReachesTo(T, lo1, hi1, A2, lo2, hi2)
  BY <1>20
<1>22. RangesAre(A \union B)
  BY <1>2, <1>11 DEF RangesAre
<1>23. Spans((A \union B) \union A2, lo2, hi2)
  <2>1. PICK F, M, T1 : F = A \union B /\ M = A2 /\ T1 = T
    OBVIOUS
  <2>2. RangesAre(F) /\ Spans(F, lo1, hi1) /\ ReachesTo(T1, lo1, hi1, M, lo2, hi2)
    BY <1>10, <1>21, <1>22, <2>1
  <2>3. Spans(F \union M, lo2, hi2)
    BY <2>2, SpansFurther
  <2>4. QED
    BY <2>1, <2>3
<1>24. /\ lo2 \in Nat /\ hi2 \in Nat /\ lo2 <= lo1 /\ hi1 <= hi2 /\ A2 = Meeting(T, lo2, hi2)
       /\ \A f \in A2 : lo2 <= Lo(f) /\ Hi(f) <= hi2
       /\ \A k \in lo2..hi2 : k \in lo1..hi1 \/ \E f \in A2 : Lo(f) <= k /\ k <= Hi(f)
  BY <1>21 DEF ReachesTo
<1>25. A \subseteq A2 /\ A2 \subseteq S
  <2>1. ASSUME NEW f \in A PROVE lo2 <= Hi(f) /\ Lo(f) <= hi2 /\ f \in T
    <3>1. Lo(f) \in Nat /\ Hi(f) \in Nat /\ Lo(f) <= Hi(f) /\ lo0 <= Lo(f) /\ Hi(f) <= hi0
      BY <1>9, <1>12 DEF RangesAre
    <3>2. QED
      BY <1>4, <1>12, <1>24, <3>1
  <2>2. QED
    BY <1>2, <1>24, <2>1 DEF Meeting
<1> DEFINE more == /\ inputs1 # << >>
                   /\ Len(expanded0) > Len(inputs0)
                   /\ TotalFileSize(inputs1 \o expanded0) < ExpandedCompactionLimit
                   /\ Len(expanded1) = Len(inputs1)
<1>26. ASSUME Len(expanded1) = Len(inputs1)
       PROVE  CompactionIs(version, CompactionOf(version, level, expanded0, expanded1))
  <2>1. PICK p, q : IsHull(A2, p, q)
    <3>1. FilesAre(S, last) /\ A2 # {}
      BY <1>25 DEF VersionIs
    <3>2. QED
      BY <1>25, <3>1, HullIs
  <2>2. p \in Nat /\ q \in Nat /\ \A f \in A2 : p <= Lo(f) /\ Hi(f) <= q
    BY <2>1 DEF IsHull
  <2>3. p <= lo0 /\ hi0 <= q
    <3>1. (\E f \in A : Lo(f) = lo0) /\ (\E f \in A : Hi(f) = hi0)
      BY <1>7 DEF IsHull
    <3>2. QED
      BY <1>25, <2>2, <3>1
  <2>4. expanded1 = GetOverlappingInputs(version, level + 1, p, q) /\ p <= q
    <3>1. EntriesOf(expanded0) = Entries(A2)
      BY DEF EntriesOf, Entries
    <3>2. QED
      BY <1>1, <1>17, <1>25, <2>1, <3>1, InRangeIs
  <2>5. inputs1 = GetOverlappingInputs(version, level + 1, lo0, hi0)
    BY <1>1, <1>4, <1>5, <1>6, <1>7, InRangeIs
  <2>6. level + 1 # 0
    BY <1>1
  <2>7. inputs1 = Met(version[level + 1], <<lo0, hi0>>) /\ expanded1 = Met(version[level + 1], <<p, q>>)
    BY <2>4, <2>5, <2>6 DEF GetOverlappingInputs
  <2>8. Meeting(U, p, q) = Meeting(U, lo0, hi0)
    BY <1>2, <1>12, <1>26, <2>2, <2>3, <2>7, MetTheSame
  <2>9. expanded1 \in Seq(S) /\ ToSet(expanded1) = Meeting(U, p, q) /\ B = Meeting(U, lo0, hi0)
    BY <1>2, <1>12, <2>2, <2>7, MetAreMeeting
  <2>10. ToSet(expanded1) = B
    BY <2>8, <2>9
  <2>11. ASSUME NEW g \in U \ B PROVE Hi(g) < lo2 \/ hi2 < Lo(g)
    <3>1. Hi(g) < lo1 \/ hi1 < Lo(g)
      BY <1>13
    <3>2. Hi(g) < p \/ q < Lo(g)
      <4>1. g \in U \ Meeting(U, p, q)
        BY <2>9, <2>10
      <4>2. QED
        BY <1>3, <2>2, <4>1, NoneBetween
    <3>3. Lo(g) \in Nat /\ Hi(g) \in Nat /\ Lo(g) <= Hi(g)
      BY <1>3 DEF RangesAre
    <3>4. \A k \in lo2..hi2 : k \in lo1..hi1 \/ k \in p..q
      <4>1. \A f \in A2 : Lo(f) \in Nat /\ Hi(f) \in Nat
        BY <1>2, <1>25 DEF RangesAre
      <4>2. ASSUME NEW k \in lo2..hi2, NEW f \in A2, Lo(f) <= k, k <= Hi(f) PROVE k \in p..q
        <5>1. Lo(f) \in Nat /\ Hi(f) \in Nat /\ p <= Lo(f) /\ Hi(f) <= q
          BY <2>2, <4>1
        <5>2. QED
          BY <1>24, <2>2, <4>2, <5>1
      <4>3. QED
        BY <1>24, <4>2
    <3>5. SUFFICES ASSUME lo2 <= Hi(g), Lo(g) <= hi2 PROVE FALSE
      BY <1>24, <3>3
    <3>6. CASE Lo(g) <= lo2
      <4>1. lo2 \in lo2..hi2
        <5>1. PICK f \in A : lo0 <= Lo(f) /\ Hi(f) <= hi0
          BY <1>12
        <5>2. Lo(f) \in Nat /\ Hi(f) \in Nat /\ Lo(f) <= Hi(f)
          BY <1>9 DEF RangesAre
        <5>3. QED
          BY <1>12, <1>24, <5>1, <5>2
      <4>2. lo2 \in lo1..hi1 \/ lo2 \in p..q
        BY <3>4, <4>1
      <4>3. QED
        BY <1>12, <1>24, <2>2, <3>1, <3>2, <3>3, <3>5, <3>6, <4>2
    <3>7. CASE lo2 <= Lo(g)
      <4>1. Lo(g) \in lo2..hi2
        BY <1>24, <3>3, <3>5, <3>7
      <4>2. Lo(g) \in lo1..hi1 \/ Lo(g) \in p..q
        BY <3>4, <4>1
      <4>3. QED
        BY <1>12, <1>24, <2>2, <3>1, <3>2, <3>3, <3>5, <3>7, <4>2
    <3>8. QED
      BY <1>24, <3>3, <3>6, <3>7
  <2>12. A2 \union B = (A \union B) \union A2
    BY <1>25
  <2>13. Spans(A2 \union B, lo2, hi2)
    BY <1>23, <2>12
  <2>14. A2 # {}
    BY <1>25
  <2>15. Taken(version, level, A2, B)
    <3> HIDE DEF A2
    <3>1. QED
      BY <1>3, <1>11, <1>24, <2>11, <2>13, <2>14, TakenIs
  <2>16. QED
    BY <1>20, <2>9, <2>10, <2>15, CompactionOfIs
<1>27. QED
  <2>1. CASE more
    BY <1>18, <1>26, <2>1 DEF Grown
  <2>2. CASE ~more
    BY <1>15, <1>18, <2>2 DEF Grown
  <2>3. QED
    BY <2>1, <2>2

-----------------------------------------------------------------------------
(* The compactions that are picked.                                         *)
LEMMA PickedIs ==
  ASSUME NEW last \in Nat, NEW version, VersionIs(version, last), NEW level \in 0..(NumLevels - 2),
         NEW file \in ToSet(version[level])
  PROVE  CompactionIs(version, Picked(version, level, file))
<1> DEFINE S == FilesOf(version)
           T == ToSet(version[level])
<1>1. level \in Levels
  BY NextLevel
<1>2. RangesAre(S) /\ T \subseteq S
  BY <1>1, VersionRanges, LevelFiles
<1>3. Lo(file) \in Nat /\ Hi(file) \in Nat /\ Lo(file) <= Hi(file) /\ file \in S
  BY <1>2 DEF RangesAre
<1>4. RangesAre(T)
  BY <1>2 DEF RangesAre
<1>5. CASE level = 0
  <2>1. PICK inputs0 : inputs0 = GetOverlappingInputs(version, 0, Smallest(file).key, Largest(file).key)
    OBVIOUS
  <2>2. inputs0 \in Seq(S) /\ \E l, h : ReachesTo(T, Lo(file), Hi(file), ToSet(inputs0), l, h)
    <3>1. inputs0 = GetOverlappingInputs(version, level, Lo(file), Hi(file))
      BY <1>5, <2>1 DEF Lo, Hi
    <3>2. QED
      BY <1>1, <1>3, <3>1, OverlappingInputsAre
  <2>3. PICK l, h : ReachesTo(T, Lo(file), Hi(file), ToSet(inputs0), l, h)
    BY <2>2
  <2>4. /\ l \in Nat /\ h \in Nat /\ l <= Lo(file) /\ Hi(file) <= h /\ ToSet(inputs0) = Meeting(T, l, h)
        /\ \A f \in ToSet(inputs0) : l <= Lo(f) /\ Hi(f) <= h
        /\ \A k \in l..h : k \in Lo(file)..Hi(file) \/ \E f \in ToSet(inputs0) : Lo(f) <= k /\ k <= Hi(f)
    BY <2>3 DEF ReachesTo
  <2>5. file \in ToSet(inputs0)
    <3>1. l <= Hi(file) /\ Lo(file) <= h
      BY <1>3, <2>4
    <3>2. QED
      BY <2>4, <3>1 DEF Meeting
  <2>6. \A k \in l..h : \E f \in ToSet(inputs0) : Lo(f) <= k /\ k <= Hi(f)
    <3>1. \A k \in Lo(file)..Hi(file) : Lo(file) <= k /\ k <= Hi(file)
      BY <1>3
    <3>2. QED
      BY <2>4, <2>5, <3>1
  <2>7. Spans(ToSet(inputs0), l, h)
    BY <2>4, <2>6 DEF Spans
  <2>8. Picked(version, level, file) = SetupOtherInputs(version, level, inputs0)
    BY <1>5, <2>1 DEF Picked
  <2>9. CompactionIs(version, SetupOtherInputs(version, level, inputs0))
    BY <2>2, <2>4, <2>5, <2>7, SetupIs
  <2>10. QED
    BY <2>8, <2>9
<1>6. CASE level # 0
  <2>1. PICK inputs0 : inputs0 = <<file>>
    OBVIOUS
  <2>2. inputs0 \in Seq(S) /\ Len(inputs0) = 1 /\ inputs0[1] = file
    BY <1>3, <2>1
  <2>3. ToSet(inputs0) = {file}
    <3>1. ToSet(inputs0) = {inputs0[i] : i \in 1..Len(inputs0)}
      BY <2>2, MembersOf
    <3>2. QED
      BY <2>2, <3>1
  <2>4. Spans({file}, Lo(file), Hi(file))
    <3>1. \A k \in Lo(file)..Hi(file) : Lo(file) <= k /\ k <= Hi(file)
      BY <1>3
    <3>2. Lo(file) <= Lo(file) /\ Hi(file) <= Hi(file)
      BY <1>3
    <3>3. QED
      BY <1>3, <3>1, <3>2 DEF Spans
  <2>5. ASSUME NEW f \in T, Lo(file) <= Hi(f), Lo(f) <= Hi(file) PROVE f = file
    <3>1. level \in Levels \ {0}
      BY <1>1, <1>6
    <3>2. f = file \/ Apart(f, file)
      BY <3>1 DEF VersionIs
    <3>3. Lo(f) \in Nat /\ Hi(f) \in Nat
      BY <1>4 DEF RangesAre
    <3>4. ~Apart(f, file)
      BY <1>3, <2>5, <3>3 DEF Apart
    <3>5. QED
      BY <3>2, <3>4
  <2>6. Lo(file) <= Hi(file)
    BY <1>3
  <2>7. {file} = Meeting(T, Lo(file), Hi(file))
    BY <2>5, <2>6 DEF Meeting
  <2>8. CompactionIs(version, SetupOtherInputs(version, level, inputs0))
    BY <2>2, <2>3, <2>4, <2>7, SetupIs
  <2>9. QED
    BY <1>6, <2>1, <2>8 DEF Picked
<1>7. QED
  BY <1>5, <1>6

LEMMA PickedBySizeIs ==
  ASSUME NEW last \in Nat, NEW version, VersionIs(version, last), SizeCompaction(version), NEW tops
  PROVE  CompactionIs(version, PickedBySize(version, tops))
<1> DEFINE level == CompactionLevel(version)
           files == version[level]
           later == {i \in 1..Len(files) : \A p \in tops[level] : Less(p, Largest(files[i]))}
           i0 == IF later = {} THEN 1 ELSE Min(later)
<1>1. level \in 0..(NumLevels - 2) /\ Len(files) \in Nat \ {0}
  BY SizePicks
<1>2. i0 \in 1..Len(files)
  <2>1. later \subseteq 1..Len(files) /\ 1 \in 1..Len(files) /\ 1..Len(files) \subseteq Nat
    BY <1>1
  <2> HIDE DEF later
  <2>2. later # {} => Min(later) \in later
    BY <2>1, MinIsLeast
  <2>3. QED
    BY <2>1, <2>2
<1>3. files[i0] \in ToSet(files)
  <2>1. level \in Levels
    BY <1>1, NextLevel
  <2>2. files \in Seq(FilesOf(version))
    <3> HIDE DEF level
    <3>1. QED
      BY <2>1, LevelFiles
  <2> HIDE DEF files
  <2>3. ToSet(files) = {files[i] : i \in 1..Len(files)}
    BY <2>2, MembersOf
  <2>4. QED
    BY <1>2, <2>3
<1>4. PickedBySize(version, tops) = Picked(version, level, files[i0])
  BY DEF PickedBySize
<1> HIDE DEF level, i0
<1>5. CompactionIs(version, Picked(version, level, files[i0]))
  BY <1>1, <1>3, PickedIs
<1>6. QED
  BY <1>4, <1>5

-----------------------------------------------------------------------------
(* ShouldStopBefore counts the grandparents that end before an entry.       *)
Stops(c) == [index : 0..Len(c.grandparents), seen : BOOLEAN, overlapped : Nat, stop : BOOLEAN]

LEMMA StopIs ==
  ASSUME NEW S, \A f \in S : Cardinality(f.entries) \in Nat, NEW c, c.grandparents \in Seq(S),
         NEW s \in Stops(c), NEW e
  PROVE  ShouldStopBefore(c, s, e) \in Stops(c)
<1> DEFINE files == c.grandparents
           P == {i \in (s.index + 1)..Len(files) : \A j \in (s.index + 1)..i : Less(Largest(files[j]), e)}
           passed == Cardinality(P)
           total == TotalFileSize(SubSeq(files, s.index + 1, s.index + passed))
           sum == s.overlapped + IF s.seen THEN total ELSE 0
<1>1. Len(files) \in Nat /\ s.index \in 0..Len(files) /\ s.seen \in BOOLEAN /\ s.overlapped \in Nat
  BY DEF Stops
<1>2. passed \in 0..(Len(files) - s.index)
  <2>1. PICK a, b : a = s.index + 1 /\ b = Len(files)
    OBVIOUS
  <2>2. a \in Nat /\ b \in Nat /\ a <= b + 1
    BY <1>1, <2>1
  <2>3. IsFiniteSet(a..b) /\ Cardinality(a..b) = (IF a > b THEN 0 ELSE b - a + 1)
    BY <2>2, FS_Interval
  <2>4. P \subseteq a..b
    BY <2>1
  <2>5. IsFiniteSet(P) /\ Cardinality(P) <= Cardinality(a..b)
    BY <2>3, <2>4, FS_Subset
  <2>6. Cardinality(P) \in Nat
    BY <2>5, FS_CardinalityType
  <2> HIDE DEF P
  <2>7. Cardinality(P) <= Len(files) - s.index
    BY <1>1, <2>1, <2>2, <2>3, <2>5, <2>6
  <2>8. QED
    BY <1>1, <2>6, <2>7
<1> HIDE DEF passed
<1>3. SubSeq(files, s.index + 1, s.index + passed) \in Seq(S)
  <2>1. s.index + 1 \in 1..(Len(files) + 1) /\ s.index + passed \in 0..Len(files)
    BY <1>1, <1>2
  <2>2. \A i \in (s.index + 1)..(s.index + passed) : i \in 1..Len(files)
    BY <1>1, <1>2
  <2>3. QED
    BY <2>1, <2>2
<1>4. total \in Nat
  BY <1>3, TotalIs
<1>5. sum \in Nat
  <2> HIDE DEF total
  <2>1. QED
    BY <1>1, <1>4
<1>6. MaxGrandParentOverlap \in Nat
  BY SizesAssumption DEF MaxGrandParentOverlap
<1>7. ShouldStopBefore(c, s, e) =
        [index |-> s.index + passed, seen |-> TRUE,
         overlapped |-> IF sum > MaxGrandParentOverlap THEN 0 ELSE sum,
         stop |-> sum > MaxGrandParentOverlap]
  BY DEF ShouldStopBefore, StopAfter, passed, P, sum, total
<1> HIDE DEF sum
<1>8. s.index + passed \in 0..Len(files)
  BY <1>1, <1>2
<1>9. (IF sum > MaxGrandParentOverlap THEN 0 ELSE sum) \in Nat /\ (sum > MaxGrandParentOverlap) \in BOOLEAN
  BY <1>5
<1>10. QED
  BY <1>7, <1>8, <1>9 DEF Stops

(* Outputs of a merge, from the entries E: none is empty, and each begins   *)
(* behind the user keys of the ones before.                                 *)
OutsAre(E, outs) ==
  /\ outs \in Seq(SUBSET E)
  /\ \A i \in 1..Len(outs) : outs[i] # {}
  /\ \A i, j \in 1..Len(outs) : i < j => \A e \in outs[i], d \in outs[j] : e.key < d.key

(* The outputs while they are written, of user keys below k.                *)
Works(c, E) == [outs : Seq(SUBSET E), out : SUBSET E, last : SUBSET E, stop : Stops(c)]

WorkIs(E, w, k) ==
  /\ OutsAre(E, w.outs) /\ w.out \in SUBSET E
  /\ \A i \in 1..Len(w.outs) : \A e \in w.outs[i], d \in w.out : e.key < d.key
  /\ \A i \in 1..Len(w.outs) : \A e \in w.outs[i] : e.key < k
  /\ \A e \in w.out : e.key < k

LEMMA FinishedKeeps ==
  ASSUME NEW c, NEW E, NEW w \in Works(c, E), NEW k, WorkIs(E, w, k)
  PROVE  /\ Finished(w) \in Works(c, E) /\ WorkIs(E, Finished(w), k)
         /\ Finished(w).last = w.last /\ Finished(w).stop = w.stop /\ Finished(w).out = {}
<1>1. CASE w.out = {}
  BY <1>1 DEF Finished
<1>2. CASE w.out # {}
  <2> DEFINE v == Finished(w)
             outs == Append(w.outs, w.out)
  <2>1. v = [w EXCEPT !.outs = outs, !.out = {}]
    BY <1>2 DEF Finished
  <2>2. w.outs \in Seq(SUBSET E) /\ w.out \in SUBSET E /\ w.last \in SUBSET E /\ w.stop \in Stops(c)
    BY DEF Works
  <2>3. v.outs = outs /\ v.out = {} /\ v.last = w.last /\ v.stop = w.stop /\ v = [outs |-> v.outs, out |-> v.out, last |-> v.last, stop |-> v.stop]
    BY <2>1 DEF Works
  <2> HIDE DEF v
  <2>4. /\ outs \in Seq(SUBSET E) /\ Len(outs) = Len(w.outs) + 1 /\ Len(w.outs) \in Nat
        /\ outs[Len(w.outs) + 1] = w.out /\ \A i \in 1..Len(w.outs) : outs[i] = w.outs[i]
    BY <2>2
  <2> HIDE DEF outs
  <2>5. \A i \in 1..Len(outs) : i \in 1..Len(w.outs) \/ i = Len(w.outs) + 1
    BY <2>4
  <2>6. v \in Works(c, E)
    BY <2>2, <2>3, <2>4 DEF Works
  <2>7. \A i \in 1..Len(outs) : outs[i] # {}
    BY <1>2, <2>4, <2>5 DEF WorkIs, OutsAre
  <2>8. ASSUME NEW i \in 1..Len(outs), NEW j \in 1..Len(outs), i < j, NEW e \in outs[i], NEW d \in outs[j] PROVE e.key < d.key
    <3>1. i \in 1..Len(w.outs)
      BY <2>4, <2>8
    <3>2. outs[i] = w.outs[i]
      BY <2>4, <3>1
    <3>3. CASE j \in 1..Len(w.outs)
      <4>1. outs[j] = w.outs[j]
        BY <2>4, <3>3
      <4>2. QED
        BY <2>8, <3>1, <3>2, <3>3, <4>1 DEF WorkIs, OutsAre
    <3>4. CASE j = Len(w.outs) + 1
      <4>1. outs[j] = w.out
        BY <2>4, <3>4
      <4>2. QED
        BY <2>8, <3>1, <3>2, <4>1 DEF WorkIs
    <3>5. QED
      BY <2>5, <3>3, <3>4
  <2>9. \A i \in 1..Len(outs) : \A e \in outs[i] : e.key < k
    BY <2>4, <2>5 DEF WorkIs
  <2>10. WorkIs(E, v, k)
    BY <2>3, <2>4, <2>7, <2>8, <2>9 DEF WorkIs, OutsAre
  <2>11. QED
    BY <2>3, <2>6, <2>10 DEF v
<1>3. QED
  BY <1>1, <1>2

(* The next entry lies behind those kept, or is hidden by the one before.   *)
Hidden(w, k, e, sm) == k <= e.key \/ \E n \in w.last : n.key = e.key /\ n.seq <= sm

WorkBehind(c, E, w, next, e) == w \in Works(c, E) /\ WorkIs(E, w, next) /\ w.last = {e}

LEMMA MergeIs ==
  ASSUME NEW version, NEW c, NEW sm \in Nat, NEW E, EntriesHaveKeys(E), NEW w \in Works(c, E), NEW k \in Nat, WorkIs(E, w, k),
         NEW e \in E, NEW next \in Nat, next = e.key + 1, k <= next, Hidden(w, k, e, sm),
         NEW stop \in Stops(c)
  PROVE  WorkBehind(c, E, MergeBehind(version, c, sm, w, e, stop), next, e)
<1>1. PICK v : v = FinishedIf(stop.stop, w)
  OBVIOUS
<1>2. v \in Works(c, E) /\ WorkIs(E, v, k) /\ v.last = w.last
  <2>1. v = w \/ v = Finished(w)
    BY <1>1 DEF FinishedIf
  <2>2. QED
    BY <2>1, FinishedKeeps
<1>3. PICK u : u = [v EXCEPT !.stop = stop]
  OBVIOUS
<1>4. /\ u \in Works(c, E) /\ u.last = w.last /\ u.stop = stop /\ u.outs = v.outs /\ u.out = v.out
      /\ u.outs \in Seq(SUBSET E) /\ u.out \in SUBSET E
  BY <1>2, <1>3 DEF Works
<1>5. WorkIs(E, u, k)
  BY <1>2, <1>4 DEF WorkIs
<1>6. e.key \in Nat /\ \A d \in E : d.key \in Nat
  BY DEF EntriesHaveKeys
<1>7. \A n \in Nat : n < k => n < next
  BY <1>6
<1>8. WorkIs(E, u, next)
  <2>1. \A i \in 1..Len(u.outs) : u.outs[i] \in SUBSET E
    BY <1>4
  <2>2. (\A i \in 1..Len(u.outs) : \A d \in u.outs[i] : d.key < k) /\ (\A d \in u.out : d.key < k)
    BY <1>5 DEF WorkIs
  <2>3. (\A i \in 1..Len(u.outs) : \A d \in u.outs[i] : d.key < next) /\ (\A d \in u.out : d.key < next)
    BY <1>4, <1>6, <1>7, <2>1, <2>2
  <2>4. QED
    BY <1>5, <2>3 DEF WorkIs
<1> DEFINE newer == {n \in u.last : n.key = e.key}
<1>9. PICK x : x = IF Drops(version, c, sm, newer, e) THEN u ELSE Added(u, e)
  OBVIOUS
<1>10. MergeBehind(version, c, sm, w, e, stop) = [x EXCEPT !.last = {e}]
  BY <1>1, <1>3, <1>9 DEF MergeBehind, MergeEntry
<1>11. x \in Works(c, E) /\ WorkIs(E, x, next) /\ x.stop = stop
  <2>1. CASE Drops(version, c, sm, newer, e)
    BY <1>4, <1>8, <1>9, <2>1
  <2>2. CASE ~Drops(version, c, sm, newer, e)
    <3>1. k <= e.key
      BY <1>4, <2>2 DEF Drops, Hidden
    <3>2. PICK y : y = [u EXCEPT !.out = @ \union {e}]
      OBVIOUS
    <3>3. /\ y.outs = u.outs /\ y.out = u.out \union {e} /\ y.last = u.last /\ y.stop = stop
          /\ y \in Works(c, E)
      BY <1>4, <3>2 DEF Works
    <3>4. \A i \in 1..Len(u.outs) : \A d \in u.outs[i] : d.key < e.key
      <4>1. \A i \in 1..Len(u.outs) : u.outs[i] \in SUBSET E
        BY <1>4
      <4>2. \A i \in 1..Len(u.outs) : \A d \in u.outs[i] : d.key < k
        BY <1>5 DEF WorkIs
      <4>3. \A n \in Nat : n < k => n < e.key
        BY <1>6, <3>1
      <4>4. QED
        BY <1>6, <4>1, <4>2, <4>3
    <3>5. e.key < next
      BY <1>6
    <3>6. WorkIs(E, y, next)
      <4>1. \A i \in 1..Len(y.outs) : \A a \in y.outs[i], d \in y.out : a.key < d.key
        <5>1. \A i \in 1..Len(u.outs) : \A a \in u.outs[i], d \in u.out : a.key < d.key
          BY <1>8 DEF WorkIs
        <5>2. QED
          BY <3>3, <3>4, <5>1
      <4>2. OutsAre(E, y.outs) /\ y.out \in SUBSET E
        BY <1>4, <1>8, <3>3 DEF WorkIs
      <4>3. \A i \in 1..Len(y.outs) : \A a \in y.outs[i] : a.key < next
        BY <1>8, <3>3 DEF WorkIs
      <4>4. \A a \in y.out : a.key < next
        BY <1>8, <3>3, <3>5 DEF WorkIs
      <4>5. QED
        BY <4>1, <4>2, <4>3, <4>4 DEF WorkIs
    <3>7. x = y \/ x = Finished(y)
      BY <1>9, <2>2, <3>2 DEF Added, FinishedIf
    <3>8. QED
      BY <3>3, <3>6, <3>7, FinishedKeeps
  <2>3. QED
    BY <2>1, <2>2
<1>12. PICK z : z = [x EXCEPT !.last = {e}]
  OBVIOUS
<1>13. z \in Works(c, E) /\ z.outs = x.outs /\ z.out = x.out /\ z.last = {e} /\ z.stop = x.stop
  BY <1>11, <1>12 DEF Works
<1>14. WorkIs(E, z, next)
  BY <1>11, <1>13 DEF WorkIs
<1>15. QED
  BY <1>10, <1>11, <1>12, <1>13, <1>14 DEF WorkBehind

(* One entry after another, in order: step i is at entry i.                 *)
ComesNext(w, k, e) == k <= e.key \/ \E n \in w.last : k = n.key + 1 /\ Less(n, e)

LEMMA MergeStep ==
  ASSUME NEW last \in Nat, NEW version, NEW c, NEW S, \A f \in S : Cardinality(f.entries) \in Nat, c.grandparents \in Seq(S),
         NEW E, EntriesAre(E, last), NEW k \in Nat, NEW w \in Works(c, E), WorkIs(E, w, k),
         NEW e \in E, NEW next \in Nat, next = e.key + 1, ComesNext(w, k, e)
  PROVE  WorkBehind(c, E, MergeBehind(version, c, last, w, e, ShouldStopBefore(c, w.stop, e)), next, e)
<1>1. EntriesHaveKeys(E) /\ \A d \in E : d.key \in Nat /\ d.seq <= last
  BY DEF EntriesHaveKeys, EntriesAre
<1>2. w.stop \in Stops(c) /\ w.last \in SUBSET E
  BY DEF Works
<1>3. PICK stop : stop = ShouldStopBefore(c, w.stop, e)
  OBVIOUS
<1>4. stop \in Stops(c)
  BY <1>2, <1>3, StopIs
<1>5. k <= next /\ Hidden(w, k, e, last)
  <2>1. e.key \in Nat
    BY <1>1
  <2>2. CASE k <= e.key
    BY <2>1, <2>2 DEF Hidden
  <2>3. CASE ~(k <= e.key)
    <3>1. PICK n \in w.last : k = n.key + 1 /\ Less(n, e)
      BY <2>3 DEF ComesNext
    <3>2. n.key \in Nat /\ n.seq <= last
      BY <1>1, <1>2
    <3>3. n.key < e.key \/ n.key = e.key
      BY <3>1 DEF Less
    <3>4. n.key = e.key
      <4>1. \A a, b \in Nat : ~(a + 1 <= b) => ~(a < b)
        OBVIOUS
      <4>2. QED
        BY <2>1, <2>3, <3>1, <3>2, <3>3, <4>1
    <3>5. k <= next
      BY <2>1, <3>1, <3>4
    <3>6. QED
      BY <3>2, <3>4, <3>5 DEF Hidden
  <2>4. QED
    BY <2>2, <2>3
<1>6. EntriesHaveKeys(E)
  BY <1>1
<1>7. next \in Nat /\ k <= next /\ Hidden(w, k, e, last)
  BY <1>5
<1>8. WorkBehind(c, E, MergeBehind(version, c, last, w, e, stop), next, e)
  BY <1>4, <1>6, <1>7, MergeIs
<1>9. QED
  BY <1>3, <1>8

(* What becomes of the entries of a merge: a user key keeps the newest of   *)
(* its entries, unless that is a deletion of a key of which nothing lies    *)
(* below, one of Gone.                                                      *)
Newest(E, Out) == \A o \in Out, d \in E : o.key = d.key => d.seq <= o.seq

IsNewest(E, e) == \A d \in E : d.key = e.key => d.seq <= e.seq

SpokenFor(Gone, E, Out, e) ==
  \/ \E o \in Out : o.key = e.key /\ e.seq <= o.seq
  \/ \E m \in E : m.key = e.key /\ m.del /\ m.key \in Gone /\ IsNewest(E, m)

OutOf(w) == (UNION {w.outs[i] : i \in 1..Len(w.outs)}) \union w.out

WorkCovers(Gone, E, w, T) == Newest(E, OutOf(w)) /\ \A e \in T : SpokenFor(Gone, E, OutOf(w), e)

BaseKeys(version, c, Gone) == \A k \in Nat : IsBaseLevelForKey(version, c, k) => k \in Gone

LEMMA FinishedSame ==
  ASSUME NEW c, NEW E, NEW w \in Works(c, E)
  PROVE  Finished(w) \in Works(c, E) /\ Finished(w).last = w.last /\ OutOf(Finished(w)) = OutOf(w)
<1>1. CASE w.out = {}
  BY <1>1 DEF Finished
<1>2. CASE w.out # {}
  <2> DEFINE v == Finished(w)
             outs == Append(w.outs, w.out)
  <2>1. v = [w EXCEPT !.outs = outs, !.out = {}]
    BY <1>2 DEF Finished
  <2>2. w.outs \in Seq(SUBSET E) /\ w.out \in SUBSET E /\ w.last \in SUBSET E /\ w.stop \in Stops(c)
    BY DEF Works
  <2>3. v.outs = outs /\ v.out = {} /\ v.last = w.last /\ v.stop = w.stop /\ v = [outs |-> v.outs, out |-> v.out, last |-> v.last, stop |-> v.stop]
    BY <2>1 DEF Works
  <2> HIDE DEF v
  <2>4. /\ outs \in Seq(SUBSET E) /\ Len(outs) = Len(w.outs) + 1 /\ Len(w.outs) \in Nat
        /\ outs[Len(w.outs) + 1] = w.out /\ \A i \in 1..Len(w.outs) : outs[i] = w.outs[i]
    BY <2>2
  <2> HIDE DEF outs
  <2>5. v \in Works(c, E)
    BY <2>2, <2>3, <2>4 DEF Works
  <2>6. \A i : i \in 1..Len(outs) <=> i \in 1..Len(w.outs) \/ i = Len(w.outs) + 1
    BY <2>4
  <2>7. UNION {outs[i] : i \in 1..Len(outs)} = (UNION {w.outs[i] : i \in 1..Len(w.outs)}) \union w.out
    <3>1. ASSUME NEW e PROVE (\E i \in 1..Len(outs) : e \in outs[i]) <=> (\E i \in 1..Len(w.outs) : e \in w.outs[i]) \/ e \in w.out
      BY <2>4, <2>6
    <3>2. QED
      BY <3>1
  <2>8. QED
    BY <2>3, <2>5, <2>7 DEF OutOf, v
<1>3. QED
  BY <1>1, <1>2

(* An entry is the first of its user key, or follows a newer one.           *)
Turn(E, w, e) ==
  \/ (\A n \in w.last : n.key # e.key) /\ IsNewest(E, e)
  \/ \E n \in w.last : n.key = e.key /\ e.seq <= n.seq

LEMMA MergeCovers ==
  ASSUME NEW version, NEW c, NEW sm \in Nat, NEW E, \A d \in E : d.key \in Nat /\ d.seq \in Nat /\ d.seq <= sm,
         NEW Gone, BaseKeys(version, c, Gone), NEW w \in Works(c, E), NEW T, WorkCovers(Gone, E, w, T), w.last \subseteq T,
         NEW e \in E, Turn(E, w, e), NEW stop \in Stops(c)
  PROVE  WorkCovers(Gone, E, MergeBehind(version, c, sm, w, e, stop), T \union {e})
<1>1. PICK v : v = FinishedIf(stop.stop, w)
  OBVIOUS
<1>2. v \in Works(c, E) /\ v.last = w.last /\ OutOf(v) = OutOf(w)
  BY <1>1, FinishedSame DEF FinishedIf
<1>3. PICK u : u = [v EXCEPT !.stop = stop]
  OBVIOUS
<1>4. u \in Works(c, E) /\ u.last = w.last /\ u.outs = v.outs /\ u.out = v.out
  BY <1>2, <1>3 DEF Works
<1>5. OutOf(u) = OutOf(w)
  BY <1>2, <1>4 DEF OutOf
<1> DEFINE newer == {n \in u.last : n.key = e.key}
<1>6. PICK x : x = IF Drops(version, c, sm, newer, e) THEN u ELSE Added(u, e)
  OBVIOUS
<1>7. MergeBehind(version, c, sm, w, e, stop) = [x EXCEPT !.last = {e}]
  BY <1>1, <1>3, <1>6 DEF MergeBehind, MergeEntry
<1>8. \A a, b, d \in Nat : a <= b /\ b <= d => a <= d
  OBVIOUS
<1>9. u.last \subseteq E
  BY <1>4 DEF Works
<1>10. x \in Works(c, E) /\ WorkCovers(Gone, E, x, T \union {e})
  <2>1. CASE Drops(version, c, sm, newer, e)
    <3>1. x = u
      BY <1>6, <2>1
    <3>2. SpokenFor(Gone, E, OutOf(w), e)
      <4>1. CASE \E n \in w.last : n.key = e.key /\ e.seq <= n.seq
        <5>1. PICK n \in w.last : n.key = e.key /\ e.seq <= n.seq
          BY <4>1
        <5>2. SpokenFor(Gone, E, OutOf(w), n) /\ n \in E
          BY <1>4, <1>9, <5>1 DEF WorkCovers
        <5>3. CASE \E o \in OutOf(w) : o.key = n.key /\ n.seq <= o.seq
          <6>1. PICK o \in OutOf(w) : o.key = n.key /\ n.seq <= o.seq
            BY <5>3
          <6>2. o \in E
            <7>1. \A i \in 1..Len(w.outs) : w.outs[i] \subseteq E
              BY DEF Works
            <7>2. w.out \subseteq E
              BY DEF Works
            <7>3. QED
              BY <7>1, <7>2 DEF OutOf
          <6>3. e.seq <= o.seq
            BY <1>8, <5>1, <5>2, <6>1, <6>2
          <6>4. QED
            BY <5>1, <6>1, <6>3 DEF SpokenFor
        <5>4. CASE \E m \in E : m.key = n.key /\ m.del /\ m.key \in Gone /\ IsNewest(E, m)
          BY <5>1, <5>4 DEF SpokenFor
        <5>5. QED
          BY <5>2, <5>3, <5>4 DEF SpokenFor
      <4>2. CASE (\A n \in w.last : n.key # e.key) /\ IsNewest(E, e)
        <5>1. newer = {}
          BY <1>4, <4>2
        <5>2. e.del /\ IsBaseLevelForKey(version, c, e.key)
          BY <2>1, <5>1 DEF Drops
        <5>3. e.key \in Gone
          BY <5>2 DEF BaseKeys
        <5>4. QED
          BY <4>2, <5>2, <5>3 DEF SpokenFor
      <4>3. QED
        BY <4>1, <4>2 DEF Turn
    <3>3. QED
      BY <1>4, <1>5, <3>1, <3>2 DEF WorkCovers
  <2>2. CASE ~Drops(version, c, sm, newer, e)
    <3>1. IsNewest(E, e)
      <4>1. ~\E n \in w.last : n.key = e.key
        BY <1>4, <1>9, <2>2 DEF Drops
      <4>2. QED
        BY <4>1 DEF Turn
    <3>2. PICK y : y = [u EXCEPT !.out = @ \union {e}]
      OBVIOUS
    <3>3. y.outs = u.outs /\ y.out = u.out \union {e} /\ y \in Works(c, E)
      BY <1>4, <3>2 DEF Works
    <3>4. OutOf(y) = OutOf(w) \union {e}
      BY <1>5, <3>3 DEF OutOf
    <3>5. x = y \/ x = Finished(y)
      BY <1>6, <2>2, <3>2 DEF Added, FinishedIf
    <3>6. x \in Works(c, E) /\ OutOf(x) = OutOf(w) \union {e}
      BY <3>3, <3>4, <3>5, FinishedSame
    <3>7. Newest(E, OutOf(x))
      BY <3>1, <3>6 DEF WorkCovers, Newest, IsNewest
    <3>8. SpokenFor(Gone, E, OutOf(x), e)
      BY <3>6 DEF SpokenFor
    <3>9. \A d \in T : SpokenFor(Gone, E, OutOf(x), d)
      BY <3>6 DEF WorkCovers, SpokenFor
    <3>10. QED
      BY <3>6, <3>7, <3>8, <3>9 DEF WorkCovers
  <2>3. QED
    BY <2>1, <2>2
<1>11. PICK z : z = [x EXCEPT !.last = {e}]
  OBVIOUS
<1>12. z.outs = x.outs /\ z.out = x.out
  BY <1>10, <1>11 DEF Works
<1>13. OutOf(z) = OutOf(x)
  BY <1>12 DEF OutOf
<1>14. QED
  BY <1>7, <1>10, <1>11, <1>13 DEF WorkCovers

(* The entry at i of entries in order, behind the one at i - 1.             *)
LEMMA SortedTurn ==
  ASSUME NEW E, EntriesHaveKeys(E), NEW input \in Seq(E), E = {input[j] : j \in 1..Len(input)},
         \A i, j \in 1..Len(input) : i < j => Less(input[i], input[j]),
         NEW i \in 1..Len(input), NEW w, w.last = IF i = 1 THEN {} ELSE {input[i - 1]}
  PROVE  Turn(E, w, input[i])
<1> DEFINE e == input[i]
           N == Len(input)
<1>1. N \in Nat /\ \A j \in 1..N : input[j] \in E /\ input[j].key \in Nat /\ input[j].seq \in Nat
  <2>1. N \in Nat /\ \A j \in 1..N : input[j] \in E
    OBVIOUS
  <2>2. \A d \in E : d.key \in Nat /\ d.seq \in Nat
    BY DEF EntriesHaveKeys
  <2> HIDE DEF N
  <2>3. QED
    BY <2>1, <2>2
<1>2. \A j \in 1..N : i < j /\ input[j].key = e.key => input[j].seq <= e.seq
  <2>1. \A j \in 1..N : i < j /\ input[j].key = e.key => e.seq > input[j].seq \/ e.key < input[j].key
    BY DEF Less
  <2>2. \A a, b, p, q \in Nat : a = b /\ (p > q \/ b < a) => q <= p
    OBVIOUS
  <2>3. QED
    BY <1>1, <2>1, <2>2
<1>3. e.seq <= e.seq
  <2>1. e.seq \in Nat
    BY <1>1
  <2>2. \A n \in Nat : n <= n
    OBVIOUS
  <2>3. QED
    BY <2>1, <2>2
<1>4. CASE i = 1
  <2>1. \A j \in 1..N : i < j \/ j = i
    BY <1>1, <1>4
  <2>2. \A j \in 1..N : input[j].key = e.key => input[j].seq <= e.seq
    BY <1>2, <1>3, <2>1
  <2>3. IsNewest(E, e)
    BY <2>2 DEF IsNewest
  <2>4. w.last = {}
    BY <1>4
  <2>5. QED
    BY <2>3, <2>4 DEF Turn
<1>5. CASE i # 1
  <2> DEFINE n == input[i - 1]
  <2>1. i - 1 \in 1..N /\ i - 1 < i /\ w.last = {n}
    BY <1>1, <1>5
  <2>2. Less(n, e) /\ n.key \in Nat /\ e.key \in Nat /\ n.seq \in Nat /\ e.seq \in Nat
    BY <1>1, <2>1
  <2>3. CASE n.key = e.key
    <3>1. n.seq > e.seq \/ n.key < e.key
      BY <2>2 DEF Less
    <3>2. \A a, b, p, q \in Nat : a = b /\ (p > q \/ a < b) => q <= p
      OBVIOUS
    <3>3. e.seq <= n.seq
      BY <2>2, <2>3, <3>1, <3>2
    <3>4. QED
      BY <2>1, <2>3, <3>3 DEF Turn
  <2>4. CASE n.key # e.key
    <3>1. n.key < e.key
      BY <2>2, <2>4 DEF Less
    <3>2. \A j \in 1..N : i < j \/ j = i \/ j = i - 1 \/ j < i - 1
      BY <1>1
    <3>3. \A j \in 1..N : j < i - 1 => Less(input[j], n)
      BY <2>1
    <3>4. \A j \in 1..N : j < i - 1 => input[j].key < n.key \/ input[j].key = n.key
      BY <3>3 DEF Less
    <3>5. \A a, b, d \in Nat : b < d /\ (a < b \/ a = b) => a # d
      OBVIOUS
    <3>6. \A j \in 1..N : j < i - 1 \/ j = i - 1 => input[j].key # e.key
      BY <1>1, <2>2, <3>1, <3>4, <3>5
    <3>7. \A j \in 1..N : input[j].key = e.key => input[j].seq <= e.seq
      BY <1>2, <1>3, <3>2, <3>6
    <3>8. IsNewest(E, e)
      BY <3>7 DEF IsNewest
    <3>9. QED
      BY <2>1, <2>4, <3>8 DEF Turn
  <2>5. QED
    BY <2>3, <2>4
<1>6. QED
  BY <1>4, <1>5

(* What the outputs leave of the entries of a merge.                        *)
Kept(outs) == UNION {outs[i] : i \in 1..Len(outs)}

Resolved(Gone, E, Out) == Newest(E, Out) /\ \A e \in E : SpokenFor(Gone, E, Out, e)

Gives(Gone, E, outs) == OutsAre(E, outs) /\ Resolved(Gone, E, Kept(outs))

LEMMA MergeGives ==
  ASSUME NEW last \in Nat, NEW version, VersionIs(version, last), NEW c, CompactionIs(version, c),
         NEW Gone, BaseKeys(version, c, Gone)
  PROVE  Gives(Gone, Entries(ToSet(c.inputs[1]) \union ToSet(c.inputs[2])), Outputs(version, c, last))
<1> DEFINE S == FilesOf(version)
           F == ToSet(c.inputs[1]) \union ToSet(c.inputs[2])
           E == Entries(F)
           input == MakeInputIterator(c)
           N == Len(input)
<1>1. /\ FilesAre(S, last) /\ c.inputs[1] \in Seq(S) /\ c.inputs[2] \in Seq(S) /\ c.grandparents \in Seq(S)
      /\ \A f \in S : FileIs(f, last)
  BY DEF VersionIs, CompactionIs, FilesAre
<1>2. \A f \in S : Cardinality(f.entries) \in Nat
  BY <1>1, CardinalitiesAre
<1>3. F \subseteq S
  BY <1>1, MembersOf
<1>4. EntriesOf(c.inputs[1] \o c.inputs[2]) = E
  <2>1. ToSet(c.inputs[1] \o c.inputs[2]) = F
    BY <1>1, TogetherAre
  <2>2. QED
    BY <2>1 DEF EntriesOf, Entries
<1>5. IsFiniteSet(E) /\ EntriesHaveKeys(E) /\ EntriesAre(E, last) /\ \A e, d \in E : e.seq = d.seq => e = d
  <2>1. PICK G : G = F
    OBVIOUS
  <2>2. FilesAre(S, last) /\ G \subseteq S
    BY <1>1, <1>3, <2>1
  <2> HIDE DEF S, F
  <2>3. IsFiniteSet(Entries(G)) /\ EntriesHaveKeys(Entries(G)) /\ EntriesAre(Entries(G), last) /\ \A e, d \in Entries(G) : e.seq = d.seq => e = d
    BY <2>2, EntriesOfFiles
  <2>4. QED
    BY <2>1, <2>3
<1>6. input = Sorted(E, Less)
  BY <1>4 DEF MakeInputIterator
<1> HIDE DEF E, input
<1>7. /\ input \in Seq(E) /\ N = Cardinality(E) /\ ToSet(input) = E
      /\ \A i, j \in 1..Cardinality(E) : i < j => Less(input[i], input[j])
  BY <1>5, <1>6, EntriesSorted
<1>8. E = {input[j] : j \in 1..N} /\ \A d \in E : d.key \in Nat /\ d.seq \in Nat /\ d.seq <= last
  <2>1. ToSet(input) = {input[j] : j \in 1..N}
    BY <1>7, MembersOf
  <2>2. QED
    BY <1>5, <1>7, <2>1 DEF EntriesAre
<1>9. /\ N \in Nat /\ N \in 0..N /\ 0 \in 0..N
      /\ \A i \in 1..N : i # 0 /\ i \in 0..N /\ i - 1 \in 0..N /\ input[i] \in E /\ input[i].key \in Nat
      /\ \A i \in 1..N : i - 1 # 0 => i - 1 \in 1..N /\ Less(input[i - 1], input[i])
  <2>1. N \in Nat /\ \A i \in 1..N : input[i] \in E
    BY <1>7
  <2>2. \A i \in 1..N : input[i].key \in Nat
    BY <1>5, <2>1 DEF EntriesHaveKeys
  <2>3. \A i \in 1..N : i # 0 /\ i \in 0..N /\ i - 1 \in 0..N /\ (i - 1 # 0 => i - 1 \in 1..N /\ i - 1 < i)
    BY <2>1
  <2>4. QED
    BY <1>7, <2>1, <2>2, <2>3
<1> DEFINE w0 == [outs |-> << >>, out |-> {}, last |-> {},
                  stop |-> [index |-> 0, seen |-> FALSE, overlapped |-> 0, stop |-> FALSE]]
           Goes(w, i) == MergeBehind(version, c, last, w, input[i], ShouldStopBefore(c, w.stop, input[i]))
           IsWork(f) == f = [i \in 0..N |-> IF i = 0 THEN w0 ELSE Goes(f[i - 1], i)]
           work == CHOOSE f : IsWork(f)
           key == [i \in 0..N |-> IF i = 0 THEN 0 ELSE input[i].key + 1]
           before == [i \in 0..N |-> IF i = 0 THEN {} ELSE {input[i]}]
           done == [i \in 0..N |-> {input[j] : j \in 1..i}]
           step == [p \in Works(c, E) \X (1..N) |-> Goes(p[1], p[2])]
           D == [i \in 0..N |-> {w \in Works(c, E) : /\ WorkIs(E, w, key[i]) /\ w.last = before[i]
                                                     /\ WorkCovers(Gone, E, w, done[i])}]
<1>10. Outputs(version, c, last) = Finished(work[N]).outs
  BY DEF Outputs, input
<1>11. /\ key[0] = 0 /\ before[0] = {}
       /\ \A i \in 1..N : key[i] = input[i].key + 1 /\ before[i] = {input[i]}
       /\ \A i \in 0..N : key[i] \in Nat
  <2>1. \A i \in 0..N : key[i] = (IF i = 0 THEN 0 ELSE input[i].key + 1) /\ before[i] = IF i = 0 THEN {} ELSE {input[i]}
    OBVIOUS
  <2> HIDE DEF key, before, done, N, E, D, step, work, IsWork, Goes, w0
  <2>2. \A i \in 0..N : i = 0 \/ i \in 1..N
    BY <1>9
  <2>3. \A i \in 1..N : input[i].key + 1 \in Nat
    BY <1>9
  <2>4. key[0] = 0 /\ before[0] = {}
    BY <1>9, <2>1
  <2>5. \A i \in 1..N : key[i] = input[i].key + 1 /\ before[i] = {input[i]}
    BY <1>9, <2>1
  <2>6. \A i \in 0..N : key[i] \in Nat
    BY <2>2, <2>3, <2>4, <2>5
  <2>7. QED
    BY <2>4, <2>5, <2>6
<1>12. /\ done[0] = {} /\ done[N] = E
       /\ \A i \in 1..N : done[i] = done[i - 1] \union {input[i]}
       /\ \A i \in 0..N : before[i] \subseteq done[i]
  <2>1. \A i \in 0..N : done[i] = {input[j] : j \in 1..i}
    OBVIOUS
  <2> HIDE DEF key, before, done, N, E, D, step, work, IsWork, Goes, w0
  <2>2. 1..0 = {}
    OBVIOUS
  <2>3. \A i \in 1..N : \A j : j \in 1..i <=> j \in 1..(i - 1) \/ j = i
    BY <1>9
  <2>4. \A i \in 1..N : done[i] = {input[j] : j \in 1..i} /\ done[i - 1] = {input[j] : j \in 1..(i - 1)}
    BY <1>9, <2>1
  <2>5. \A i \in 1..N : done[i] = done[i - 1] \union {input[i]}
    BY <2>3, <2>4
  <2>6. done[0] = {} /\ done[N] = E
    BY <1>8, <1>9, <2>1, <2>2
  <2>7. \A i \in 0..N : i = 0 \/ i \in 1..N
    BY <1>9
  <2>8. QED
    BY <1>11, <2>5, <2>6, <2>7
<1> HIDE DEF key, before, done, Goes
<1>13. \A i \in 0..N : D[i] = {w \in Works(c, E) : WorkIs(E, w, key[i]) /\ w.last = before[i] /\ WorkCovers(Gone, E, w, done[i])}
  OBVIOUS
<1>14. \A i \in 1..N : \A w \in Works(c, E) : step[<<w, i>>] = Goes(w, i)
  OBVIOUS
<1>15. w0 \in Works(c, E) /\ WorkIs(E, w0, 0) /\ w0.last = {} /\ WorkCovers(Gone, E, w0, {})
  <2>1. Len(c.grandparents) \in Nat
    BY <1>1
  <2>2. w0.stop \in Stops(c)
    BY <2>1 DEF Stops
  <2>3. << >> \in Seq(SUBSET E) /\ Len(<< >>) = 0 /\ {} \in SUBSET E
    OBVIOUS
  <2>4. w0 \in Works(c, E)
    BY <2>2, <2>3 DEF Works
  <2>5. w0.outs = << >> /\ w0.out = {} /\ w0.last = {}
    OBVIOUS
  <2>6. 1..0 = {}
    OBVIOUS
  <2> HIDE DEF w0
  <2>7. QED
    BY <2>3, <2>4, <2>5, <2>6 DEF WorkIs, OutsAre, WorkCovers, Newest, OutOf
<1> HIDE DEF step, D, w0
<1>16. w0 \in D[0]
  <2>1. D[0] = {w \in Works(c, E) : WorkIs(E, w, key[0]) /\ w.last = before[0] /\ WorkCovers(Gone, E, w, done[0])}
    BY <1>9, <1>13
  <2>2. WorkIs(E, w0, key[0]) /\ w0.last = before[0] /\ WorkCovers(Gone, E, w0, done[0])
    BY <1>11, <1>12, <1>15
  <2>3. QED
    BY <1>15, <2>1, <2>2
<1>17. ASSUME NEW i \in 1..N, NEW w \in D[i - 1] PROVE Goes(w, i) \in D[i]
  <2>1. /\ w \in Works(c, E) /\ WorkIs(E, w, key[i - 1]) /\ w.last = before[i - 1] /\ key[i - 1] \in Nat
        /\ WorkCovers(Gone, E, w, done[i - 1])
    BY <1>9, <1>11, <1>13
  <2>2. PICK e, k, g, next : e = input[i] /\ k = key[i - 1] /\ g = Goes(w, i) /\ next = e.key + 1
    OBVIOUS
  <2>3. e \in E /\ e.key \in Nat /\ k \in Nat /\ next \in Nat
    BY <1>9, <2>1, <2>2
  <2>4. ComesNext(w, k, e)
    <3>1. CASE i - 1 = 0
      <4>1. k = 0
        BY <1>11, <2>2, <3>1
      <4>2. QED
        BY <2>3, <4>1 DEF ComesNext
    <3>2. CASE i - 1 # 0
      <4>1. i - 1 \in 1..N /\ Less(input[i - 1], input[i])
        BY <1>9, <3>2
      <4>2. input[i - 1] \in w.last /\ k = input[i - 1].key + 1
        BY <1>11, <2>1, <2>2, <4>1
      <4>3. QED
        BY <2>2, <4>1, <4>2 DEF ComesNext
    <3>3. QED
      BY <3>1, <3>2
  <2>5. g = MergeBehind(version, c, last, w, e, ShouldStopBefore(c, w.stop, e))
    BY <2>2 DEF Goes
  <2>6. g \in Works(c, E) /\ WorkIs(E, g, next) /\ g.last = {e}
    <3>1. WorkIs(E, w, k)
      BY <2>1, <2>2
    <3>2. w \in Works(c, E) /\ next = e.key + 1 /\ c.grandparents \in Seq(S) /\ EntriesAre(E, last)
      BY <1>1, <1>5, <2>1, <2>2
    <3>3. WorkBehind(c, E, MergeBehind(version, c, last, w, e, ShouldStopBefore(c, w.stop, e)), next, e)
      <4> HIDE DEF S
      <4>1. QED
        BY <1>2, <2>3, <2>4, <3>1, <3>2, MergeStep
    <3>4. QED
      BY <2>5, <3>3 DEF WorkBehind
  <2>7. key[i] = next /\ before[i] = {e} /\ i \in 0..N
    BY <1>9, <1>11, <2>2
  <2>8. w.last = IF i = 1 THEN {} ELSE {input[i - 1]}
    <3>1. i - 1 = 0 <=> i = 1
      BY <1>9
    <3>2. CASE i = 1
      BY <1>11, <2>1, <3>1, <3>2
    <3>3. CASE i # 1
      <4>1. i - 1 \in 1..N
        BY <1>9, <3>1, <3>3
      <4>2. QED
        BY <1>11, <2>1, <3>3, <4>1
    <3>4. QED
      BY <3>2, <3>3
  <2>9. Turn(E, w, e)
    <3>1. \A j, l \in 1..N : j < l => Less(input[j], input[l])
      BY <1>7
    <3>2. EntriesHaveKeys(E) /\ input \in Seq(E) /\ E = {input[j] : j \in 1..N}
      BY <1>5, <1>7, <1>8
    <3>3. Turn(E, w, input[i])
      BY <2>8, <3>1, <3>2, SortedTurn DEF N
    <3>4. QED
      BY <2>2, <3>3
  <2>10. WorkCovers(Gone, E, g, done[i])
    <3>1. PICK T, st : T = done[i - 1] /\ st = ShouldStopBefore(c, w.stop, e)
      OBVIOUS
    <3>2. WorkCovers(Gone, E, w, T) /\ w.last \subseteq T
      BY <1>9, <1>12, <2>1, <3>1
    <3>3. st \in Stops(c)
      <4>1. w.stop \in Stops(c)
        BY <2>1 DEF Works
      <4>2. QED
        BY <1>1, <1>2, <3>1, <4>1, StopIs
    <3>4. WorkCovers(Gone, E, MergeBehind(version, c, last, w, e, st), T \union {e})
      <4> HIDE DEF S
      <4>1. QED
        BY <1>8, <2>1, <2>3, <2>9, <3>2, <3>3, MergeCovers
    <3>5. done[i] = T \union {e} /\ g = MergeBehind(version, c, last, w, e, st)
      BY <1>12, <2>2, <2>5, <3>1
    <3>6. QED
      BY <3>4, <3>5
  <2>11. g \in D[i]
    BY <1>13, <2>6, <2>7, <2>10
  <2>12. QED
    BY <2>2, <2>11
<1>18. \A i \in 0..N : D[i] \subseteq Works(c, E)
  BY <1>13
<1>19. \E f : IsWork(f)
  <2>1. \A i \in 1..N : \A d \in D[i - 1] : step[<<d, i>>] \in D[i]
    BY <1>9, <1>14, <1>17, <1>18
  <2>2. PICK f : /\ DOMAIN f = 0..N
                 /\ \A i \in 0..N : f[i] \in D[i] /\ f[i] = IF i = 0 THEN w0 ELSE step[<<f[i - 1], i>>]
    <3> HIDE DEF IsWork, work
    <3>1. Leads(N, D, w0, step)
      BY <1>16, <2>1 DEF Leads
    <3>2. PICK f : Follows(N, D, w0, step, f)
      BY <1>9, <3>1, RecursionExists
    <3>3. QED
      BY <3>2 DEF Follows
  <2> DEFINE g == [i \in 0..N |-> f[i]]
  <2>3. \A i \in 0..N : g[i] = f[i]
    OBVIOUS
  <2>4. \A i \in 0..N : g[i] = IF i = 0 THEN w0 ELSE Goes(g[i - 1], i)
    <3> HIDE DEF g
    <3>1. g[0] = w0
      <4>1. g[0] = f[0] /\ f[0] = w0
        BY <1>9, <2>2, <2>3
      <4>2. QED
        BY <4>1
    <3>2. ASSUME NEW i \in 1..N PROVE g[i] = Goes(g[i - 1], i)
      <4>1. f[i - 1] \in Works(c, E) /\ f[i] = step[<<f[i - 1], i>>] /\ g[i] = f[i] /\ g[i - 1] = f[i - 1]
        BY <1>9, <1>18, <2>2, <2>3
      <4>2. QED
        BY <1>14, <4>1
    <3>3. \A i \in 0..N : i = 0 \/ i \in 1..N
      BY <1>9
    <3>4. QED
      BY <1>9, <3>1, <3>2, <3>3
  <2>5. IsWork(g)
    <3>1. g = [i \in 0..N |-> g[i]]
      OBVIOUS
    <3> HIDE DEF g
    <3>2. QED
      BY <2>4, <3>1
  <2>6. QED
    BY <2>5
<1>20. IsWork(work)
  BY <1>19
<1> HIDE DEF work
<1>21. \A i \in 0..N : work[i] = IF i = 0 THEN w0 ELSE Goes(work[i - 1], i)
  BY <1>20
<1> HIDE DEF IsWork
<1>22. \A i \in 0..N : work[i] \in D[i]
  <2>1. work[0] \in D[0] /\ \A i \in 1..N : work[i - 1] \in D[i - 1] => work[i] \in D[i]
    BY <1>9, <1>16, <1>17, <1>21
  <2>2. QED
    BY <1>9, <2>1, RecursionStays
<1>23. work[N] \in Works(c, E) /\ WorkIs(E, work[N], key[N]) /\ WorkCovers(Gone, E, work[N], E)
  BY <1>9, <1>12, <1>13, <1>22
<1>24. PICK w : w = Finished(work[N])
  OBVIOUS
<1>25. /\ w \in Works(c, E) /\ WorkIs(E, w, key[N]) /\ w.out = {}
       /\ OutOf(w) = OutOf(work[N])
  BY <1>23, <1>24, FinishedKeeps, FinishedSame
<1>26. OutOf(w) = Kept(w.outs)
  BY <1>25 DEF OutOf, Kept
<1>27. OutsAre(E, w.outs) /\ Resolved(Gone, E, Kept(w.outs))
  BY <1>23, <1>25, <1>26 DEF WorkIs, WorkCovers, Resolved
<1>28. QED
  BY <1>10, <1>24, <1>27 DEF Gives, E

LEMMA OutputsAre ==
  ASSUME NEW last \in Nat, NEW version, VersionIs(version, last), NEW c, CompactionIs(version, c)
  PROVE  OutsAre(Entries(ToSet(c.inputs[1]) \union ToSet(c.inputs[2])), Outputs(version, c, last))
<1>1. BaseKeys(version, c, Nat)
  BY DEF BaseKeys
<1>2. QED
  BY <1>1, MergeGives DEF Gives

-----------------------------------------------------------------------------
(* The files of a version as one set per level: what an edit changes.       *)
AllOf(S) == UNION {S[level] : level \in Levels}

LevelsAre(S, last) ==
  /\ FilesAre(AllOf(S), last)
  /\ \A level \in Levels \ {0} : \A f, g \in S[level] : f = g \/ Apart(f, g)

HasLevels(version, S) == \A level \in Levels : ToSet(version[level]) = S[level]

(* What the edit of a version leaves in a level.                            *)
AddedAt(added, level) == {a[2] : a \in {b \in added : b[1] = level}}

Left(version, deleted, added, level) ==
  {f \in ToSet(version[level]) : <<level, f>> \notin deleted} \union AddedAt(added, level)

LEMMA AppliedIs ==
  ASSUME NEW last \in Nat, NEW version, NEW deleted, NEW added, NEW S, LevelsAre(S, last),
         \A level \in Levels : Left(version, deleted, added, level) = S[level]
  PROVE  VersionIs(Applied(version, deleted, added), last) /\ HasLevels(Applied(version, deleted, added), S)
<1> DEFINE v == Applied(version, deleted, added)
<1>1. v = [level \in Levels |-> Sorted(Left(version, deleted, added, level), BySmallestKey)]
  BY DEF Applied, Left, AddedAt
<1>2. v = [level \in Levels |-> v[level]] /\ \A level \in Levels : v[level] = Sorted(S[level], BySmallestKey)
  BY <1>1
<1> HIDE DEF v
<1>3. ASSUME NEW level \in Levels
      PROVE  FilesAre(S[level], last)
  <2>1. S[level] \subseteq AllOf(S)
    BY DEF AllOf
  <2>2. IsFiniteSet(S[level])
    BY <2>1, FS_Subset DEF LevelsAre, FilesAre
  <2>3. QED
    BY <2>1, <2>2 DEF LevelsAre, FilesAre
<1>4. ASSUME NEW level \in Levels
      PROVE  v[level] \in Seq(S[level]) /\ ToSet(v[level]) = S[level] /\ InOrder(v[level])
  <2>1. PICK T : T = S[level]
    OBVIOUS
  <2>2. FilesAre(T, last)
    BY <1>3, <2>1
  <2>3. Sorted(T, BySmallestKey) \in Seq(T) /\ ToSet(Sorted(T, BySmallestKey)) = T /\ InOrder(Sorted(T, BySmallestKey))
    BY <2>2, FilesSorted
  <2>4. QED
    BY <1>2, <2>1, <2>3
<1>5. FilesOf(v) = AllOf(S)
  BY <1>4 DEF FilesOf, AllOf
<1>6. \A level \in Levels : v[level] \in Seq(FilesOf(v)) /\ InOrder(v[level])
  <2>1. ASSUME NEW level \in Levels PROVE v[level] \in Seq(FilesOf(v))
    <3>1. S[level] \subseteq FilesOf(v)
      BY <1>5 DEF AllOf
    <3>2. v[level] \in Seq(S[level])
      BY <1>4
    <3>3. \A T, U : T \subseteq U => Seq(T) \subseteq Seq(U)
      OBVIOUS
    <3>4. QED
      BY <3>1, <3>2, <3>3
  <2>2. QED
    BY <1>4, <2>1
<1>7. \A level \in Levels \ {0} : \A f, g \in ToSet(v[level]) : f = g \/ Apart(f, g)
  BY <1>4 DEF LevelsAre
<1>8. FilesAre(FilesOf(v), last)
  BY <1>5 DEF LevelsAre
<1>9. VersionIs(v, last)
  BY <1>2, <1>6, <1>7, <1>8 DEF VersionIs
<1>10. HasLevels(v, S)
  BY <1>4 DEF HasLevels
<1>11. QED
  BY <1>9, <1>10 DEF v

(* The sets of a version.                                                   *)
LEMMA LevelsOfVersion ==
  ASSUME NEW last, NEW version, NEW S, VersionIs(version, last), HasLevels(version, S)
  PROVE  LevelsAre(S, last) /\ AllOf(S) = FilesOf(version)
<1>1. AllOf(S) = FilesOf(version)
  BY DEF HasLevels, AllOf, FilesOf
<1>2. QED
  BY <1>1 DEF HasLevels, LevelsAre, VersionIs

(* The order of the layers: upper entries of a key are newer.               *)
Newer(upper, lower) == \A e \in upper, d \in lower : e.key = d.key => e.seq > d.seq

Above(l, f, m, g) == l < m \/ (l = 0 /\ m = 0 /\ f.number > g.number)

Layered(S) ==
  \A l, m \in Levels : \A f \in S[l], g \in S[m] : Above(l, f, m, g) => Newer(f.entries, g.entries)

OnTop(entries, S) == \A f \in AllOf(S) : Newer(entries, f.entries)

LEMMA ApartIsNewer ==
  ASSUME NEW last \in Nat, NEW f, NEW g, FileIs(f, last), FileIs(g, last), Apart(f, g)
  PROVE  Newer(f.entries, g.entries) /\ Newer(g.entries, f.entries)
<1>1. Lo(f) \in Nat /\ Hi(f) \in Nat /\ \A e \in f.entries : e.key \in Nat /\ Lo(f) <= e.key /\ e.key <= Hi(f)
  BY FileRange DEF Lo, Hi
<1>2. Lo(g) \in Nat /\ Hi(g) \in Nat /\ \A e \in g.entries : e.key \in Nat /\ Lo(g) <= e.key /\ e.key <= Hi(g)
  BY FileRange DEF Lo, Hi
<1>3. ASSUME NEW e \in f.entries, NEW d \in g.entries PROVE e.key # d.key
  <2>1. Hi(f) < Lo(g) \/ Hi(g) < Lo(f)
    BY DEF Apart
  <2>2. QED
    BY <1>1, <1>2, <2>1
<1>4. QED
  BY <1>3 DEF Newer

(* A flush: a file with all newer entries, in the deepest level down to     *)
(* which nothing overlaps it.                                               *)
Flushed(S, level, file) == [l \in Levels |-> IF l = level THEN S[l] \union {file} ELSE S[l]]

IsFlush(S, last, level, file) ==
  /\ level \in Levels /\ FileIs(file, last)
  /\ \A g \in AllOf(S) :
       /\ g.number < file.number /\ Newer(file.entries, g.entries)
       /\ \A e \in file.entries, d \in g.entries : e.seq = d.seq => e = d
  /\ \A e, d \in file.entries : e.seq = d.seq => e = d
  /\ level # 0 => \A l \in 0..level : \A g \in S[l] : Apart(g, file)

LEMMA FlushedAre ==
  ASSUME NEW last \in Nat, NEW S, LevelsAre(S, last), Layered(S), NEW level, NEW file, IsFlush(S, last, level, file)
  PROVE  /\ LevelsAre(Flushed(S, level, file), last) /\ Layered(Flushed(S, level, file))
         /\ AllOf(Flushed(S, level, file)) = AllOf(S) \union {file}
<1> DEFINE U == Flushed(S, level, file)
<1>1. level \in Levels /\ \A l \in Levels : U[l] = IF l = level THEN S[l] \union {file} ELSE S[l]
  BY DEF Flushed, IsFlush
<1> HIDE DEF U
<1>2. AllOf(U) = AllOf(S) \union {file}
  BY <1>1 DEF AllOf
<1>3. \A f \in AllOf(S) : FileIs(f, last) /\ f.number \in Nat
  BY DEF LevelsAre, FilesAre, FileIs
<1>4. FileIs(file, last) /\ file.number \in Nat
  BY DEF IsFlush, FileIs
<1>5. FilesAre(AllOf(U), last)
  <2>1. IsFiniteSet(AllOf(U))
    BY <1>2, FS_AddElement DEF LevelsAre, FilesAre
  <2>2. \A f \in AllOf(U) : FileIs(f, last)
    BY <1>2, <1>3, <1>4
  <2>3. \A f \in AllOf(S) : f.number # file.number
    BY <1>3, <1>4 DEF IsFlush
  <2>4. \A f, g \in AllOf(U) : f.number = g.number => f = g
    BY <1>2, <2>3 DEF LevelsAre, FilesAre
  <2>5. \A f, g \in AllOf(U) : \A e \in f.entries, d \in g.entries : e.seq = d.seq => e = d
    BY <1>2 DEF LevelsAre, FilesAre, IsFlush
  <2>6. QED
    BY <2>1, <2>2, <2>4, <2>5 DEF FilesAre
<1>6. ASSUME NEW l \in Levels \ {0}, NEW f \in U[l], NEW g \in U[l] PROVE f = g \/ Apart(f, g)
  <2>1. CASE l # level
    BY <1>1, <1>6, <2>1 DEF LevelsAre
  <2>2. CASE l = level
    <3>1. level # 0 /\ level \in 0..level
      BY <1>6, <2>2 DEF Levels
    <3>2. \A h \in S[l] : Apart(h, file) /\ Apart(file, h)
      BY <2>2, <3>1 DEF IsFlush, Apart
    <3>3. \A h \in U[l] : h \in S[l] \/ h = file
      BY <1>1
    <3>4. QED
      BY <3>2, <3>3 DEF LevelsAre
  <2>3. QED
    BY <2>1, <2>2
<1>7. LevelsAre(U, last)
  BY <1>5, <1>6 DEF LevelsAre
<1>8. ASSUME NEW l \in Levels, NEW m \in Levels, NEW f \in U[l], NEW g \in U[m], Above(l, f, m, g)
      PROVE  Newer(f.entries, g.entries)
  <2>1. (f \in S[l] \/ (f = file /\ l = level)) /\ (g \in S[m] \/ (g = file /\ m = level))
    BY <1>1
  <2>2. CASE f \in S[l] /\ g \in S[m]
    BY <1>8, <2>2 DEF Layered
  <2>3. CASE f = file /\ l = level /\ g \in S[m]
    <3>1. g \in AllOf(S)
      BY <2>3 DEF AllOf
    <3>2. QED
      BY <2>3, <3>1 DEF IsFlush
  <2>4. CASE g = file /\ m = level /\ f \in S[l]
    <3>1. f \in AllOf(S)
      BY <2>4 DEF AllOf
    <3>2. f.number < file.number /\ f.number \in Nat
      BY <1>3, <3>1 DEF IsFlush
    <3>3. ~(f.number > file.number)
      BY <1>4, <3>2
    <3>4. l < level
      BY <1>8, <2>4, <3>3 DEF Above
    <3>5. level # 0 /\ l \in 0..level
      BY <1>1, <3>4 DEF Levels
    <3>6. Apart(f, file)
      BY <2>4, <3>5 DEF IsFlush
    <3>7. QED
      BY <1>3, <1>4, <2>4, <3>1, <3>6, ApartIsNewer
  <2>5. CASE f = file /\ l = level /\ g = file /\ m = level
    <3>1. ~(l < m) /\ ~(f.number > g.number)
      BY <1>1, <1>4, <2>5 DEF Levels
    <3>2. QED
      BY <1>8, <3>1 DEF Above
  <2>6. QED
    BY <2>1, <2>2, <2>3, <2>4, <2>5
<1>9. Layered(U)
  BY <1>8 DEF Layered
<1>10. QED
  BY <1>2, <1>7, <1>9 DEF U

(* The inputs of a compaction stay apart from what is flushed meanwhile.    *)
TakenIn(S, level, A, B) ==
  /\ level \in 0..(NumLevels - 2)
  /\ A # {} /\ A \subseteq S[level] /\ B \subseteq S[level + 1]
  /\ \A f \in S[level] \ A, g \in A : Apart(f, g) \/ (level = 0 /\ f.number > g.number)
  /\ \E lo, hi : /\ Spans(A \union B, lo, hi)
                 /\ \A g \in S[level + 1] \ B : Hi(g) < lo \/ hi < Lo(g)

LEMMA TakenInLevels ==
  ASSUME NEW version, NEW S, HasLevels(version, S), NEW level, NEW A, NEW B
  PROVE  Taken(version, level, A, B) <=> TakenIn(S, level, A, B)
<1>1. level \in 0..(NumLevels - 2) => ToSet(version[level]) = S[level] /\ ToSet(version[level + 1]) = S[level + 1]
  BY NextLevel DEF HasLevels
<1>2. QED
  BY <1>1 DEF Taken, TakenIn

LEMMA RangesInLevels ==
  ASSUME NEW last \in Nat, NEW S, LevelsAre(S, last)
  PROVE  RangesAre(AllOf(S)) /\ \A level \in Levels : S[level] \subseteq AllOf(S) /\ RangesAre(S[level])
<1>1. \A f \in AllOf(S) : FileIs(f, last)
  BY DEF LevelsAre, FilesAre
<1>2. RangesAre(AllOf(S))
  BY <1>1, FilesHaveRanges
<1>3. QED
  BY <1>2 DEF AllOf, RangesAre

LEMMA FlushKeepsTaken ==
  ASSUME NEW last \in Nat, NEW S, LevelsAre(S, last), NEW level, NEW file, IsFlush(S, last, level, file),
         NEW L, NEW A, NEW B, TakenIn(S, L, A, B)
  PROVE  TakenIn(Flushed(S, level, file), L, A, B)
<1> DEFINE U == Flushed(S, level, file)
<1>1. level \in Levels /\ \A l \in Levels : U[l] = IF l = level THEN S[l] \union {file} ELSE S[l]
  BY DEF Flushed, IsFlush
<1> HIDE DEF U
<1>2. L \in 0..(NumLevels - 2) /\ L \in Levels /\ L + 1 \in Levels
  BY NextLevel DEF TakenIn
<1>3. A # {} /\ A \subseteq S[L] /\ B \subseteq S[L + 1] /\ A \subseteq U[L] /\ B \subseteq U[L + 1]
  BY <1>1, <1>2 DEF TakenIn
<1>4. \A f \in AllOf(S) : f.number \in Nat /\ f.number < file.number
  BY DEF LevelsAre, FilesAre, FileIs, IsFlush
<1>5. file.number \in Nat
  BY DEF IsFlush, FileIs
<1>6. RangesAre(AllOf(S)) /\ A \union B \subseteq AllOf(S) /\ A \subseteq AllOf(S)
  BY <1>2, <1>3, RangesInLevels
<1>7. Lo(file) \in Nat /\ Hi(file) \in Nat /\ Lo(file) <= Hi(file)
  BY FileRange DEF IsFlush, Lo, Hi
<1>8. ASSUME NEW f \in U[L] \ A, NEW g \in A PROVE Apart(f, g) \/ (L = 0 /\ f.number > g.number)
  <2>1. CASE f \in S[L]
    BY <1>8, <2>1 DEF TakenIn
  <2>2. CASE f = file /\ L = level
    <3>1. CASE level = 0
      BY <1>4, <1>5, <1>6, <2>2, <3>1
    <3>2. CASE level # 0
      <4>1. level \in 0..level
        BY <1>1, <3>2 DEF Levels
      <4>2. Apart(g, file)
        BY <1>3, <2>2, <3>2, <4>1 DEF IsFlush
      <4>3. QED
        BY <2>2, <4>2 DEF Apart
    <3>3. QED
      BY <3>1, <3>2
  <2>3. QED
    BY <1>1, <1>2, <2>1, <2>2
<1>9. PICK lo, hi : /\ Spans(A \union B, lo, hi)
                    /\ \A g \in S[L + 1] \ B : Hi(g) < lo \/ hi < Lo(g)
  BY DEF TakenIn
<1>10. lo \in Nat /\ hi \in Nat
  BY <1>9 DEF Spans
<1>11. ASSUME NEW g \in U[L + 1] \ B PROVE Hi(g) < lo \/ hi < Lo(g)
  <2>1. CASE g \in S[L + 1]
    BY <1>9, <1>11, <2>1
  <2>2. CASE g = file /\ L + 1 = level
    <3>1. level # 0 /\ L \in 0..level /\ L + 1 \in 0..level
      BY <1>2, <2>2
    <3>2. \A h \in A \union B : Apart(h, file)
      BY <1>3, <3>1 DEF IsFlush
    <3>3. SUFFICES ASSUME lo <= Hi(file), Lo(file) <= hi, lo <= hi PROVE FALSE
      <4>1. \E h \in A \union B : lo <= Lo(h) /\ Hi(h) <= hi /\ Lo(h) \in Nat /\ Hi(h) \in Nat /\ Lo(h) <= Hi(h)
        BY <1>3, <1>6, <1>9 DEF Spans, RangesAre
      <4>2. lo <= hi
        BY <1>10, <4>1
      <4>3. QED
        BY <1>7, <1>10, <2>2, <4>2
    <3>4. PICK k \in lo..hi : Lo(file) <= k /\ k <= Hi(file)
      <4>1. CASE Lo(file) <= lo
        <5>1. lo \in lo..hi
          BY <1>10, <3>3
        <5>2. QED
          BY <3>3, <4>1, <5>1
      <4>2. CASE lo <= Lo(file)
        <5>1. Lo(file) \in lo..hi
          BY <1>7, <1>10, <3>3, <4>2
        <5>2. QED
          BY <1>7, <5>1
      <4>3. QED
        BY <1>7, <1>10, <4>1, <4>2
    <3>5. PICK h \in A \union B : Lo(h) <= k /\ k <= Hi(h)
      BY <1>9, <3>4 DEF Spans
    <3>6. Hi(h) < Lo(file) \/ Hi(file) < Lo(h)
      BY <3>2 DEF Apart
    <3>7. Lo(h) \in Nat /\ Hi(h) \in Nat /\ k \in Nat
      BY <1>6, <1>10 DEF RangesAre
    <3>8. QED
      BY <1>7, <3>4, <3>5, <3>6, <3>7
  <2>3. QED
    BY <1>1, <1>2, <2>1, <2>2
<1>12. TakenIn(U, L, A, B)
  BY <1>2, <1>3, <1>8, <1>9, <1>11 DEF TakenIn
<1>13. QED
  BY <1>12 DEF U

(* A compaction, or the move of a file: files with entries of the inputs,   *)
(* apart from each other, take the place of the inputs one level further.   *)
Installed(S, level, A, B, O) ==
  [l \in Levels |-> IF l = level THEN S[l] \ A ELSE IF l = level + 1 THEN (S[l] \ B) \union O ELSE S[l]]

AreOutputs(S, last, A, B, O) ==
  /\ IsFiniteSet(O)
  /\ \A o \in O : FileIs(o, last) /\ o.entries \subseteq Entries(A \union B)
  /\ \A o, p \in O : o = p \/ (Apart(o, p) /\ o.number # p.number)
  /\ \A o \in O, f \in AllOf(S) : o.number = f.number => o = f

LEMMA InstalledAre ==
  ASSUME NEW last \in Nat, NEW S, LevelsAre(S, last), Layered(S), NEW level, NEW A, NEW B, TakenIn(S, level, A, B),
         NEW O, AreOutputs(S, last, A, B, O)
  PROVE  /\ LevelsAre(Installed(S, level, A, B, O), last) /\ Layered(Installed(S, level, A, B, O))
         /\ AllOf(Installed(S, level, A, B, O)) \subseteq AllOf(S) \union O
<1> DEFINE U == Installed(S, level, A, B, O)
<1>1. level \in 0..(NumLevels - 2) /\ level \in Levels /\ level + 1 \in Levels \ {0} /\ level + 1 # level
  BY NextLevel DEF TakenIn
<1>2. \A l \in Levels : U[l] = IF l = level THEN S[l] \ A ELSE IF l = level + 1 THEN (S[l] \ B) \union O ELSE S[l]
  BY DEF Installed
<1> HIDE DEF U
<1>3. A \subseteq S[level] /\ B \subseteq S[level + 1] /\ A \union B \subseteq AllOf(S)
  BY <1>1 DEF TakenIn, AllOf
<1>4. AllOf(U) \subseteq AllOf(S) \union O
  <2>1. \A l \in Levels : U[l] \subseteq S[l] \union O
    BY <1>2
  <2>2. QED
    BY <2>1 DEF AllOf
<1>5. \A f \in AllOf(S) : FileIs(f, last)
  BY DEF LevelsAre, FilesAre
<1>6. \A o \in O : FileIs(o, last)
  BY DEF AreOutputs
<1>7. ASSUME NEW o \in O, NEW e \in o.entries PROVE \E x \in A \union B : e \in x.entries
  BY DEF AreOutputs, Entries
<1>8. FilesAre(AllOf(S) \union O, last)
  <2> DEFINE W == AllOf(S) \union O
  <2>1. IsFiniteSet(W) /\ \A f \in W : FileIs(f, last)
    BY <1>5, <1>6, FS_Union DEF LevelsAre, FilesAre, AreOutputs
  <2>2. \A f, g \in W : f.number = g.number => f = g
    BY DEF LevelsAre, FilesAre, AreOutputs
  <2>3. \A f \in W : \A e \in f.entries : \E x \in AllOf(S) : e \in x.entries
    BY <1>3, <1>7
  <2>4. \A x, y \in AllOf(S) : \A e \in x.entries, d \in y.entries : e.seq = d.seq => e = d
    BY DEF LevelsAre, FilesAre
  <2>5. \A f, g \in W : \A e \in f.entries, d \in g.entries : e.seq = d.seq => e = d
    <3> HIDE DEF W
    <3>1. QED
      BY <2>3, <2>4
  <2>6. QED
    BY <2>1, <2>2, <2>5 DEF FilesAre
<1>9. FilesAre(AllOf(U), last)
  <2>1. IsFiniteSet(AllOf(U))
    BY <1>4, <1>8, FS_Subset DEF FilesAre
  <2>2. QED
    BY <1>4, <1>8, <2>1 DEF FilesAre
<1>10. PICK lo, hi : /\ Spans(A \union B, lo, hi)
                     /\ \A g \in S[level + 1] \ B : Hi(g) < lo \/ hi < Lo(g)
  BY DEF TakenIn
<1>11. ASSUME NEW o \in O PROVE lo <= Lo(o) /\ Hi(o) <= hi /\ Lo(o) \in Nat /\ Hi(o) \in Nat
  <2>1. \A e \in o.entries : \E x \in A \union B : lo <= Lo(x) /\ Hi(x) <= hi /\ Lo(x) <= e.key /\ e.key <= Hi(x) /\ Lo(x) \in Nat /\ Hi(x) \in Nat
    <3>1. ASSUME NEW e \in o.entries PROVE \E x \in A \union B : lo <= Lo(x) /\ Hi(x) <= hi /\ Lo(x) <= e.key /\ e.key <= Hi(x) /\ Lo(x) \in Nat /\ Hi(x) \in Nat
      <4>1. PICK x \in A \union B : e \in x.entries
        BY <1>7
      <4>2. FileIs(x, last)
        BY <1>3, <1>5
      <4>3. Lo(x) <= e.key /\ e.key <= Hi(x) /\ Lo(x) \in Nat /\ Hi(x) \in Nat
        BY <4>1, <4>2, FileRange DEF Lo, Hi
      <4>4. lo <= Lo(x) /\ Hi(x) <= hi
        BY <1>10 DEF Spans
      <4>5. QED
        BY <4>3, <4>4
    <3>2. QED
      BY <3>1
  <2>2. Smallest(o) \in o.entries /\ Largest(o) \in o.entries /\ Lo(o) \in Nat /\ Hi(o) \in Nat
    BY <1>6, FileRange DEF Lo, Hi
  <2>3. lo \in Nat /\ hi \in Nat
    BY <1>10 DEF Spans
  <2>4. lo <= Lo(o)
    <3>1. PICK x : lo <= Lo(x) /\ Lo(x) <= Lo(o) /\ Lo(x) \in Nat
      BY <2>1, <2>2 DEF Lo
    <3>2. QED
      BY <2>2, <2>3, <3>1
  <2>5. Hi(o) <= hi
    <3>1. PICK x : Hi(x) <= hi /\ Hi(o) <= Hi(x) /\ Hi(x) \in Nat
      BY <2>1, <2>2 DEF Hi
    <3>2. QED
      BY <2>2, <2>3, <3>1
  <2>6. QED
    BY <2>2, <2>4, <2>5
<1>12. ASSUME NEW l \in Levels \ {0}, NEW f \in U[l], NEW g \in U[l] PROVE f = g \/ Apart(f, g)
  <2>1. CASE f \in S[l] /\ g \in S[l]
    BY <2>1 DEF LevelsAre
  <2>2. ASSUME NEW o \in O, NEW h \in S[level + 1] \ B PROVE Apart(o, h) /\ Apart(h, o)
    <3>1. Hi(h) < lo \/ hi < Lo(h)
      BY <1>10
    <3>2. lo <= Lo(o) /\ Hi(o) <= hi /\ Lo(o) \in Nat /\ Hi(o) \in Nat /\ lo \in Nat /\ hi \in Nat
      BY <1>10, <1>11 DEF Spans
    <3>3. Lo(h) \in Nat /\ Hi(h) \in Nat
      BY <1>1, RangesInLevels DEF RangesAre
    <3>4. Hi(h) < Lo(o) \/ Hi(o) < Lo(h)
      BY <3>1, <3>2, <3>3
    <3>5. QED
      BY <3>4 DEF Apart
  <2>3. CASE l = level + 1 /\ (f \in O \/ g \in O)
    <3>1. (f \in O \/ f \in S[level + 1] \ B) /\ (g \in O \/ g \in S[level + 1] \ B)
      BY <1>1, <1>2, <2>3
    <3>2. QED
      BY <2>2, <2>3, <3>1 DEF AreOutputs
  <2>4. QED
    BY <1>2, <2>1, <2>3
<1>13. LevelsAre(U, last)
  BY <1>9, <1>12 DEF LevelsAre
<1>14. ASSUME NEW l \in Levels, NEW m \in Levels, NEW f \in U[l], NEW g \in U[m], Above(l, f, m, g)
       PROVE  Newer(f.entries, g.entries)
  <2>1. /\ (f \in S[l] /\ ~(l = level /\ f \in A)) \/ (f \in O /\ l = level + 1)
        /\ (g \in S[m] \/ (g \in O /\ m = level + 1))
    BY <1>1, <1>2
  <2>2. CASE f \in S[l] /\ g \in S[m]
    BY <1>14, <2>2 DEF Layered
  <2>3. CASE f \in O /\ l = level + 1 /\ g \in S[m]
    <3>1. level + 1 < m /\ level < m
      BY <1>1, <1>14, <2>3 DEF Above, Levels
    <3>2. \A x \in A \union B : Newer(x.entries, g.entries)
      BY <1>1, <1>3, <2>3, <3>1 DEF Layered, Above
    <3>3. QED
      BY <1>7, <2>3, <3>2 DEF Newer
  <2>4. CASE f \in S[l] /\ ~(l = level /\ f \in A) /\ g \in O /\ m = level + 1
    <3>1. l < level \/ l = level
      BY <1>1, <1>14, <2>4 DEF Above, Levels
    <3>2. \A x \in B : Newer(f.entries, x.entries)
      <4>1. l < level + 1
        BY <1>1, <3>1 DEF Levels
      <4>2. QED
        BY <1>1, <1>3, <2>4, <4>1 DEF Layered, Above
    <3>3. ASSUME NEW x \in A PROVE Newer(f.entries, x.entries)
      <4>1. CASE l < level
        BY <1>1, <1>3, <2>4, <4>1 DEF Layered, Above
      <4>2. CASE l = level
        <5>1. Apart(f, x) \/ (level = 0 /\ f.number > x.number)
          BY <2>4, <4>2 DEF TakenIn
        <5>2. CASE Apart(f, x)
          <6>1. FileIs(f, last) /\ FileIs(x, last)
            BY <1>3, <1>5, <2>4 DEF AllOf
          <6>2. QED
            BY <5>2, <6>1, ApartIsNewer
        <5>3. CASE level = 0 /\ f.number > x.number
          BY <1>1, <1>3, <2>4, <4>2, <5>3 DEF Layered, Above
        <5>4. QED
          BY <5>1, <5>2, <5>3
      <4>3. QED
        BY <3>1, <4>1, <4>2
    <3>4. QED
      BY <1>7, <2>4, <3>2, <3>3 DEF Newer
  <2>5. CASE f \in O /\ l = level + 1 /\ g \in O /\ m = level + 1
    <3>1. ~(l < m) /\ l # 0
      BY <1>1, <2>5 DEF Levels
    <3>2. QED
      BY <1>14, <3>1 DEF Above
  <2>6. QED
    BY <2>1, <2>2, <2>3, <2>4, <2>5
<1>15. Layered(U)
  BY <1>14 DEF Layered
<1>16. QED
  BY <1>4, <1>13, <1>15 DEF U

(* And nothing is in the outputs that was not in the inputs.                *)
LEMMA InstalledEntries ==
  ASSUME NEW last \in Nat, NEW S, NEW level, NEW A, NEW B, TakenIn(S, level, A, B),
         NEW O, AreOutputs(S, last, A, B, O)
  PROVE  Entries(AllOf(Installed(S, level, A, B, O))) \subseteq Entries(AllOf(S))
<1> DEFINE U == Installed(S, level, A, B, O)
<1>1. level \in Levels /\ level + 1 \in Levels
  BY NextLevel DEF TakenIn
<1>2. A \union B \subseteq AllOf(S)
  BY <1>1 DEF TakenIn, AllOf
<1>3. AllOf(U) \subseteq AllOf(S) \union O
  BY DEF Installed, AllOf
<1>4. \A o \in O : o.entries \subseteq Entries(AllOf(S))
  BY <1>2 DEF AreOutputs, Entries
<1>5. QED
  BY <1>3, <1>4 DEF Entries

-----------------------------------------------------------------------------
(* The edits of the steps.                                                  *)
FilesAt(version) == [level \in Levels |-> ToSet(version[level])]

LEMMA FilesAtIs ==
  ASSUME NEW version
  PROVE  /\ HasLevels(version, FilesAt(version)) /\ AllOf(FilesAt(version)) = FilesOf(version)
         /\ \A S : HasLevels(version, S) /\ S = [level \in Levels |-> S[level]] => FilesAt(version) = S
<1>1. \A level \in Levels : FilesAt(version)[level] = ToSet(version[level])
  BY DEF FilesAt
<1>2. HasLevels(version, FilesAt(version)) /\ AllOf(FilesAt(version)) = FilesOf(version)
  BY <1>1 DEF HasLevels, AllOf, FilesOf
<1>3. ASSUME NEW S, HasLevels(version, S), S = [level \in Levels |-> S[level]] PROVE FilesAt(version) = S
  <2>1. [level \in Levels |-> ToSet(version[level])] = [level \in Levels |-> S[level]]
    BY <1>3 DEF HasLevels
  <2>2. QED
    BY <1>3, <2>1 DEF FilesAt
<1>4. QED
  BY <1>2, <1>3

LEMMA NoDeeper ==
  ASSUME NEW level \in Levels, NEW l \in 0..level
  PROVE  l \in Levels
BY LevelsAssumption DEF Levels

PutIn(level, O) == {<<level, f>> : f \in O}

LEMMA AddedTo ==
  ASSUME NEW k, NEW O, NEW l
  PROVE  AddedAt(PutIn(k, O), l) = IF l = k THEN O ELSE {}
<1> DEFINE added == PutIn(k, O)
<1>1. \A f \in O : <<k, f>> \in added /\ <<k, f>>[1] = k /\ <<k, f>>[2] = f
  BY DEF PutIn
<1>2. \A b \in added : \E f \in O : b = <<k, f>> /\ b[1] = k /\ b[2] = f
  BY DEF PutIn
<1>6. AddedAt(added, l) = {a[2] : a \in {b \in added : b[1] = l}}
  BY DEF AddedAt
<1> HIDE DEF added
<1>3. CASE l = k
  <2>1. \A f \in O : f \in {a[2] : a \in {b \in added : b[1] = l}}
    BY <1>1, <1>3
  <2>2. \A x \in {a[2] : a \in {b \in added : b[1] = l}} : x \in O
    BY <1>2
  <2>3. {a[2] : a \in {b \in added : b[1] = l}} = O
    BY <2>1, <2>2
  <2>4. QED
    BY <1>3, <1>6, <2>3 DEF added
<1>4. CASE l # k
  <2>1. {b \in added : b[1] = l} = {}
    BY <1>2, <1>4
  <2>2. QED
    BY <1>4, <1>6, <2>1 DEF added
<1>5. QED
  BY <1>3, <1>4 DEF added

(* WriteLevel0Table: the file that a memtable becomes.                      *)
TableOf(n, entries) == [number |-> n, entries |-> entries]

LEMMA FlushIs ==
  ASSUME NEW last \in Nat, NEW maxSeq \in Nat, last <= maxSeq, NEW version, VersionIs(version, last), Layered(FilesAt(version)),
         NEW entries, EntriesAre(entries, last), entries # {}, NEW n \in Nat,
         \A f \in FilesOf(version) : f.number < n /\ Newer(entries, f.entries),
         \A f \in FilesOf(version) : \A e \in entries, d \in f.entries : e.seq = d.seq => e = d,
         \A e, d \in entries : e.seq = d.seq => e = d,
         NEW level, level = PickLevelForMemTableOutput(version, Least(entries).key, Most(entries).key, maxSeq),
         NEW v, v = Applied(version, {}, {<<level, TableOf(n, entries)>>})
  PROVE  /\ IsFlush(FilesAt(version), last, level, TableOf(n, entries))
         /\ VersionIs(v, last) /\ FilesAt(v) = Flushed(FilesAt(version), level, TableOf(n, entries))
         /\ Layered(FilesAt(v)) /\ FilesOf(v) = FilesOf(version) \union {TableOf(n, entries)}
<1> DEFINE file == TableOf(n, entries)
           S == FilesAt(version)
<1>1. file.number = n /\ file.entries = entries /\ Lo(file) = Least(entries).key /\ Hi(file) = Most(entries).key
  BY DEF TableOf, Lo, Hi, Smallest, Largest
<1> HIDE DEF file
<1>2. FileIs(file, last)
  BY <1>1 DEF FileIs
<1>3. Lo(file) \in Nat /\ Hi(file) \in Nat /\ Lo(file) <= Hi(file)
  BY <1>2, FileRange DEF Lo, Hi
<1>4. level = PickLevelForMemTableOutput(version, Lo(file), Hi(file), maxSeq)
  BY <1>1
<1>5. /\ level \in Levels
      /\ level # 0 => \A l \in 0..level : \A f \in ToSet(version[l]) : Hi(f) < Lo(file) \/ Hi(file) < Lo(f)
  BY <1>3, <1>4, LevelPicked
<1>6. HasLevels(version, S) /\ AllOf(S) = FilesOf(version)
  BY FilesAtIs
<1>7. \A l \in 0..level : l \in Levels
  BY <1>5, NoDeeper
<1>8. level # 0 => \A l \in 0..level : \A g \in S[l] : Apart(g, file)
  BY <1>5, <1>6, <1>7 DEF HasLevels, Apart
<1>9. IsFlush(S, last, level, file)
  BY <1>1, <1>2, <1>5, <1>6, <1>8 DEF IsFlush
<1>10. LevelsAre(S, last)
  BY <1>6, LevelsOfVersion
<1> DEFINE U == Flushed(S, level, file)
<1>11. \A l \in Levels : Left(version, {}, {<<level, file>>}, l) = U[l]
  <2>1. ASSUME NEW l \in Levels PROVE Left(version, {}, {<<level, file>>}, l) = U[l]
    <3>1. Left(version, {}, {<<level, file>>}, l) = S[l] \union AddedAt({<<level, file>>}, l)
      BY <1>6 DEF Left, HasLevels
    <3>2. U[l] = IF l = level THEN S[l] \union {file} ELSE S[l]
      BY DEF Flushed
    <3>3. AddedAt({<<level, file>>}, l) = IF l = level THEN {file} ELSE {}
      <4>1. PutIn(level, {file}) = {<<level, file>>}
        BY DEF PutIn
      <4>2. AddedAt(PutIn(level, {file}), l) = IF l = level THEN {file} ELSE {}
        BY AddedTo
      <4>3. QED
        BY <4>1, <4>2
    <3>4. QED
      BY <3>1, <3>2, <3>3
  <2>2. QED
    BY <2>1
<1> HIDE DEF U
<1>12. LevelsAre(U, last) /\ Layered(U) /\ AllOf(U) = AllOf(S) \union {file}
  BY <1>9, <1>10, FlushedAre DEF U
<1>13. VersionIs(v, last) /\ HasLevels(v, U)
  <2>1. v = Applied(version, {}, {<<level, file>>})
    BY DEF file
  <2>2. QED
    BY <1>11, <1>12, <2>1, AppliedIs
<1>14. FilesAt(v) = U
  <2>1. U = [l \in Levels |-> U[l]]
    BY DEF U, Flushed
  <2>2. QED
    BY <1>13, <2>1, FilesAtIs
<1>15. AllOf(U) = FilesOf(v)
  BY <1>14, FilesAtIs
<1>16. QED
  BY <1>6, <1>9, <1>12, <1>13, <1>14, <1>15 DEF U, file, S

(* What a version edit that installs outputs needs, and what it leaves.     *)
Installs(version, last, c, A, B, O, v) ==
  /\ last \in Nat /\ VersionIs(version, last) /\ Layered(FilesAt(version))
  /\ A = ToSet(c.inputs[1]) /\ B = ToSet(c.inputs[2]) /\ Taken(version, c.level, A, B)
  /\ AreOutputs(FilesAt(version), last, A, B, O)
  /\ v = Applied(version, InputDeletions(c), PutIn(c.level + 1, O))

Edited(version, last, O, v) ==
  /\ VersionIs(v, last) /\ Layered(FilesAt(v))
  /\ FilesOf(v) \subseteq FilesOf(version) \union O /\ Entries(FilesOf(v)) \subseteq Entries(FilesOf(version))

Replaced(version, c, O, v) ==
  FilesAt(v) = Installed(FilesAt(version), c.level, ToSet(c.inputs[1]), ToSet(c.inputs[2]), O)

(* InstallCompactionResults and the move of a file: the edit.               *)
LEMMA InstallIs ==
  ASSUME NEW version, NEW last, NEW c, NEW A, NEW B, NEW O, NEW v, Installs(version, last, c, A, B, O, v)
  PROVE  Edited(version, last, O, v) /\ Replaced(version, c, O, v)
<1> DEFINE S == FilesAt(version)
           L == c.level
           U == Installed(S, L, A, B, O)
<1>1. last \in Nat /\ VersionIs(version, last) /\ Layered(S) /\ AreOutputs(S, last, A, B, O)
  BY DEF Installs
<1>2. A = ToSet(c.inputs[1]) /\ B = ToSet(c.inputs[2]) /\ Taken(version, c.level, A, B)
  BY DEF Installs
<1>3. PICK added : added = PutIn(c.level + 1, O)
  OBVIOUS
<1>4. v = Applied(version, InputDeletions(c), added)
  BY <1>3 DEF Installs
<1>5. HasLevels(version, S) /\ AllOf(S) = FilesOf(version)
  BY FilesAtIs, <1>1
<1>6. LevelsAre(S, last)
  BY <1>1, <1>5, LevelsOfVersion
<1>7. TakenIn(S, L, A, B)
  BY <1>1, <1>2, <1>5, TakenInLevels
<1>8. L \in 0..(NumLevels - 2) /\ L \in Levels /\ L + 1 \in Levels \ {0} /\ L + 1 # L
  BY <1>7, NextLevel DEF TakenIn
<1>9. LevelsAre(U, last) /\ Layered(U) /\ AllOf(U) \subseteq AllOf(S) \union O /\ Entries(AllOf(U)) \subseteq Entries(AllOf(S))
  BY <1>1, <1>6, <1>7, InstalledAre, InstalledEntries
<1>10. \A l, f : <<l, f>> \in InputDeletions(c) <=> (l = L /\ f \in A) \/ (l = L + 1 /\ f \in B)
  BY <1>2 DEF InputDeletions
<1>11. \A l : AddedAt(added, l) = IF l = L + 1 THEN O ELSE {}
  BY <1>3, AddedTo
<1>12. \A l \in Levels : Left(version, InputDeletions(c), added, l) = U[l]
  <2>1. ASSUME NEW l \in Levels PROVE Left(version, InputDeletions(c), added, l) = U[l]
    <3>1. Left(version, InputDeletions(c), added, l) =
            {f \in S[l] : ~((l = L /\ f \in A) \/ (l = L + 1 /\ f \in B))} \union IF l = L + 1 THEN O ELSE {}
      BY <1>5, <1>10, <1>11 DEF Left, HasLevels
    <3>2. U[l] = IF l = L THEN S[l] \ A ELSE IF l = L + 1 THEN (S[l] \ B) \union O ELSE S[l]
      BY DEF Installed
    <3> HIDE DEF S, L, U
    <3>3. QED
      BY <1>8, <3>1, <3>2
  <2>2. QED
    BY <2>1
<1>13. VersionIs(v, last) /\ HasLevels(v, U)
  <2> HIDE DEF U
  <2>1. QED
    BY <1>1, <1>4, <1>9, <1>12, AppliedIs
<1>14. FilesAt(v) = U /\ AllOf(U) = FilesOf(v)
  <2>1. U = [l \in Levels |-> U[l]]
    BY DEF Installed
  <2>2. FilesAt(v) = U
    BY <1>13, <2>1, FilesAtIs
  <2>3. QED
    BY <2>2, FilesAtIs
<1>15. QED
  <2>1. Edited(version, last, O, v)
    BY <1>5, <1>9, <1>13, <1>14 DEF Edited
  <2>2. Replaced(version, c, O, v)
    BY <1>2, <1>14 DEF Replaced
  <2>3. QED
    BY <2>1, <2>2

(* The outputs of a compaction, as files with numbers of their own.         *)
OutFiles(outs, number) == {TableOf(number + i - 1, outs[i]) : i \in 1..Len(outs)}

LEMMA OutFilesAre ==
  ASSUME NEW last \in Nat, NEW version, VersionIs(version, last),
         NEW level, NEW A, NEW B, Taken(version, level, A, B),
         NEW outs, OutsAre(Entries(A \union B), outs), NEW number \in Nat,
         \A f \in FilesOf(version) : f.number < number \/ f.number >= number + Len(outs)
  PROVE  /\ AreOutputs(FilesAt(version), last, A, B, OutFiles(outs, number))
         /\ \A o \in OutFiles(outs, number) : o.number < number + Len(outs)
<1> DEFINE S == FilesOf(version)
           E == Entries(A \union B)
           O == OutFiles(outs, number)
           N == Len(outs)
           Out(i) == TableOf(number + i - 1, outs[i])
<1>1. level \in Levels /\ level + 1 \in Levels
  BY NextLevel DEF Taken
<1>2. A \union B \subseteq S
  <2>1. ToSet(version[level]) \subseteq S /\ ToSet(version[level + 1]) \subseteq S
    BY <1>1, LevelFiles
  <2>2. QED
    BY <2>1 DEF Taken
<1>3. FilesAre(S, last) /\ \A f \in S : f.number \in Nat
  BY DEF VersionIs, FilesAre, FileIs
<1>4. EntriesAre(E, last)
  <2>1. PICK F : F = A \union B
    OBVIOUS
  <2>2. EntriesAre(Entries(F), last)
    BY <1>2, <1>3, <2>1, EntriesOfFiles
  <2>3. QED
    BY <2>1, <2>2
<1>5. /\ N \in Nat /\ \A i \in 1..N : outs[i] \subseteq E /\ outs[i] # {}
      /\ \A i, j \in 1..N : i < j => \A e \in outs[i], d \in outs[j] : e.key < d.key
  <2> HIDE DEF E
  <2>1. outs \in Seq(SUBSET E)
    BY DEF OutsAre, E
  <2>2. N \in Nat /\ \A i \in 1..N : outs[i] \in SUBSET E
    BY <2>1
  <2>3. /\ \A i \in 1..N : outs[i] # {}
        /\ \A i, j \in 1..N : i < j => \A e \in outs[i], d \in outs[j] : e.key < d.key
    BY DEF OutsAre
  <2>4. QED
    BY <2>2, <2>3
<1> HIDE DEF E
<1>6. ASSUME NEW i \in 1..N
      PROVE  /\ Out(i).number = number + i - 1 /\ Out(i).entries = outs[i] /\ FileIs(Out(i), last)
             /\ Out(i).number \in Nat /\ Out(i).number < number + N /\ Out(i).number >= number
  <2>1. Out(i).number = number + i - 1 /\ Out(i).entries = outs[i]
    BY DEF TableOf
  <2>2. number + i - 1 \in Nat /\ number + i - 1 < number + N /\ number + i - 1 >= number
    BY <1>5
  <2>3. EntriesAre(outs[i], last)
    <3>1. outs[i] \subseteq E
      BY <1>5
    <3>2. IsFiniteSet(outs[i])
      BY <1>4, <3>1, FS_Subset DEF EntriesAre
    <3>3. QED
      BY <1>4, <3>1, <3>2 DEF EntriesAre
  <2> HIDE DEF Out
  <2>4. QED
    BY <1>5, <2>1, <2>2, <2>3 DEF FileIs
<1>7. O = {Out(i) : i \in 1..N}
  BY DEF OutFiles
<1>8. IsFiniteSet(O)
  <2>1. IsFiniteSet(1..N)
    BY <1>5, FS_Interval
  <2>2. \A x \in O : \E i \in 1..N : x = Out(i)
    BY <1>7
  <2> DEFINE r == [x \in O |-> CHOOSE i \in 1..N : x = Out(i)]
  <2>3. \A x \in O : r[x] \in 1..N /\ x = Out(r[x])
    BY <2>2
  <2>4. r \in [O -> 1..N]
    BY <2>3
  <2> HIDE DEF r, O, Out, N
  <2>5. \A x, y \in O : r[x] = r[y] => x = y
    BY <2>3
  <2>6. r \in Injection(O, 1..N)
    BY <2>4, <2>5 DEF Injection, IsInjective
  <2>7. QED
    BY <2>1, <2>6, FS_Injection
<1> HIDE DEF Out, O
<1>9. ASSUME NEW i \in 1..N, NEW j \in 1..N, i < j
      PROVE  Apart(Out(i), Out(j)) /\ Apart(Out(j), Out(i)) /\ Out(i).number # Out(j).number
  <2>1. Largest(Out(i)) \in outs[i] /\ Smallest(Out(j)) \in outs[j]
    BY <1>6, FileRange
  <2>2. Hi(Out(i)) < Lo(Out(j))
    BY <1>5, <1>9, <2>1 DEF Hi, Lo
  <2>3. number + i - 1 # number + j - 1
    BY <1>9
  <2>4. QED
    BY <1>6, <2>2, <2>3 DEF Apart
<1>10. \A o, p \in O : o = p \/ (Apart(o, p) /\ o.number # p.number)
  <2>1. ASSUME NEW i \in 1..N, NEW j \in 1..N PROVE Out(i) = Out(j) \/ (Apart(Out(i), Out(j)) /\ Out(i).number # Out(j).number)
    <3>1. i = j \/ i < j \/ j < i
      BY <1>5
    <3>2. QED
      BY <1>9, <3>1
  <2>2. QED
    BY <1>7, <2>1
<1>11. \A o \in O : FileIs(o, last) /\ o.entries \subseteq E /\ o.number \in Nat /\ o.number < number + N /\ o.number >= number
  BY <1>5, <1>6, <1>7
<1>12. \A o \in O, f \in S : o.number # f.number
  <2>1. \A o \in O, f \in S : o.number \in Nat /\ f.number \in Nat /\ o.number < number + N /\ o.number >= number /\ (f.number < number \/ f.number >= number + N)
    BY <1>3, <1>11
  <2>2. QED
    BY <1>5, <2>1
<1>13. AllOf(FilesAt(version)) = S
  BY FilesAtIs
<1>14. AreOutputs(FilesAt(version), last, A, B, O)
  BY <1>8, <1>10, <1>11, <1>12, <1>13 DEF AreOutputs, E
<1>15. QED
  BY <1>11, <1>14 DEF O

-----------------------------------------------------------------------------
(* The invariant.  Every write has a number of its own, the entries of a    *)
(* key get older from the memtables down, and a compaction under way has    *)
(* inputs that are still there, with nothing between them.                  *)
SeqsAreOwn(E) == \A e, d \in E : e.seq = d.seq => e = d

EntriesInv ==
  /\ lastSequence \in Nat /\ lastSequence <= MaxSeq
  /\ EntriesAre(mem, lastSequence) /\ EntriesAre(imm, lastSequence)
  /\ SeqsAreOwn(mem \union imm \union Entries(FilesOf(current)))

VersionInv ==
  /\ VersionIs(current, lastSequence)
  /\ nextFile \in Nat /\ \A f \in FilesOf(current) : f.number < nextFile

OrderInv ==
  Newer(mem, imm) /\ OnTop(mem \union imm, FilesAt(current)) /\ Layered(FilesAt(current))

SoughtIs(version, s) ==
  s # None => \E level \in 0..(NumLevels - 2) : \E f \in ToSet(version[level]) : s = At(level, f)

SnapshotsInv ==
  DOMAIN snapshots = Handles /\ \A h \in Handles : snapshots[h] # None => snapshots[h] \in Nat

UnderWay(version, next, w) ==
  w # None =>
    /\ Taken(version, w.c.level, ToSet(w.c.inputs[1]), ToSet(w.c.inputs[2]))
    /\ OutsAre(Entries(ToSet(w.c.inputs[1]) \union ToSet(w.c.inputs[2])), w.outs)
    /\ w.number \in Nat /\ w.number + Len(w.outs) <= next
    /\ \A f \in FilesOf(version) : f.number < w.number \/ f.number >= w.number + Len(w.outs)

TreeInv ==
  /\ EntriesInv /\ VersionInv /\ OrderInv
  /\ SoughtIs(current, sought) /\ SnapshotsInv /\ UnderWay(current, nextFile, compaction)

(* How leveldb is used by the client of the app: nothing takes a snapshot   *)
(* before a compaction is picked, nothing calls CompactRange.               *)
Unpinned == (PickCompaction => Open = {}) /\ ~CompactSomeRange

LEMMA OnTopIs ==
  ASSUME NEW E, NEW version
  PROVE  OnTop(E, FilesAt(version)) <=> \A f \in FilesOf(version) : Newer(E, f.entries)
BY FilesAtIs DEF OnTop

(* In a later state of the database, with more writes.                      *)
LEMMA LaterToo ==
  ASSUME NEW last \in Nat, NEW later \in Nat, last <= later
  PROVE  /\ \A E : EntriesAre(E, last) => EntriesAre(E, later)
         /\ \A version : VersionIs(version, last) => VersionIs(version, later)
<1>1. \A n \in Nat : n <= last => n <= later
  OBVIOUS
<1>2. \A E : EntriesAre(E, last) => EntriesAre(E, later)
  BY <1>1 DEF EntriesAre
<1>3. \A f : FileIs(f, last) => FileIs(f, later)
  BY <1>2 DEF FileIs
<1>4. \A S : FilesAre(S, last) => FilesAre(S, later)
  BY <1>3 DEF FilesAre
<1>5. QED
  BY <1>2, <1>4 DEF VersionIs

LEMMA InitTree ==
  ASSUME Init
  PROVE  TreeInv
<1>1. /\ lastSequence = 0 /\ mem = {} /\ imm = {} /\ sought = None /\ nextFile = 1 /\ compaction = None
      /\ current = [level \in Levels |-> << >>] /\ snapshots = [h \in Handles |-> None]
  BY DEF Init
<1>2. \A level \in Levels : current[level] = << >>
  BY <1>1
<1>3. ToSet(<< >>) = {} /\ Len(<< >>) = 0
  <2>1. << >> \in Seq({}) /\ Len(<< >>) = 0
    OBVIOUS
  <2>2. QED
    BY <2>1, MembersOf
<1>4. FilesOf(current) = {}
  BY <1>2, <1>3 DEF FilesOf
<1>5. VersionIs(current, lastSequence)
  <2>1. current = [level \in Levels |-> current[level]]
    BY <1>1
  <2>2. \A level \in Levels : current[level] \in Seq(FilesOf(current)) /\ InOrder(current[level])
    <3>1. InOrder(<< >>)
      BY <1>3 DEF InOrder
    <3>2. << >> \in Seq(FilesOf(current))
      OBVIOUS
    <3>3. QED
      BY <1>2, <3>1, <3>2
  <2>3. FilesAre(FilesOf(current), lastSequence)
    BY <1>4, FS_EmptySet DEF FilesAre
  <2>4. \A level \in Levels : ToSet(current[level]) = {}
    BY <1>2, <1>3
  <2>5. QED
    BY <2>1, <2>2, <2>3, <2>4 DEF VersionIs
<1>6. EntriesInv
  <2>1. Entries(FilesOf(current)) = {}
    BY <1>4 DEF Entries
  <2>2. lastSequence \in Nat /\ lastSequence <= MaxSeq
    BY <1>1, BoundsAssumption
  <2>3. QED
    BY <1>1, <2>1, <2>2, FS_EmptySet DEF EntriesInv, EntriesAre, SeqsAreOwn
<1>7. VersionInv
  BY <1>1, <1>4, <1>5 DEF VersionInv
<1>8. OrderInv
  <2>1. OnTop(mem \union imm, FilesAt(current))
    BY <1>4, OnTopIs
  <2>2. Layered(FilesAt(current))
    <3>1. \A level \in Levels : FilesAt(current)[level] = {}
      BY <1>2, <1>3 DEF FilesAt
    <3>2. QED
      BY <3>1 DEF Layered
  <2>3. QED
    BY <1>1, <2>1, <2>2 DEF OrderInv, Newer
<1>9. SoughtIs(current, sought) /\ SnapshotsInv /\ UnderWay(current, nextFile, compaction)
  BY <1>1 DEF SoughtIs, SnapshotsInv, UnderWay
<1>10. QED
  BY <1>6, <1>7, <1>8, <1>9 DEF TreeInv

LEMMA StutterTree ==
  ASSUME TreeInv, UNCHANGED <<lastSequence, mem, imm, current, sought, nextFile, snapshots, compaction>>
  PROVE  TreeInv'
BY DEF TreeInv, EntriesInv, VersionInv, OrderInv, SnapshotsInv

LEMMA WriteTree ==
  ASSUME TreeInv, NEW k \in Keys, NEW del \in BOOLEAN, Write(k, del)
  PROVE  TreeInv'
<1> DEFINE e0 == [key |-> k, seq |-> lastSequence', del |-> del]
<1>1. /\ lastSequence < MaxSeq /\ lastSequence' = lastSequence + 1 /\ mem' = mem \union {e0}
      /\ UNCHANGED <<imm, current, sought, nextFile, snapshots, compaction>>
  BY DEF Write
<1>2. lastSequence \in Nat /\ lastSequence' \in Nat /\ lastSequence <= lastSequence' /\ lastSequence' <= MaxSeq /\ lastSequence < lastSequence'
  <2>1. lastSequence \in Nat /\ MaxSeq \in Nat
    BY BoundsAssumption DEF TreeInv, EntriesInv
  <2>2. QED
    BY <1>1, <2>1
<1>3. e0.key = k /\ e0.seq = lastSequence' /\ k \in Nat
  BY KeysAssumption
<1> HIDE DEF e0
<1>4. EntriesAre(mem, lastSequence) /\ EntriesAre(imm, lastSequence) /\ VersionIs(current, lastSequence)
  BY DEF TreeInv, EntriesInv, VersionInv
<1>5. EntriesAre(mem, lastSequence') /\ EntriesAre(imm', lastSequence') /\ VersionIs(current', lastSequence')
  BY <1>1, <1>2, <1>4, LaterToo
<1>6. EntriesAre(mem', lastSequence')
  BY <1>1, <1>2, <1>3, <1>5, FS_AddElement DEF EntriesAre
<1> DEFINE E == mem \union imm \union Entries(FilesOf(current))
<1>7. \A e \in E : e.seq \in Nat /\ e.seq < lastSequence'
  <2>1. \A e \in mem \union imm : e.seq \in Nat /\ e.seq <= lastSequence
    BY <1>4 DEF EntriesAre
  <2>2. \A e \in Entries(FilesOf(current)) : e.seq \in Nat /\ e.seq <= lastSequence
    <3>1. FilesAre(FilesOf(current), lastSequence)
      BY <1>4 DEF VersionIs
    <3>2. EntriesAre(Entries(FilesOf(current)), lastSequence)
      BY <1>2, <3>1, EntriesOfFiles
    <3>3. QED
      BY <3>2 DEF EntriesAre
  <2>3. \A n \in Nat : n <= lastSequence => n < lastSequence'
    BY <1>2
  <2>4. QED
    BY <2>1, <2>2, <2>3
<1>8. (mem \union imm \union Entries(FilesOf(current)))' = E \union {e0}
  BY <1>1
<1>9. SeqsAreOwn(E \union {e0})
  <2>1. SeqsAreOwn(E)
    BY DEF TreeInv, EntriesInv
  <2>2. \A e \in E : e.seq # e0.seq
    BY <1>2, <1>3, <1>7
  <2> HIDE DEF E
  <2>3. QED
    BY <2>1, <2>2 DEF SeqsAreOwn
<1>10. EntriesInv'
  BY <1>2, <1>5, <1>6, <1>8, <1>9 DEF EntriesInv
<1>11. VersionInv'
  BY <1>1, <1>5 DEF VersionInv, TreeInv
<1>12. \A D : D \subseteq E => Newer({e0}, D)
  <2>1. \A d \in E : e0.seq > d.seq
    BY <1>2, <1>3, <1>7
  <2> HIDE DEF E
  <2>2. QED
    BY <2>1 DEF Newer
<1>13. OrderInv'
  <2>1. Newer(mem', imm')
    <3>1. Newer({e0}, imm) /\ Newer(mem, imm)
      BY <1>12 DEF TreeInv, OrderInv
    <3>2. QED
      BY <1>1, <3>1 DEF Newer
  <2>2. \A f \in FilesOf(current) : Newer(mem' \union imm', f.entries)
    <3>1. \A f \in FilesOf(current) : Newer({e0}, f.entries)
      <4>1. \A f \in FilesOf(current) : f.entries \subseteq E
        BY DEF Entries
      <4>2. QED
        BY <1>12, <4>1
    <3>2. \A f \in FilesOf(current) : Newer(mem \union imm, f.entries)
      BY OnTopIs DEF TreeInv, OrderInv
    <3>3. mem' \union imm' = (mem \union imm) \union {e0}
      BY <1>1
    <3>4. QED
      BY <3>1, <3>2, <3>3 DEF Newer
  <2>3. OnTop(mem' \union imm', FilesAt(current))
    BY <2>2, OnTopIs
  <2>4. QED
    BY <1>1, <2>1, <2>3 DEF OrderInv, TreeInv
<1>14. QED
  BY <1>1, <1>10, <1>11, <1>13 DEF TreeInv, SnapshotsInv

LEMMA SwitchTree ==
  ASSUME TreeInv, SwitchMemTable
  PROVE  TreeInv'
<1>1. mem' = {} /\ imm' = mem /\ imm = {} /\ UNCHANGED <<lastSequence, current, sought, nextFile, snapshots, compaction>>
  BY DEF SwitchMemTable
<1>2. mem' \union imm' = mem \union imm
  BY <1>1
<1>3. EntriesInv'
  <2>1. EntriesAre({}, lastSequence)
    BY FS_EmptySet DEF EntriesAre
  <2>2. EntriesAre(mem', lastSequence') /\ EntriesAre(imm', lastSequence')
    BY <1>1, <2>1 DEF TreeInv, EntriesInv
  <2>3. (mem \union imm \union Entries(FilesOf(current)))' = mem \union imm \union Entries(FilesOf(current))
    BY <1>1
  <2>4. SeqsAreOwn(mem \union imm \union Entries(FilesOf(current)))'
    BY <2>3 DEF TreeInv, EntriesInv, SeqsAreOwn
  <2>5. QED
    BY <1>1, <2>2, <2>4 DEF TreeInv, EntriesInv
<1>4. OrderInv'
  <2>1. Newer(mem', imm')
    BY <1>1 DEF Newer
  <2>2. OnTop(mem' \union imm', FilesAt(current)')
    BY <1>1, <1>2 DEF TreeInv, OrderInv
  <2>3. QED
    BY <1>1, <2>1, <2>2 DEF TreeInv, OrderInv
<1>5. QED
  BY <1>1, <1>3, <1>4 DEF TreeInv, VersionInv, SnapshotsInv

(* What CompactMemTable does to the levels.                                 *)
FlushedAt(level) ==
  /\ IsFlush(FilesAt(current), lastSequence, level, TableOf(nextFile, imm))
  /\ VersionIs(current', lastSequence)
  /\ FilesAt(current') = Flushed(FilesAt(current), level, TableOf(nextFile, imm))
  /\ Layered(FilesAt(current'))
  /\ FilesOf(current') = FilesOf(current) \union {TableOf(nextFile, imm)}

LEMMA FlushEdit ==
  ASSUME TreeInv, CompactMemTable
  PROVE  \E level : FlushedAt(level)
<1>1. PICK level : level = PickLevelForMemTableOutput(current, Least(imm).key, Most(imm).key, MaxSeq)
  OBVIOUS
<1>2. PICK v : v = current'
  OBVIOUS
<1>3. imm # {} /\ v = Applied(current, {}, {<<level, TableOf(nextFile, imm)>>})
  BY <1>1, <1>2 DEF CompactMemTable, TableOf
<1>4. lastSequence \in Nat /\ lastSequence <= MaxSeq /\ MaxSeq \in Nat /\ nextFile \in Nat
  BY BoundsAssumption DEF TreeInv, EntriesInv, VersionInv
<1>5. /\ EntriesAre(imm, lastSequence) /\ VersionIs(current, lastSequence) /\ Layered(FilesAt(current))
      /\ SeqsAreOwn(mem \union imm \union Entries(FilesOf(current)))
  BY DEF TreeInv, EntriesInv, VersionInv, OrderInv
<1>6. \A f \in FilesOf(current) : f.number < nextFile /\ Newer(imm, f.entries)
  <2>1. \A f \in FilesOf(current) : Newer(mem \union imm, f.entries)
    BY OnTopIs DEF TreeInv, OrderInv
  <2>2. QED
    BY <2>1 DEF TreeInv, VersionInv, Newer
<1>7. /\ \A f \in FilesOf(current) : \A e \in imm, d \in f.entries : e.seq = d.seq => e = d
      /\ \A e, d \in imm : e.seq = d.seq => e = d
  BY <1>5 DEF SeqsAreOwn, Entries
<1>8. /\ IsFlush(FilesAt(current), lastSequence, level, TableOf(nextFile, imm))
      /\ VersionIs(v, lastSequence) /\ FilesAt(v) = Flushed(FilesAt(current), level, TableOf(nextFile, imm))
      /\ Layered(FilesAt(v)) /\ FilesOf(v) = FilesOf(current) \union {TableOf(nextFile, imm)}
  BY <1>1, <1>3, <1>4, <1>5, <1>6, <1>7, FlushIs
<1>9. FlushedAt(level)
  BY <1>2, <1>8 DEF FlushedAt
<1>10. QED
  BY <1>9

LEMMA FlushTree ==
  ASSUME TreeInv, CompactMemTable
  PROVE  TreeInv'
<1>1. PICK level : FlushedAt(level)
  BY FlushEdit
<1> DEFINE file == TableOf(nextFile, imm)
           S == FilesAt(current)
           U == Flushed(S, level, file)
<1>2. /\ imm # {} /\ imm' = {} /\ sought' = None /\ nextFile' = nextFile + 1
      /\ UNCHANGED <<lastSequence, mem, snapshots, compaction>>
  BY DEF CompactMemTable
<1>3. lastSequence \in Nat /\ nextFile \in Nat /\ nextFile' \in Nat
  BY <1>2 DEF TreeInv, EntriesInv, VersionInv
<1>4. EntriesAre(imm, lastSequence) /\ VersionIs(current, lastSequence) /\ SeqsAreOwn(mem \union imm \union Entries(FilesOf(current)))
  BY DEF TreeInv, EntriesInv, VersionInv
<1>5. \A f \in FilesOf(current) : f.number < nextFile /\ Newer(mem \union imm, f.entries)
  <2>1. \A f \in FilesOf(current) : Newer(mem \union imm, f.entries)
    BY OnTopIs DEF TreeInv, OrderInv
  <2>2. QED
    BY <2>1 DEF TreeInv, VersionInv
<1>6. /\ IsFlush(S, lastSequence, level, file)
      /\ VersionIs(current', lastSequence) /\ FilesAt(current') = U
      /\ Layered(FilesAt(current')) /\ FilesOf(current') = FilesOf(current) \union {file}
  BY <1>1 DEF FlushedAt
<1>7. file.entries = imm /\ file.number = nextFile
  BY DEF TableOf
<1> HIDE DEF file, U, S
<1>8. mem' \union imm' \union Entries(FilesOf(current')) \subseteq mem \union imm \union Entries(FilesOf(current))
  BY <1>2, <1>6, <1>7 DEF Entries
<1>9. EntriesInv'
  <2>1. EntriesAre({}, lastSequence)
    BY FS_EmptySet DEF EntriesAre
  <2>2. SeqsAreOwn(mem' \union imm' \union Entries(FilesOf(current')))
    BY <1>4, <1>8 DEF SeqsAreOwn
  <2>3. QED
    BY <1>2, <2>1, <2>2 DEF TreeInv, EntriesInv
<1>10. VersionInv'
  <2>1. \A f \in FilesOf(current) : f.number \in Nat
    BY <1>4 DEF VersionIs, FilesAre, FileIs
  <2>2. \A f \in FilesOf(current') : f.number < nextFile'
    <3>1. \A n \in Nat : n < nextFile => n < nextFile'
      BY <1>2, <1>3
    <3>2. nextFile < nextFile'
      BY <1>2, <1>3
    <3>3. QED
      BY <1>5, <1>6, <1>7, <2>1, <3>1, <3>2
  <2>3. QED
    BY <1>2, <1>3, <1>6, <2>2 DEF VersionInv
<1>11. OrderInv'
  <2>1. Newer(mem', imm')
    BY <1>2 DEF Newer
  <2>2. \A f \in FilesOf(current') : Newer(mem' \union imm', f.entries)
    <3>1. Newer(mem, imm)
      BY DEF TreeInv, OrderInv
    <3>2. QED
      BY <1>2, <1>5, <1>6, <1>7, <3>1 DEF Newer
  <2>3. OnTop(mem' \union imm', FilesAt(current'))
    BY <2>2, OnTopIs
  <2>4. QED
    BY <1>6, <2>1, <2>3 DEF OrderInv
<1>12. SoughtIs(current', sought') /\ SnapshotsInv'
  BY <1>2 DEF SoughtIs, SnapshotsInv, TreeInv
<1>13. UnderWay(current', nextFile', compaction')
  <2>1. SUFFICES ASSUME compaction # None PROVE UnderWay(current', nextFile', compaction)
    BY <1>2 DEF UnderWay
  <2> DEFINE A == ToSet(compaction.c.inputs[1])
             B == ToSet(compaction.c.inputs[2])
             L == compaction.c.level
             number == compaction.number
             N == Len(compaction.outs)
  <2>2. /\ Taken(current, L, A, B) /\ OutsAre(Entries(A \union B), compaction.outs)
        /\ number \in Nat /\ number + N <= nextFile
        /\ \A f \in FilesOf(current) : f.number < number \/ f.number >= number + N
    BY <2>1 DEF TreeInv, UnderWay
  <2>3. N \in Nat
    BY <2>2 DEF OutsAre
  <2> HIDE DEF A, B, L, number, N
  <2>4. Taken(current', L, A, B)
    <3>1. LevelsAre(S, lastSequence)
      BY <1>4, FilesAtIs, LevelsOfVersion DEF S
    <3>2. TakenIn(S, L, A, B)
      BY <2>2, FilesAtIs, TakenInLevels DEF S
    <3>3. TakenIn(U, L, A, B)
      BY <1>3, <1>6, <3>1, <3>2, FlushKeepsTaken DEF U
    <3>4. HasLevels(current', U)
      BY <1>6, FilesAtIs
    <3>5. QED
      BY <3>3, <3>4, TakenInLevels
  <2>5. \A f \in FilesOf(current') : f.number < number \/ f.number >= number + N
    <3>1. nextFile >= number + N
      BY <1>3, <2>2, <2>3
    <3>2. QED
      BY <1>6, <1>7, <2>2, <3>1
  <2>6. number + N <= nextFile'
    BY <1>2, <1>3, <2>2, <2>3
  <2>7. QED
    BY <2>2, <2>4, <2>5, <2>6 DEF UnderWay, A, B, L, number, N
<1>14. QED
  BY <1>9, <1>10, <1>11, <1>12, <1>13 DEF TreeInv

LEMMA SnapshotTree ==
  ASSUME TreeInv, NEW h \in Handles, GetSnapshot(h) \/ ReleaseSnapshot(h)
  PROVE  TreeInv'
<1>1. UNCHANGED <<lastSequence, mem, imm, current, sought, nextFile, compaction>>
  BY DEF GetSnapshot, ReleaseSnapshot
<1>2. snapshots' = [snapshots EXCEPT ![h] = lastSequence] \/ snapshots' = [snapshots EXCEPT ![h] = None]
  BY DEF GetSnapshot, ReleaseSnapshot
<1>3. SnapshotsInv /\ lastSequence \in Nat
  BY DEF TreeInv, EntriesInv
<1>4. SnapshotsInv'
  BY <1>2, <1>3 DEF SnapshotsInv
<1>5. QED
  BY <1>1, <1>4 DEF TreeInv, EntriesInv, VersionInv, OrderInv

(* The first file read may be compacted next.                               *)
LEMMA HeadIsSought ==
  ASSUME NEW last \in Nat, NEW version, VersionIs(version, last), NEW k \in Nat, NEW seq \in Nat
  PROVE  /\ Len(FilesFor(version, k, seq)) >= 2 => SoughtIs(version, Head(FilesFor(version, k, seq)))
         /\ Len(Reads(version, k, seq)) >= 2 => SoughtIs(version, Head(Reads(version, k, seq)))
<1>1. PICK files : files = FilesFor(version, k, seq)
  OBVIOUS
<1>2. files \in Seq(FoundFiles(version))
  BY <1>1, FilesForIs DEF FoundDownTo, FoundInLevels
<1>3. Len(files) >= 2 => SoughtIs(version, Head(files))
  BY <1>1, FirstFound DEF SoughtIs
<1>4. ASSUME Len(Reads(version, k, seq)) >= 2 PROVE Len(files) >= 2 /\ Head(Reads(version, k, seq)) = Head(files)
  <2> DEFINE hits == {i \in 1..Len(files) : Visible(files[i].file.entries, k, seq) # {}}
             n == IF hits = {} THEN Len(files) ELSE Min(hits)
  <2>1. Reads(version, k, seq) = SubSeq(files, 1, n)
    BY <1>1 DEF Reads, ReadUpTo
  <2>2. Len(files) \in Nat
    BY <1>2
  <2>3. n \in 0..Len(files)
    <3>1. hits \subseteq 1..Len(files) /\ hits \subseteq Nat
      BY <2>2
    <3> HIDE DEF hits
    <3>2. hits # {} => Min(hits) \in hits
      BY <3>1, MinIsLeast
    <3>3. CASE hits = {}
      BY <2>2, <3>3
    <3>4. CASE hits # {}
      <4>1. Min(hits) \in 1..Len(files)
        BY <3>1, <3>2, <3>4
      <4>2. QED
        BY <2>2, <3>4, <4>1
    <3>5. QED
      BY <3>3, <3>4
  <2> HIDE DEF n
  <2>4. Len(SubSeq(files, 1, n)) = n
    BY <1>2, <2>2, <2>3
  <2>5. n >= 2
    BY <1>4, <2>1, <2>4
  <2>6. Len(files) >= 2
    BY <2>2, <2>3, <2>5
  <2>7. Head(SubSeq(files, 1, n)) = files[1] /\ Head(files) = files[1]
    BY <1>2, <2>2, <2>3, <2>5, <2>6
  <2>8. QED
    BY <2>1, <2>6, <2>7
<1>5. QED
  BY <1>1, <1>3, <1>4

LEMMA SoughtTree ==
  ASSUME TreeInv, SoughtIs(current, sought'), UNCHANGED <<lastSequence, mem, imm, current, nextFile, snapshots, compaction>>
  PROVE  TreeInv'
BY DEF TreeInv, EntriesInv, VersionInv, OrderInv, SnapshotsInv

LEMMA StatsTree ==
  ASSUME TreeInv, NEW k \in Keys, NEW seq \in Open \union {lastSequence}, UpdateStats(k, seq)
  PROVE  TreeInv'
<1>1. k \in Nat /\ seq \in Nat /\ lastSequence \in Nat
  <2>1. \A s \in Open : s \in Nat
    BY DEF Open, TreeInv, SnapshotsInv
  <2>2. QED
    BY <2>1, KeysAssumption DEF TreeInv, EntriesInv
<1>2. VersionIs(current, lastSequence)
  BY DEF TreeInv, VersionInv
<1>3. SoughtIs(current, sought')
  BY <1>1, <1>2, HeadIsSought DEF UpdateStats
<1>4. QED
  BY <1>3, SoughtTree DEF UpdateStats

LEMMA SampleTree ==
  ASSUME TreeInv, NEW e \in Iterated, RecordReadSample(e)
  PROVE  TreeInv'
<1>1. VersionIs(current, lastSequence) /\ lastSequence \in Nat
  BY DEF TreeInv, VersionInv, EntriesInv
<1>2. e.key \in Nat /\ e.seq \in Nat
  <2>1. FilesAre(FilesOf(current), lastSequence)
    BY <1>1 DEF VersionIs
  <2>2. EntriesAre(Entries(FilesOf(current)), lastSequence)
    BY <1>1, <2>1, EntriesOfFiles
  <2>3. e \in mem \union imm \/ e \in Entries(FilesOf(current))
    BY DEF Iterated, EntriesOf, Entries, FilesOf
  <2>4. QED
    BY <2>2, <2>3 DEF TreeInv, EntriesInv, EntriesAre
<1>3. SoughtIs(current, sought')
  BY <1>1, <1>2, HeadIsSought DEF RecordReadSample
<1>4. QED
  BY <1>3, SoughtTree DEF RecordReadSample

(* An edit that brings no new entries.                                      *)
LEMMA EditTree ==
  ASSUME TreeInv, UNCHANGED <<lastSequence, mem, imm, snapshots>>, nextFile' = nextFile,
         VersionIs(current', lastSequence), Layered(FilesAt(current')),
         Entries(FilesOf(current')) \subseteq Entries(FilesOf(current)),
         \A f \in FilesOf(current') : f.number < nextFile
  PROVE  EntriesInv' /\ VersionInv' /\ OrderInv' /\ SnapshotsInv'
<1>1. mem' \union imm' \union Entries(FilesOf(current')) \subseteq mem \union imm \union Entries(FilesOf(current))
  OBVIOUS
<1>2. SeqsAreOwn(mem' \union imm' \union Entries(FilesOf(current')))
  BY <1>1 DEF TreeInv, EntriesInv, SeqsAreOwn
<1>3. EntriesInv'
  BY <1>2 DEF TreeInv, EntriesInv
<1>4. VersionInv'
  BY DEF TreeInv, VersionInv
<1>5. \A e \in mem \union imm, d \in Entries(FilesOf(current)) : e.key = d.key => e.seq > d.seq
  <2>1. \A f \in FilesOf(current) : Newer(mem \union imm, f.entries)
    BY OnTopIs DEF TreeInv, OrderInv
  <2>2. QED
    BY <2>1 DEF Newer, Entries
<1>6. \A f \in FilesOf(current') : Newer(mem' \union imm', f.entries)
  BY <1>5 DEF Newer, Entries
<1>7. OnTop(mem' \union imm', FilesAt(current'))
  BY <1>6, OnTopIs
<1>8. QED
  BY <1>3, <1>4, <1>7 DEF TreeInv, OrderInv, SnapshotsInv

LEMMA BeginTree ==
  ASSUME TreeInv, Open = {}, NEW c, CompactionIs(current, c), Begin(c), UNCHANGED <<lastSequence, mem, imm, snapshots>>
  PROVE  TreeInv'
<1> DEFINE outs == Outputs(current, c, SmallestSnapshot)
           E == Entries(ToSet(c.inputs[1]) \union ToSet(c.inputs[2]))
<1>1. /\ compaction' = [c |-> c, outs |-> outs, number |-> nextFile]
      /\ nextFile' = nextFile + Len(outs) /\ UNCHANGED <<current, sought>>
  BY DEF Begin
<1>2. SmallestSnapshot = lastSequence
  BY DEF SmallestSnapshot
<1>3. lastSequence \in Nat /\ VersionIs(current, lastSequence) /\ nextFile \in Nat /\ \A f \in FilesOf(current) : f.number < nextFile
  BY DEF TreeInv, EntriesInv, VersionInv
<1>4. OutsAre(E, outs)
  BY <1>2, <1>3, OutputsAre
<1> HIDE DEF outs
<1>5. Len(outs) \in Nat
  BY <1>4 DEF OutsAre
<1>6. nextFile' \in Nat /\ nextFile <= nextFile' /\ nextFile + Len(outs) <= nextFile'
  BY <1>1, <1>3, <1>5
<1>7. VersionInv'
  <2>1. \A f \in FilesOf(current) : f.number \in Nat
    BY <1>3 DEF VersionIs, FilesAre, FileIs
  <2>2. \A n \in Nat : n < nextFile => n < nextFile'
    BY <1>3, <1>6
  <2>3. \A f \in FilesOf(current) : f.number < nextFile'
    BY <1>3, <2>1, <2>2
  <2>4. QED
    BY <1>1, <1>3, <1>6, <2>3 DEF VersionInv
<1>8. UnderWay(current', nextFile', compaction')
  <2>1. compaction'.c = c /\ compaction'.outs = outs /\ compaction'.number = nextFile
    BY <1>1
  <2>2. Taken(current, c.level, ToSet(c.inputs[1]), ToSet(c.inputs[2]))
    BY DEF CompactionIs
  <2>3. QED
    BY <1>1, <1>3, <1>4, <1>6, <2>1, <2>2 DEF UnderWay
<1>9. QED
  BY <1>1, <1>7, <1>8 DEF TreeInv, EntriesInv, OrderInv, SnapshotsInv

(* What a move or an installed compaction does to the levels.               *)
Edits(c, O) == Edited(current, lastSequence, O, current') /\ Replaced(current, c, O, current')

LEMMA MoveEdit ==
  ASSUME TreeInv, NEW c, CompactionIs(current, c), IsTrivialMove(c), Move(c)
  PROVE  Edits(c, ToSet(c.inputs[1]))
<1> DEFINE A == ToSet(c.inputs[1])
           B == ToSet(c.inputs[2])
           S == FilesAt(current)
<1>1. current' = Applied(current, InputDeletions(c), PutIn(c.level + 1, A))
  BY DEF Move, PutIn
<1>2. lastSequence \in Nat /\ VersionIs(current, lastSequence) /\ Layered(S)
  BY DEF TreeInv, EntriesInv, VersionInv, OrderInv
<1>3. /\ Taken(current, c.level, A, B) /\ c.inputs[1] \in Seq(FilesOf(current))
      /\ Len(c.inputs[1]) = 1 /\ c.inputs[2] = << >>
  BY DEF CompactionIs, IsTrivialMove
<1>4. A = {c.inputs[1][1]} /\ A \subseteq FilesOf(current)
  <2>1. A = {c.inputs[1][i] : i \in 1..Len(c.inputs[1])} /\ A \subseteq FilesOf(current)
    BY <1>3, MembersOf
  <2>2. 1..1 = {1}
    OBVIOUS
  <2>3. QED
    BY <1>3, <2>1, <2>2
<1>5. AreOutputs(S, lastSequence, A, B, A)
  <2>1. AllOf(S) = FilesOf(current)
    BY FilesAtIs
  <2>2. FilesAre(FilesOf(current), lastSequence)
    BY <1>2 DEF VersionIs
  <2>3. \A o \in A : FileIs(o, lastSequence) /\ o.entries \subseteq Entries(A \union B)
    BY <1>4, <2>2 DEF FilesAre, Entries
  <2>4. IsFiniteSet(A)
    BY <1>4, FS_Singleton
  <2>5. \A o, p \in A : o = p
    BY <1>4
  <2>6. \A o \in A, f \in AllOf(S) : o.number = f.number => o = f
    BY <1>4, <2>1, <2>2 DEF FilesAre
  <2> HIDE DEF A, B, S
  <2>7. QED
    BY <2>3, <2>4, <2>5, <2>6 DEF AreOutputs
<1>6. QED
  <2>1. PICK v, a, b : v = current' /\ a = A /\ b = B
    OBVIOUS
  <2>2. a = ToSet(c.inputs[1]) /\ b = ToSet(c.inputs[2]) /\ Taken(current, c.level, a, b) /\ AreOutputs(FilesAt(current), lastSequence, a, b, a)
    BY <1>3, <1>5, <2>1
  <2>3. v = Applied(current, InputDeletions(c), PutIn(c.level + 1, a)) /\ Layered(FilesAt(current))
    BY <1>1, <1>2, <2>1
  <2> HIDE DEF A, B, S
  <2>4. Installs(current, lastSequence, c, a, b, a, v)
    BY <1>2, <2>2, <2>3 DEF Installs
  <2>5. Edited(current, lastSequence, a, v) /\ Replaced(current, c, a, v)
    BY <2>4, InstallIs
  <2>6. QED
    BY <2>1, <2>2, <2>5 DEF Edits

LEMMA MoveTree ==
  ASSUME TreeInv, compaction = None, NEW c, CompactionIs(current, c), IsTrivialMove(c), Move(c),
         UNCHANGED <<lastSequence, mem, imm, snapshots>>
  PROVE  TreeInv'
<1>1. sought' = None /\ nextFile' = nextFile /\ compaction' = None
  BY DEF Move
<1>2. PICK A : A = ToSet(c.inputs[1])
  OBVIOUS
<1>3. A \subseteq FilesOf(current)
  BY <1>2, MembersOf DEF CompactionIs
<1>4. Edits(c, A)
  BY <1>2, MoveEdit
<1>5. /\ VersionIs(current', lastSequence) /\ Layered(FilesAt(current'))
      /\ FilesOf(current') \subseteq FilesOf(current) \union A /\ Entries(FilesOf(current')) \subseteq Entries(FilesOf(current))
  BY <1>4 DEF Edits, Edited
<1>6. \A f \in FilesOf(current') : f.number < nextFile
  BY <1>3, <1>5 DEF TreeInv, VersionInv
<1>7. EntriesInv' /\ VersionInv' /\ OrderInv' /\ SnapshotsInv'
  BY <1>1, <1>5, <1>6, EditTree
<1>8. SoughtIs(current', sought') /\ UnderWay(current', nextFile', compaction')
  BY <1>1 DEF SoughtIs, UnderWay
<1>9. QED
  BY <1>7, <1>8 DEF TreeInv

(* What PickCompaction has to do.                                           *)
Picks(c) ==
  /\ CompactionIs(current, c) /\ IF IsTrivialMove(c) THEN Move(c) ELSE Begin(c)
  /\ compaction = None /\ UNCHANGED <<lastSequence, mem, imm, snapshots, storeVars>>

LEMMA PickEdit ==
  ASSUME TreeInv, PickCompaction
  PROVE  \E c : Picks(c)
<1>1. PICK c : /\ c = IF SizeCompaction(current) THEN PickedBySize(current, pointers)
                      ELSE Picked(current, sought.level, sought.file)
               /\ IF IsTrivialMove(c) THEN Move(c) ELSE Begin(c)
  BY DEF PickCompaction
<1>2. compaction = None /\ (SizeCompaction(current) \/ sought # None) /\ UNCHANGED <<lastSequence, mem, imm, snapshots, storeVars>>
  BY DEF PickCompaction
<1>3. lastSequence \in Nat /\ VersionIs(current, lastSequence)
  BY DEF TreeInv, EntriesInv, VersionInv
<1>4. CompactionIs(current, c)
  <2>1. CASE SizeCompaction(current)
    BY <1>1, <1>3, <2>1, PickedBySizeIs
  <2>2. CASE ~SizeCompaction(current)
    <3>0. PICK level \in 0..(NumLevels - 2) : \E g \in ToSet(current[level]) : sought = At(level, g)
      BY <1>2, <2>2 DEF TreeInv, SoughtIs
    <3>1. PICK f \in ToSet(current[level]) : sought = At(level, f)
      BY <3>0
    <3>2. sought.level = level /\ sought.file = f
      BY <3>1, AtIs
    <3>3. CompactionIs(current, Picked(current, level, f))
      BY <1>3, PickedIs
    <3>4. QED
      BY <1>1, <2>2, <3>2, <3>3
  <2>3. QED
    BY <2>1, <2>2
<1>5. Picks(c)
  BY <1>1, <1>2, <1>4 DEF Picks
<1>6. QED
  BY <1>5

LEMMA PickTree ==
  ASSUME TreeInv, Open = {}, PickCompaction
  PROVE  TreeInv'
<1>1. PICK c : Picks(c)
  BY PickEdit
<1>2. CompactionIs(current, c) /\ compaction = None /\ UNCHANGED <<lastSequence, mem, imm, snapshots>>
  BY <1>1 DEF Picks
<1>3. (Move(c) /\ IsTrivialMove(c)) \/ Begin(c)
  BY <1>1 DEF Picks
<1>4. QED
  BY <1>2, <1>3, BeginTree, MoveTree

(* The outputs of the compaction under way fit in the current version.      *)
OutputsFit(O) ==
  /\ AreOutputs(FilesAt(current), lastSequence, ToSet(compaction.c.inputs[1]), ToSet(compaction.c.inputs[2]), O)
  /\ \A o \in O : o.number < nextFile

LEMMA InstallEdit ==
  ASSUME TreeInv, InstallCompactionResults
  PROVE  \E O : O = OutFiles(compaction.outs, compaction.number) /\ OutputsFit(O) /\ Edits(compaction.c, O)
<1> DEFINE c == compaction.c
           outs == compaction.outs
           number == compaction.number
           A == ToSet(c.inputs[1])
           B == ToSet(c.inputs[2])
           O == OutFiles(outs, number)
           out(i) == <<c.level + 1, [number |-> number + i - 1, entries |-> outs[i]]>>
           added == {out(i) : i \in DOMAIN outs}
           S == FilesAt(current)
<1>1. /\ compaction # None /\ current' = Applied(current, InputDeletions(c), added)
      /\ compaction' = None /\ sought' = None
      /\ UNCHANGED <<lastSequence, mem, imm, nextFile, snapshots>>
  BY DEF InstallCompactionResults
<1>2. lastSequence \in Nat /\ VersionIs(current, lastSequence) /\ Layered(S) /\ nextFile \in Nat /\ \A f \in FilesOf(current) : f.number < nextFile
  BY DEF TreeInv, EntriesInv, VersionInv, OrderInv
<1>3. /\ Taken(current, c.level, A, B) /\ OutsAre(Entries(A \union B), outs)
      /\ number \in Nat /\ number + Len(outs) <= nextFile
      /\ \A f \in FilesOf(current) : f.number < number \/ f.number >= number + Len(outs)
  BY <1>1 DEF TreeInv, UnderWay
<1>4. DOMAIN outs = 1..Len(outs) /\ Len(outs) \in Nat
  BY <1>3 DEF OutsAre
<1>5. added = PutIn(c.level + 1, O)
  <2>1. O = {[number |-> number + i - 1, entries |-> outs[i]] : i \in 1..Len(outs)}
    BY DEF OutFiles, TableOf
  <2>2. added = {out(i) : i \in 1..Len(outs)}
    BY <1>4
  <2> HIDE DEF O, added, c, outs, number
  <2>3. PutIn(c.level + 1, O) = {<<c.level + 1, o>> : o \in O}
    BY DEF PutIn
  <2>4. QED
    BY <2>1, <2>2, <2>3
<1> HIDE DEF O, added, outs, number, S
<1>6. AreOutputs(S, lastSequence, A, B, O) /\ \A o \in O : o.number < number + Len(outs)
  <2>1. PICK a, b, l : a = A /\ b = B /\ l = c.level
    OBVIOUS
  <2>2. Taken(current, l, a, b) /\ OutsAre(Entries(a \union b), outs)
    BY <1>3, <2>1
  <2> HIDE DEF A, B, c
  <2>3. /\ AreOutputs(FilesAt(current), lastSequence, a, b, OutFiles(outs, number))
        /\ \A o \in OutFiles(outs, number) : o.number < number + Len(outs)
    BY <1>2, <1>3, <2>2, OutFilesAre
  <2>4. QED
    BY <2>1, <2>3 DEF S, O
<1>7. Edits(c, O)
  <2>1. PICK v, a, b, k : v = current' /\ a = A /\ b = B /\ k = c
    OBVIOUS
  <2>2. a = ToSet(k.inputs[1]) /\ b = ToSet(k.inputs[2]) /\ Taken(current, k.level, a, b) /\ AreOutputs(FilesAt(current), lastSequence, a, b, O)
    BY <1>3, <1>6, <2>1 DEF S
  <2>3. v = Applied(current, InputDeletions(k), added) /\ added = PutIn(k.level + 1, O)
    BY <1>1, <1>5, <2>1
  <2>4. Layered(FilesAt(current))
    BY <1>2 DEF S
  <2> HIDE DEF A, B, c
  <2>5. Installs(current, lastSequence, k, a, b, O, v)
    BY <1>2, <2>2, <2>3, <2>4 DEF Installs
  <2>6. Edited(current, lastSequence, O, v) /\ Replaced(current, k, O, v)
    BY <2>5, InstallIs
  <2>7. QED
    BY <2>1, <2>6 DEF Edits
<1>8. \A o \in O : o.number < nextFile
  <2>1. \A o \in O : FileIs(o, lastSequence)
    BY <1>6 DEF AreOutputs
  <2>2. \A o \in O : o.number \in Nat
    BY <2>1 DEF FileIs
  <2>3. \A n \in Nat : n < number + Len(outs) => n < nextFile
    BY <1>2, <1>3, <1>4
  <2>4. QED
    BY <1>6, <2>2, <2>3
<1>9. OutputsFit(O)
  BY <1>6, <1>8 DEF OutputsFit, S
<1>10. QED
  BY <1>7, <1>9 DEF O, outs, number

LEMMA InstallTree ==
  ASSUME TreeInv, InstallCompactionResults
  PROVE  TreeInv'
<1>1. compaction' = None /\ sought' = None /\ UNCHANGED <<lastSequence, mem, imm, nextFile, snapshots>>
  BY DEF InstallCompactionResults
<1>2. PICK O : OutputsFit(O) /\ Edits(compaction.c, O)
  BY InstallEdit
<1>3. /\ VersionIs(current', lastSequence) /\ Layered(FilesAt(current'))
      /\ FilesOf(current') \subseteq FilesOf(current) \union O /\ Entries(FilesOf(current')) \subseteq Entries(FilesOf(current))
  BY <1>2 DEF Edits, Edited
<1>4. \A f \in FilesOf(current') : f.number < nextFile
  BY <1>2, <1>3 DEF OutputsFit, TreeInv, VersionInv
<1>5. EntriesInv' /\ VersionInv' /\ OrderInv' /\ SnapshotsInv'
  BY <1>1, <1>3, <1>4, EditTree
<1>6. SoughtIs(current', sought') /\ UnderWay(current', nextFile', compaction')
  BY <1>1 DEF SoughtIs, UnderWay
<1>7. QED
  BY <1>5, <1>6 DEF TreeInv

LEMMA NextTree ==
  ASSUME TreeInv, [Next]_vars, [Unpinned]_vars
  PROVE  TreeInv'
<1>1. CASE UNCHANGED vars
  BY <1>1, StutterTree DEF vars, treeVars
<1>2. CASE Next /\ Unpinned
  <2>1. CASE \E k \in Keys, del \in Deletes : Write(k, del)
    BY <2>1, WriteTree, BoundsAssumption
  <2>2. CASE SwitchMemTable
    BY <2>2, SwitchTree
  <2>3. CASE CompactMemTable
    BY <2>3, FlushTree
  <2>4. CASE \E h \in Handles : GetSnapshot(h) \/ ReleaseSnapshot(h)
    BY <2>4, SnapshotTree
  <2>5. CASE \E k \in Keys, seq \in Open \union {lastSequence} : UpdateStats(k, seq)
    BY <2>5, StatsTree
  <2>6. CASE \E e \in Iterated : RecordReadSample(e)
    BY <2>6, SampleTree
  <2>7. CASE PickCompaction
    BY <1>2, <2>7, PickTree DEF Unpinned
  <2>8. CASE InstallCompactionResults
    BY <2>8, InstallTree
  <2>9. QED
    BY <1>2, <2>1, <2>2, <2>3, <2>4, <2>5, <2>6, <2>7, <2>8 DEF Next, Unpinned
<1>3. QED
  BY <1>1, <1>2

LEMMA TreeInOrder ==
  ASSUME TreeInv
  PROVE  TreeIsInOrder
<1>1. lastSequence \in Nat /\ VersionIs(current, lastSequence) /\ Newer(mem, imm) /\ Layered(FilesAt(current))
  BY DEF TreeInv, EntriesInv, VersionInv, OrderInv
<1>2. \A f \in FilesOf(current) : Newer(mem \union imm, f.entries)
  BY OnTopIs DEF TreeInv, OrderInv
<1>3. LevelsDisjoint
  <2>1. SUFFICES ASSUME NEW level \in 1..(NumLevels - 1), NEW i \in 1..(Len(current[level]) - 1)
                 PROVE  Less(Largest(current[level][i]), Smallest(current[level][i + 1]))
    BY DEF LevelsDisjoint
  <2>2. level \in Levels \ {0}
    BY LevelsAssumption DEF Levels
  <2>3. Len(current[level]) \in Nat
    BY <1>1, <2>2, LevelFiles
  <2>4. i \in 1..Len(current[level]) /\ i + 1 \in 1..Len(current[level]) /\ i < i + 1
    BY <2>3
  <2>5. Hi(current[level][i]) < Lo(current[level][i + 1])
    BY <1>1, <2>2, <2>4, LevelInOrder
  <2>6. QED
    BY <2>5 DEF Less, Hi, Lo
<1>4. \A l \in Levels : \A f \in ToSet(current[l]) : f \in FilesOf(current)
  BY DEF FilesOf
<1>5. \A l \in Levels : Newer(mem \union imm, EntriesOf(current[l]))
  BY <1>2, <1>4 DEF Newer, EntriesOf
<1>6. \A l, m \in Levels : \A f \in ToSet(current[l]), g \in ToSet(current[m]) : Above(l, f, m, g) => Newer(f.entries, g.entries)
  BY <1>1 DEF Layered, FilesAt
<1>7. 0 \in Levels
  BY LevelsAssumption DEF Levels
<1>8. \A f, g \in ToSet(current[0]) : f.number > g.number => Newer(f.entries, g.entries)
  BY <1>6, <1>7 DEF Above
<1>9. \A l, m \in Levels : l < m => Newer(EntriesOf(current[l]), EntriesOf(current[m]))
  <2>1. \A l, m \in Levels : l < m => \A f \in ToSet(current[l]), g \in ToSet(current[m]) : Newer(f.entries, g.entries)
    BY <1>6 DEF Above
  <2>2. QED
    BY <2>1 DEF Newer, EntriesOf
<1>10. NewestOnTop
  BY <1>1, <1>5, <1>8, <1>9 DEF NewestOnTop, Newer
<1>11. QED
  BY <1>3, <1>10 DEF TreeIsInOrder

(* While no snapshot is open when a compaction is picked, and nobody asks   *)
(* for a range to be compacted, the levels stay in order and newer entries  *)
(* stay in front of older ones, through every flush, move, merge and seek.  *)
THEOREM TreeStaysInOrder == Spec /\ [][Unpinned]_vars => []TreeIsInOrder
<1>1. Init => TreeInv
  BY InitTree
<1>2. TreeInv /\ [Next]_vars /\ [Unpinned]_vars => TreeInv'
  BY NextTree
<1>3. TreeInv => TreeIsInOrder
  BY TreeInOrder
<1>4. QED
  BY <1>1, <1>2, <1>3, PTL DEF Spec

-----------------------------------------------------------------------------
(* What a read should give: the newest entry of its key, wherever it is,    *)
(* that is not newer than its sequence number.                              *)
Tops(E, k, seq) == {e \in Visible(E, k, seq) : \A d \in Visible(E, k, seq) : d.seq <= e.seq}

Answer(E, k, seq) == ValueIn(Tops(E, k, seq))

LEMMA TopsOfUpper ==
  ASSUME NEW P, NEW Q, EntriesHaveKeys(P \union Q), Newer(P, Q), NEW k, NEW seq
  PROVE  /\ Visible(P, k, seq) = {} => Tops(P \union Q, k, seq) = Tops(Q, k, seq)
         /\ Visible(P, k, seq) # {} => Tops(P \union Q, k, seq) = Tops(P, k, seq)
<1> DEFINE V == Visible(P \union Q, k, seq)
           U == Visible(P, k, seq)
           W == Visible(Q, k, seq)
<1>1. V = U \union W
  BY DEF Visible
<1>2. U = {} => Tops(P \union Q, k, seq) = Tops(Q, k, seq)
  BY <1>1 DEF Tops
<1>3. \A e \in U, d \in W : e.seq > d.seq
  BY DEF Visible, Newer
<1>4. \A e \in U \union W : e.seq \in Nat
  BY DEF Visible, EntriesHaveKeys
<1>5. \A m, n \in Nat : m > n => n <= m /\ ~(m <= n)
  OBVIOUS
<1> HIDE DEF V, U, W
<1>6. \A e \in U, d \in W : d.seq <= e.seq /\ ~(e.seq <= d.seq)
  BY <1>3, <1>4, <1>5
<1>7. ASSUME U # {}
      PROVE  {e \in U \union W : \A d \in U \union W : d.seq <= e.seq} = {e \in U : \A d \in U : d.seq <= e.seq}
  BY <1>6, <1>7
<1>8. Tops(P \union Q, k, seq) = {e \in U \union W : \A d \in U \union W : d.seq <= e.seq}
  BY <1>1 DEF Tops, V
<1>9. Tops(P, k, seq) = {e \in U : \A d \in U : d.seq <= e.seq}
  BY DEF Tops, U
<1>10. QED
  BY <1>2, <1>7, <1>8, <1>9 DEF U

(* The first of some entries in the order of a table.                       *)
LEMMA FirstIsTop ==
  ASSUME NEW E, IsFiniteSet(E), EntriesHaveKeys(E), SeqsAreOwn(E), NEW k, NEW seq
  PROVE  FirstOf(Visible(E, k, seq)) = Tops(E, k, seq)
<1> DEFINE V == Visible(E, k, seq)
<1>1. V \subseteq E /\ \A e \in V : e.key = k
  BY DEF Visible
<1>2. CASE V = {}
  BY <1>2 DEF FirstOf, Tops
<1>3. CASE V # {}
  <2> DEFINE m == Least(V)
  <2> HIDE DEF V
  <2>1. IsFiniteSet(V) /\ EntriesHaveKeys(V)
    BY <1>1, FS_Subset DEF EntriesHaveKeys
  <2>2. m \in V /\ \A e \in V : ~Less(e, m)
    BY <1>3, <2>1, LeastIsFirst
  <2>3. \A e \in V : e.seq \in Nat
    BY <2>1 DEF EntriesHaveKeys
  <2> HIDE DEF m
  <2>4. \A e \in V : ~(e.seq > m.seq)
    BY <1>1, <2>2 DEF Less
  <2>5. \A e \in V : e.seq <= m.seq
    <3>1. \A a, b \in Nat : ~(a > b) => a <= b
      OBVIOUS
    <3>2. QED
      BY <2>2, <2>3, <2>4, <3>1
  <2>6. \A x \in V : m.seq <= x.seq => x = m
    <3>1. \A a, b \in Nat : a <= b /\ b <= a => a = b
      OBVIOUS
    <3>2. \A x \in V : m.seq <= x.seq => x.seq = m.seq
      BY <2>2, <2>3, <2>5, <3>1
    <3>3. QED
      BY <1>1, <2>2, <3>2 DEF SeqsAreOwn
  <2>7. {x \in V : \A d \in V : d.seq <= x.seq} = {m}
    BY <2>2, <2>5, <2>6
  <2>8. FirstOf(V) = {m}
    BY <1>3 DEF FirstOf, m
  <2>9. Tops(E, k, seq) = {x \in V : \A d \in V : d.seq <= x.seq}
    BY DEF Tops, V
  <2>10. QED
    BY <2>7, <2>8, <2>9 DEF V
<1>4. QED
  BY <1>2, <1>3

(* Version::Get stops at the right file.                                    *)
LEMMA GetFromIs ==
  ASSUME NEW last \in Nat, NEW version, VersionIs(version, last), Layered(FilesAt(version)), NEW k \in Nat, NEW seq \in Nat
  PROVE  GetFrom(version, k, seq) = Tops(Entries(FilesOf(version)), k, seq)
<1> DEFINE files == FilesFor(version, k, seq)
           N == Len(files)
           hits == {i \in 1..N : Visible(files[i].file.entries, k, seq) # {}}
           E == Entries(FilesOf(version))
           reads == Reads(version, k, seq)
<1>1. FoundDownTo(version, files, k, seq, NumLevels - 1)
  BY FilesForIs
<1> HIDE DEF files
<1>2. files \in Seq(FoundFiles(version)) /\ N \in Nat
  BY <1>1 DEF FoundDownTo, FoundInLevels
<1>3. \A i \in 1..N : /\ files[i].level \in Levels /\ files[i].file \in ToSet(version[files[i].level])
                      /\ files[i].file \in FilesOf(version)
  <2>1. \A i \in 1..N : files[i] \in FoundFiles(version)
    BY <1>2
  <2>2. \A i \in 1..N : files[i].file \in ToSet(version[files[i].level])
    BY <1>1 DEF FoundDownTo, FoundInLevels
  <2>3. \A x \in FoundFiles(version) : x.level \in Levels /\ x.file \in FilesOf(version)
    BY DEF FoundFiles
  <2>4. QED
    BY <2>1, <2>2, <2>3
<1>4. ASSUME NEW e \in Visible(E, k, seq) PROVE \E i \in hits : e \in Visible(files[i].file.entries, k, seq)
  <2>1. PICK f \in FilesOf(version) : e \in f.entries
    BY DEF Visible, Entries
  <2>2. e \in Visible(f.entries, k, seq)
    BY <2>1 DEF Visible
  <2>3. PICK l \in Levels : f \in ToSet(version[l])
    BY DEF FilesOf
  <2>4. l \in 0..(NumLevels - 1)
    BY DEF Levels
  <2>5. \E i \in 1..N : files[i] = At(l, f)
    BY <1>1, <2>2, <2>3, <2>4 DEF FoundDownTo, FoundAll
  <2>6. PICK i \in 1..N : files[i].file = f
    BY <2>5, AtIs
  <2>7. QED
    BY <2>2, <2>6
<1>5. reads = SubSeq(files, 1, IF hits = {} THEN N ELSE Min(hits))
  BY DEF Reads, ReadUpTo, files
<1>6. GetFrom(version, k, seq) =
        FirstOf(UNION {Visible(Last(r).file.entries, k, seq) : r \in {reads} \ {<< >>}})
  BY DEF GetFrom
<1>7. FilesAre(FilesOf(version), last)
  BY DEF VersionIs
<1>8. EntriesHaveKeys(E) /\ SeqsAreOwn(E)
  BY <1>7, EntriesOfFiles DEF SeqsAreOwn
<1>9. \A f \in FilesOf(version) : IsFiniteSet(f.entries) /\ EntriesHaveKeys(f.entries) /\ SeqsAreOwn(f.entries) /\ f.entries \subseteq E
  <2>1. \A f \in FilesOf(version) : IsFiniteSet(f.entries) /\ f.entries \subseteq E
    BY <1>7 DEF FilesAre, FileIs, EntriesAre, Entries
  <2>2. QED
    BY <1>8, <2>1 DEF EntriesHaveKeys, SeqsAreOwn
<1> HIDE DEF reads, E, hits, N
<1>10. CASE hits = {}
  <2>1. Visible(E, k, seq) = {}
    BY <1>4, <1>10
  <2>2. Tops(E, k, seq) = {}
    BY <2>1 DEF Tops
  <2>3. reads = files
    <3>1. reads = SubSeq(files, 1, N)
      BY <1>5, <1>10
    <3>2. QED
      BY <1>2, <3>1 DEF N
  <2>4. \A r \in {reads} \ {<< >>} : Visible(Last(r).file.entries, k, seq) = {}
    <3>1. SUFFICES ASSUME files # << >> PROVE Visible(Last(files).file.entries, k, seq) = {}
      BY <2>3
    <3>2. N \in 1..N /\ Last(files) = files[N]
      <4>1. N # 0
        BY <1>2, <3>1 DEF N
      <4>2. QED
        BY <1>2, <4>1 DEF Last, N
    <3>3. QED
      BY <1>10, <3>2 DEF hits
  <2>5. UNION {Visible(Last(r).file.entries, k, seq) : r \in {reads} \ {<< >>}} = {}
    BY <2>4
  <2>6. QED
    BY <1>6, <2>2, <2>5 DEF FirstOf, E
<1>11. CASE hits # {}
  <2> DEFINE m == Min(hits)
             f == files[m].file
  <2>1. m \in hits /\ m \in 1..N /\ \A n \in hits : m <= n /\ n \in 1..N
    <3>1. hits \subseteq 1..N
      BY DEF hits
    <3>2. hits \subseteq Nat
      BY <3>1
    <3>3. m \in hits /\ \A n \in hits : m <= n
      BY <1>11, <3>2, MinIsLeast
    <3>4. QED
      BY <3>1, <3>3
  <2> HIDE DEF m
  <2>2. reads # << >> /\ Last(reads) = files[m]
    <3>1. reads = SubSeq(files, 1, m)
      BY <1>5, <1>11 DEF m
    <3>2. Len(reads) = m /\ reads[m] = files[m]
      BY <1>2, <2>1, <3>1 DEF N
    <3>3. m # 0
      BY <2>1
    <3>4. QED
      BY <3>2, <3>3 DEF Last
  <2>3. GetFrom(version, k, seq) = FirstOf(Visible(f.entries, k, seq))
    <3>1. {reads} \ {<< >>} = {reads}
      BY <2>2
    <3>2. UNION {Visible(Last(r).file.entries, k, seq) : r \in {reads}} = Visible(f.entries, k, seq)
      BY <2>2
    <3>3. QED
      BY <1>6, <3>1, <3>2
  <2>4. f \in FilesOf(version) /\ Visible(f.entries, k, seq) # {}
    BY <1>3, <2>1 DEF hits
  <2>5. GetFrom(version, k, seq) = Tops(f.entries, k, seq)
    BY <1>9, <2>3, <2>4, FirstIsTop
  <2>6. ASSUME NEW d \in Visible(E, k, seq)
        PROVE  d \in f.entries \/ \A e \in Visible(f.entries, k, seq) : e.seq > d.seq
    <3>1. PICK j \in hits : d \in Visible(files[j].file.entries, k, seq)
      BY <1>4
    <3>2. j \in 1..N /\ m <= j /\ j \in Nat /\ m \in Nat
      BY <2>1, <3>1
    <3>3. CASE j = m
      BY <3>1, <3>3 DEF Visible
    <3>4. CASE j # m
      <4>1. m < j
        BY <3>2, <3>4
      <4>2. FoundBefore(files[m], files[j])
        BY <1>1, <2>1, <3>2, <4>1 DEF FoundDownTo, FoundInOrder, N
      <4>3. Above(files[m].level, f, files[j].level, files[j].file)
        BY <4>2 DEF FoundBefore, Above
      <4>4. Newer(f.entries, files[j].file.entries)
        BY <1>3, <2>1, <3>2, <4>3 DEF Layered, FilesAt
      <4>5. QED
        BY <3>1, <4>4 DEF Newer, Visible
    <3>5. QED
      BY <3>3, <3>4
  <2>7. Visible(f.entries, k, seq) \subseteq Visible(E, k, seq)
    BY <1>9, <2>4 DEF Visible
  <2> DEFINE U == Visible(f.entries, k, seq)
             V == Visible(E, k, seq)
  <2>8. \A d \in V : d \in U \/ \A e \in U : e.seq > d.seq
    BY <2>6 DEF Visible
  <2>9. \A e \in V : e.seq \in Nat
    BY <1>8 DEF Visible, EntriesHaveKeys
  <2>10. \A x, y \in Nat : x > y => y <= x /\ ~(x <= y)
    OBVIOUS
  <2>11. U \subseteq V /\ U # {}
    BY <2>4, <2>7
  <2> HIDE DEF U, V, f
  <2>12. \A d \in V : d \in U \/ \A e \in U : d.seq <= e.seq /\ ~(e.seq <= d.seq)
    BY <2>8, <2>9, <2>10, <2>11
  <2>13. {e \in V : \A d \in V : d.seq <= e.seq} = {e \in U : \A d \in U : d.seq <= e.seq}
    BY <2>11, <2>12
  <2>14. Tops(E, k, seq) = Tops(f.entries, k, seq)
    BY <2>13 DEF Tops, U, V
  <2>15. QED
    BY <2>5, <2>14 DEF E
<1>12. QED
  BY <1>10, <1>11

(* All the entries there are.                                               *)
Held == mem \union imm \union Entries(FilesOf(current))

LEMMA HeldAre ==
  ASSUME TreeInv
  PROVE  /\ EntriesHaveKeys(Held) /\ SeqsAreOwn(Held) /\ \A e \in Held : e.key \in Nat /\ e.seq \in Nat /\ e.seq <= lastSequence
<1>1. EntriesAre(mem, lastSequence) /\ EntriesAre(imm, lastSequence) /\ SeqsAreOwn(Held)
  BY DEF TreeInv, EntriesInv, Held
<1>2. lastSequence \in Nat /\ FilesAre(FilesOf(current), lastSequence)
  BY DEF TreeInv, EntriesInv, VersionInv, VersionIs
<1>3. EntriesAre(Entries(FilesOf(current)), lastSequence)
  BY <1>2, EntriesOfFiles
<1>4. \A e \in Held : e.key \in Nat /\ e.seq \in Nat /\ e.seq <= lastSequence
  BY <1>1, <1>3 DEF Held, EntriesAre
<1>5. QED
  BY <1>1, <1>4 DEF EntriesHaveKeys

(* DBImpl::Get gives what a read should give.                               *)
LEMMA GetIs ==
  ASSUME TreeInv, NEW k \in Nat, NEW seq \in Nat
  PROVE  Get(k, seq) = Answer(Held, k, seq)
<1> DEFINE F == Entries(FilesOf(current))
<1>1. lastSequence \in Nat /\ VersionIs(current, lastSequence) /\ Layered(FilesAt(current)) /\ Newer(mem, imm)
  BY DEF TreeInv, EntriesInv, VersionInv, OrderInv
<1>2. Newer(mem \union imm, F)
  <2>1. \A f \in FilesOf(current) : Newer(mem \union imm, f.entries)
    BY OnTopIs DEF TreeInv, OrderInv
  <2>2. QED
    BY <2>1 DEF Newer, Entries
<1>3. EntriesHaveKeys(Held) /\ SeqsAreOwn(Held) /\ IsFiniteSet(mem) /\ IsFiniteSet(imm)
  BY HeldAre DEF TreeInv, EntriesInv, EntriesAre
<1> HIDE DEF F
<1>4. Held = mem \union (imm \union F) /\ Held = (mem \union imm) \union F
  BY DEF Held, F
<1>5. Newer(mem, imm \union F) /\ Newer(imm, F)
  BY <1>1, <1>2 DEF Newer
<1>6. /\ EntriesHaveKeys(mem) /\ EntriesHaveKeys(imm) /\ EntriesHaveKeys(imm \union F)
      /\ SeqsAreOwn(mem) /\ SeqsAreOwn(imm)
  BY <1>3, <1>4 DEF EntriesHaveKeys, SeqsAreOwn
<1>7. EntriesHaveKeys(mem \union (imm \union F))
  BY <1>3, <1>4
<1>8. FirstOf(Visible(mem, k, seq)) = Tops(mem, k, seq) /\ FirstOf(Visible(imm, k, seq)) = Tops(imm, k, seq)
  BY <1>3, <1>6, FirstIsTop
<1>9. GetFrom(current, k, seq) = Tops(F, k, seq)
  BY <1>1, GetFromIs DEF F
<1>10. PICK G : G = imm \union F
  OBVIOUS
<1>11. /\ Visible(mem, k, seq) = {} => Tops(Held, k, seq) = Tops(G, k, seq)
       /\ Visible(mem, k, seq) # {} => Tops(Held, k, seq) = Tops(mem, k, seq)
  <2>1. EntriesHaveKeys(mem \union G) /\ Newer(mem, G) /\ Held = mem \union G
    BY <1>4, <1>5, <1>7, <1>10
  <2>2. QED
    BY <2>1, TopsOfUpper
<1>12. /\ Visible(imm, k, seq) = {} => Tops(G, k, seq) = Tops(F, k, seq)
       /\ Visible(imm, k, seq) # {} => Tops(G, k, seq) = Tops(imm, k, seq)
  BY <1>5, <1>6, <1>10, TopsOfUpper
<1>13. (IF Visible(mem, k, seq) # {} THEN FirstOf(Visible(mem, k, seq))
        ELSE IF Visible(imm, k, seq) # {} THEN FirstOf(Visible(imm, k, seq))
        ELSE GetFrom(current, k, seq)) = Tops(Held, k, seq)
  <2>1. CASE Visible(mem, k, seq) # {}
    BY <1>8, <1>11, <2>1
  <2>2. CASE Visible(mem, k, seq) = {} /\ Visible(imm, k, seq) # {}
    BY <1>8, <1>11, <1>12, <2>2
  <2>3. CASE Visible(mem, k, seq) = {} /\ Visible(imm, k, seq) = {}
    BY <1>9, <1>11, <1>12, <2>3
  <2>4. QED
    BY <2>1, <2>2, <2>3
<1>14. QED
  BY <1>13 DEF Get, Answer

-----------------------------------------------------------------------------
(* User keys of which nothing lies below a compaction of level L.           *)
GoneBelow(S, L) == {k \in Nat : \A l \in Levels : l >= L + 2 => \A f \in S[l] : \A d \in f.entries : d.key # k}

LEMMA BaseKeysAre ==
  ASSUME NEW last \in Nat, NEW version, VersionIs(version, last), NEW c, CompactionIs(version, c)
  PROVE  BaseKeys(version, c, GoneBelow(FilesAt(version), c.level))
<1> SUFFICES ASSUME NEW k \in Nat, IsBaseLevelForKey(version, c, k), NEW l \in Levels, l >= c.level + 2,
                    NEW f \in ToSet(version[l]), NEW d \in f.entries
             PROVE  d.key # k
  BY DEF BaseKeys, GoneBelow, FilesAt
<1>1. l \in (c.level + 2)..(NumLevels - 1)
  BY NextLevel, LevelsAssumption DEF Levels, CompactionIs, Taken
<1>2. ~Overlaps(f, k, k)
  BY <1>1 DEF IsBaseLevelForKey
<1>3. f \in FilesOf(version)
  BY LevelFiles
<1>4. RangesAre(FilesOf(version)) /\ FileIs(f, last)
  BY <1>3, VersionRanges
<1>5. ~(k <= Hi(f) /\ Lo(f) <= k)
  BY <1>2, <1>3, <1>4, MeetsIs
<1>6. Lo(f) <= d.key /\ d.key <= Hi(f)
  BY <1>4, FileRange DEF Lo, Hi
<1>7. QED
  BY <1>5, <1>6

(* Files with no user key in common.                                        *)
LEMMA ApartHaveNone ==
  ASSUME NEW last \in Nat, NEW f, NEW g, FileIs(f, last), FileIs(g, last), Apart(f, g)
  PROVE  \A e \in f.entries, d \in g.entries : e.key # d.key
<1>1. Newer(f.entries, g.entries) /\ Newer(g.entries, f.entries)
  BY ApartIsNewer
<1>2. \A e \in f.entries, d \in g.entries : e.seq \in Nat /\ d.seq \in Nat
  BY DEF FileIs, EntriesAre
<1>3. \A a, b \in Nat : ~(a > b /\ b > a)
  OBVIOUS
<1>4. QED
  BY <1>1, <1>2, <1>3 DEF Newer

LEMMA FlushKeepsGone ==
  ASSUME NEW last \in Nat, NEW S, LevelsAre(S, last), NEW level, NEW file, IsFlush(S, last, level, file),
         NEW L, NEW A, NEW B, TakenIn(S, L, A, B), NEW e \in Entries(A \union B), e.key \in GoneBelow(S, L)
  PROVE  e.key \in GoneBelow(Flushed(S, level, file), L)
<1> DEFINE U == Flushed(S, level, file)
<1>1. level \in Levels /\ FileIs(file, last) /\ \A l \in Levels : U[l] = IF l = level THEN S[l] \union {file} ELSE S[l]
  BY DEF Flushed, IsFlush
<1>2. level # 0 => \A l \in 0..level : \A g \in S[l] : Apart(g, file)
  BY DEF IsFlush
<1> HIDE DEF U
<1>3. L \in Nat /\ L \in Levels /\ L + 1 \in Levels /\ level \in Nat
  BY <1>1, NextLevel DEF TakenIn, Levels
<1>4. PICK f \in A \union B : e \in f.entries
  BY DEF Entries
<1>5. PICK p \in {L, L + 1} : f \in S[p]
  BY <1>4 DEF TakenIn
<1>6. FileIs(f, last)
  <2>1. f \in AllOf(S)
    BY <1>3, <1>5 DEF AllOf
  <2>2. QED
    BY <2>1 DEF LevelsAre, FilesAre
<1>7. e.key \in Nat
  BY DEF GoneBelow
<1>8. ASSUME NEW l \in Levels, l >= L + 2, NEW g \in U[l], NEW d \in g.entries PROVE d.key # e.key
  <2>1. CASE g \in S[l]
    BY <1>8, <2>1 DEF GoneBelow
  <2>2. CASE g \notin S[l]
    <3>1. l = level /\ g = file
      BY <1>1, <2>2
    <3>2. level # 0 /\ p \in 0..level
      BY <1>3, <1>5, <1>8, <3>1
    <3>3. Apart(f, file)
      BY <1>2, <1>5, <3>2
    <3>4. QED
      BY <1>1, <1>4, <1>6, <3>1, <3>3, ApartHaveNone
  <2>3. QED
    BY <2>1, <2>2
<1>9. QED
  BY <1>7, <1>8 DEF GoneBelow, U

(* What stays of the levels above and of the two levels of a compaction is  *)
(* newer than what was taken, where they share a user key.                  *)
LEMMA RestIsNewer ==
  ASSUME NEW last \in Nat, NEW S, LevelsAre(S, last), Layered(S), NEW L, NEW A, NEW B, TakenIn(S, L, A, B),
         NEW l \in Levels, NEW g \in S[l], l = L => g \notin A, l = L + 1 => g \notin B, ~(l >= L + 2), NEW f \in A \union B
  PROVE  Newer(g.entries, f.entries)
<1>1. L \in 0..(NumLevels - 2) /\ L \in Nat /\ L \in Levels /\ L + 1 \in Levels /\ l \in Nat
  BY NextLevel DEF TakenIn, Levels
<1>2. A \subseteq S[L] /\ B \subseteq S[L + 1]
  BY DEF TakenIn
<1>3. \A h : h \in AllOf(S) => FileIs(h, last)
  BY DEF LevelsAre, FilesAre
<1>4. \A m \in Levels : \A h \in S[m] : FileIs(h, last)
  BY <1>3 DEF AllOf
<1>5. FileIs(g, last) /\ FileIs(f, last)
  BY <1>1, <1>2, <1>4
<1>6. \A p, q \in Levels : \A h \in S[p], j \in S[q] : Above(p, h, q, j) => Newer(h.entries, j.entries)
  BY DEF Layered
<1>7. CASE l < L
  <2>1. PICK p \in {L, L + 1} : f \in S[p]
    BY <1>2
  <2>2. p \in Levels /\ l < p
    BY <1>1, <1>7, <2>1
  <2>3. QED
    BY <1>6, <2>1, <2>2 DEF Above
<1>8. CASE l = L
  <2>1. CASE f \in B
    <3>1. f \in S[L + 1] /\ L < L + 1
      BY <1>1, <1>2, <2>1
    <3>2. QED
      BY <1>1, <1>6, <1>8, <3>1 DEF Above
  <2>2. CASE f \in A
    <3>1. Apart(g, f) \/ (L = 0 /\ g.number > f.number)
      BY <1>8, <2>2 DEF TakenIn
    <3>2. CASE Apart(g, f)
      BY <1>5, <3>2, ApartIsNewer
    <3>3. CASE L = 0 /\ g.number > f.number
      BY <1>1, <1>2, <1>6, <1>8, <2>2, <3>3 DEF Above
    <3>4. QED
      BY <3>1, <3>2, <3>3
  <2>3. QED
    BY <2>1, <2>2
<1>9. CASE l = L + 1
  <2>1. PICK lo, hi : Spans(A \union B, lo, hi) /\ \A h \in S[L + 1] \ B : Hi(h) < lo \/ hi < Lo(h)
    BY DEF TakenIn
  <2>2. lo \in Nat /\ hi \in Nat /\ lo <= Lo(f) /\ Hi(f) <= hi
    BY <2>1 DEF Spans
  <2>3. Hi(g) < lo \/ hi < Lo(g)
    BY <1>9, <2>1
  <2>4. Lo(f) \in Nat /\ Hi(f) \in Nat /\ Lo(g) \in Nat /\ Hi(g) \in Nat
    BY <1>5, FileRange DEF Lo, Hi
  <2>5. Hi(g) < Lo(f) \/ Hi(f) < Lo(g)
    BY <2>2, <2>3, <2>4
  <2>6. QED
    BY <1>5, <2>5, ApartIsNewer DEF Apart
<1>10. QED
  BY <1>1, <1>7, <1>8, <1>9

(* The outputs of a merge in the place of its inputs answer as they did, at *)
(* any sequence number that sees all of the inputs.                         *)
InstalledEntriesAre(S, L, A, B, O, P, H, U) ==
  /\ U = Installed(S, L, A, B, O) /\ H = P \union Entries(AllOf(S))
  /\ Entries(O) \subseteq Entries(A \union B)

LEMMA WhatStays ==
  ASSUME NEW S, NEW L, NEW A, NEW B, TakenIn(S, L, A, B), NEW O, NEW P, NEW H, NEW U, InstalledEntriesAre(S, L, A, B, O, P, H, U)
  PROVE  /\ P \union Entries(AllOf(U)) \subseteq H /\ Entries(O) \subseteq Entries(AllOf(U))
         /\ \A e \in H : e \in P \union Entries(AllOf(U)) \/ e \in Entries(A \union B)
         /\ \A d \in Entries(AllOf(U)) :
              d \in Entries(O) \/ \E l \in Levels : \E g \in S[l] :
                                    d \in g.entries /\ (l = L => g \notin A) /\ (l = L + 1 => g \notin B)
<1>1. L \in Levels /\ L + 1 \in Levels /\ L # L + 1 /\ A \subseteq S[L] /\ B \subseteq S[L + 1]
  BY NextLevel DEF TakenIn
<1>2. \A l \in Levels : U[l] = IF l = L THEN S[l] \ A ELSE IF l = L + 1 THEN (S[l] \ B) \union O ELSE S[l]
  BY DEF InstalledEntriesAre, Installed
<1>3. H = P \union Entries(AllOf(S)) /\ Entries(O) \subseteq Entries(A \union B)
  BY DEF InstalledEntriesAre
<1>4. A \union B \subseteq AllOf(S)
  BY <1>1 DEF AllOf
<1>5. Entries(O) \subseteq Entries(AllOf(S))
  BY <1>3, <1>4 DEF Entries
<1>6. ASSUME NEW d \in Entries(AllOf(U))
      PROVE  d \in Entries(O) \/ \E l \in Levels : \E g \in S[l] :
                                   d \in g.entries /\ (l = L => g \notin A) /\ (l = L + 1 => g \notin B)
  <2>1. PICK l \in Levels : \E g \in U[l] : d \in g.entries
    BY DEF Entries, AllOf
  <2>2. PICK g \in U[l] : d \in g.entries
    BY <2>1
  <2>3. CASE g \in O
    BY <2>2, <2>3 DEF Entries
  <2>4. CASE g \notin O
    <3>1. g \in S[l] /\ (l = L => g \notin A) /\ (l = L + 1 => g \notin B)
      BY <1>1, <1>2, <2>4
    <3>2. QED
      BY <2>2, <3>1
  <2>5. QED
    BY <2>3, <2>4
<1>7. Entries(AllOf(U)) \subseteq Entries(AllOf(S))
  <2>1. ASSUME NEW d \in Entries(AllOf(U)) PROVE d \in Entries(AllOf(S))
    <3>1. CASE d \in Entries(O)
      BY <1>5, <3>1
    <3>2. CASE \E l \in Levels : \E g \in S[l] : d \in g.entries
      BY <3>2 DEF Entries, AllOf
    <3>3. QED
      BY <1>6, <3>1, <3>2
  <2>2. QED
    BY <2>1
<1>8. Entries(O) \subseteq Entries(AllOf(U))
  <2>1. O \subseteq U[L + 1]
    BY <1>1, <1>2
  <2>2. O \subseteq AllOf(U)
    BY <1>1, <2>1 DEF AllOf
  <2>3. QED
    BY <2>2 DEF Entries
<1>9. ASSUME NEW e \in Entries(AllOf(S)) PROVE e \in Entries(AllOf(U)) \/ e \in Entries(A \union B)
  <2>1. PICK l \in Levels : \E g \in S[l] : e \in g.entries
    BY DEF Entries, AllOf
  <2>2. PICK g \in S[l] : e \in g.entries
    BY <2>1
  <2>3. CASE g \in A \union B
    BY <2>2, <2>3 DEF Entries
  <2>4. CASE g \notin A \union B
    <3>1. g \in U[l]
      BY <1>2, <2>4
    <3>2. QED
      BY <2>2, <3>1 DEF Entries, AllOf
  <2>5. QED
    BY <2>3, <2>4
<1>10. QED
  BY <1>3, <1>6, <1>7, <1>8, <1>9

Seen(E, seq) == \A e \in E : e.seq <= seq

LEMMA InstalledAnswers ==
  ASSUME NEW last \in Nat, NEW S, LevelsAre(S, last), Layered(S), NEW L, NEW A, NEW B, TakenIn(S, L, A, B),
         NEW O, NEW P, NEW H, NEW U, InstalledEntriesAre(S, L, A, B, O, P, H, U), OnTop(P, S),
         IsFiniteSet(H), EntriesHaveKeys(H), SeqsAreOwn(H),
         NEW E, E = Entries(A \union B), Resolved(GoneBelow(S, L), E, Entries(O)),
         NEW k, NEW seq \in Nat, Seen(E, seq)
  PROVE  Answer(P \union Entries(AllOf(U)), k, seq) = Answer(H, k, seq)
<1> DEFINE G == P \union Entries(AllOf(U))
           V == Visible(H, k, seq)
           W == Visible(G, k, seq)
           Out == Entries(O)
<1>1. /\ G \subseteq H /\ Out \subseteq G /\ \A e \in H : e \in G \/ e \in E
      /\ \A d \in G : \/ d \in P \/ d \in Out
                      \/ \E l \in Levels : \E g \in S[l] : d \in g.entries /\ (l = L => g \notin A) /\ (l = L + 1 => g \notin B)
  BY WhatStays
<1>2. Out \subseteq E
  BY DEF InstalledEntriesAre
<1>3. /\ Newest(E, Out) /\ \A e \in E : SpokenFor(GoneBelow(S, L), E, Out, e)
      /\ \A e \in E : e.seq <= seq
  BY DEF Resolved, Seen
<1>4. \A e \in H : e.seq \in Nat
  BY DEF EntriesHaveKeys
<1>5. \A a, b \in Nat : a <= b /\ b <= a => a = b
  OBVIOUS
<1>6. E \subseteq H
  <2>1. L \in Levels /\ L + 1 \in Levels
    BY NextLevel DEF TakenIn
  <2>2. A \union B \subseteq AllOf(S)
    BY <2>1 DEF TakenIn, AllOf
  <2>3. QED
    BY <2>2 DEF InstalledEntriesAre, Entries
<1>7. V = {e \in H : e.key = k /\ e.seq <= seq} /\ W = {e \in G : e.key = k /\ e.seq <= seq}
  BY DEF Visible
<1>8. /\ Tops(H, k, seq) = {e \in V : \A d \in V : d.seq <= e.seq}
      /\ Tops(G, k, seq) = {e \in W : \A d \in W : d.seq <= e.seq}
  BY DEF Tops
<1> HIDE DEF G, V, W, Out
<1>9. \A x, y \in V : x.seq <= y.seq /\ y.seq <= x.seq => x = y
  BY <1>4, <1>5, <1>7 DEF SeqsAreOwn
<1>10. CASE V = {}
  <2>1. W = {}
    BY <1>1, <1>7, <1>10
  <2>2. Tops(H, k, seq) = {} /\ Tops(G, k, seq) = {}
    BY <1>8, <1>10, <2>1
  <2>3. QED
    BY <2>2 DEF Answer, G
<1>11. CASE V # {}
  <2>1. PICK t \in V : \A d \in V : d.seq <= t.seq
    <3>1. FirstOf(V) = Tops(H, k, seq)
      BY FirstIsTop DEF V
    <3>2. Tops(H, k, seq) # {}
      BY <1>11, <3>1 DEF FirstOf
    <3>3. QED
      BY <1>8, <3>2
  <2>2. Tops(H, k, seq) = {t}
    BY <1>8, <1>9, <2>1
  <2>3. CASE t \in G
    <3>1. t \in W /\ W \subseteq V
      BY <1>1, <1>7, <2>1, <2>3
    <3>2. Tops(G, k, seq) = {t}
      BY <1>8, <1>9, <2>1, <3>1
    <3>3. QED
      BY <2>2, <3>2 DEF Answer, G
  <2>4. CASE t \notin G
    <3>1. t \in H /\ t.key = k /\ t \in E
      BY <1>1, <1>7, <2>1, <2>4
    <3>2. t.del /\ t.key \in GoneBelow(S, L)
      <4>1. SpokenFor(GoneBelow(S, L), E, Out, t)
        BY <1>3, <3>1
      <4>2. ASSUME NEW o \in Out, o.key = t.key, t.seq <= o.seq PROVE FALSE
        <5>1. o \in E /\ o \in G /\ o \in H
          BY <1>1, <1>2
        <5>2. o \in V
          BY <1>3, <1>7, <3>1, <4>2, <5>1
        <5>3. o = t
          BY <1>9, <2>1, <4>2, <5>2
        <5>4. QED
          BY <2>4, <5>1, <5>3
      <4>3. PICK m \in E : m.key = t.key /\ m.del /\ m.key \in GoneBelow(S, L) /\ IsNewest(E, m)
        BY <4>1, <4>2 DEF SpokenFor
      <4>4. m \in V
        BY <1>3, <1>6, <1>7, <3>1, <4>3
      <4>5. t.seq <= m.seq
        BY <3>1, <4>3 DEF IsNewest
      <4>6. m = t
        BY <1>9, <2>1, <4>4, <4>5
      <4>7. QED
        BY <4>3, <4>6
    <3>3. ASSUME NEW d \in W PROVE FALSE
      <4>1. d \in G /\ d \in V /\ d.key = t.key /\ d # t
        BY <1>1, <1>7, <2>4, <3>1
      <4>2. d.seq <= t.seq /\ d.seq \in Nat /\ t.seq \in Nat
        BY <1>4, <1>7, <2>1, <4>1
      <4>3. ~(d.seq > t.seq) /\ ~(t.seq <= d.seq)
        <5>1. \A a, b \in Nat : a <= b => ~(a > b)
          OBVIOUS
        <5>2. QED
          BY <1>9, <2>1, <4>1, <4>2, <5>1
      <4>4. PICK f \in A \union B : t \in f.entries
        <5>1. t \in Entries(A \union B)
          BY <3>1
        <5>2. QED
          BY <5>1 DEF Entries
      <4>5. d \notin P
        <5>1. f \in AllOf(S)
          BY <4>4, NextLevel DEF TakenIn, AllOf
        <5>2. Newer(P, f.entries)
          BY <5>1 DEF OnTop
        <5>3. QED
          BY <4>1, <4>3, <4>4, <5>2 DEF Newer
      <4>6. d \notin Out
        BY <1>3, <3>1, <4>1, <4>3 DEF Newest
      <4>7. PICK l \in Levels : \E g \in S[l] : d \in g.entries /\ (l = L => g \notin A) /\ (l = L + 1 => g \notin B)
        BY <1>1, <4>1, <4>5, <4>6
      <4>8. PICK g \in S[l] : d \in g.entries /\ (l = L => g \notin A) /\ (l = L + 1 => g \notin B)
        BY <4>7
      <4>9. CASE l >= L + 2
        BY <3>2, <4>1, <4>8, <4>9 DEF GoneBelow
      <4>10. CASE ~(l >= L + 2)
        <5>1. l = L => g \notin A
          BY <4>8
        <5>2. l = L + 1 => g \notin B
          BY <4>8
        <5>3. Newer(g.entries, f.entries)
          BY <4>4, <4>10, <5>1, <5>2, RestIsNewer
        <5>4. QED
          BY <4>1, <4>3, <4>4, <4>8, <5>3 DEF Newer
      <4>11. QED
        BY <4>9, <4>10
    <3>4. Tops(G, k, seq) = {}
      BY <1>8, <3>3
    <3>5. ValueIn({t}) = 0 /\ ValueIn({}) = 0
      BY <3>2 DEF ValueIn
    <3>6. QED
      BY <2>2, <3>4, <3>5 DEF Answer, G
  <2>5. QED
    BY <2>3, <2>4
<1>12. QED
  BY <1>10, <1>11

-----------------------------------------------------------------------------
(* The answers.  All entries together give the last value written, now and  *)
(* at every open snapshot, and the outputs of the compaction under way give *)
(* what its inputs give to every reader there is or will be.                *)
AnswersInv ==
  /\ DOMAIN store = Keys /\ DOMAIN views = Handles
  /\ \A k \in Keys : Answer(Held, k, lastSequence) = store[k]
  /\ \A h \in Handles : snapshots[h] # None =>
       snapshots[h] <= lastSequence /\ \A k \in Keys : Answer(Held, k, snapshots[h]) = views[h][k]

InputsOf(w) == Entries(ToSet(w.c.inputs[1]) \union ToSet(w.c.inputs[2]))

SeenByAll(w) == \A h \in Handles : snapshots[h] # None => Seen(InputsOf(w), snapshots[h])

MergeInv ==
  compaction # None =>
    /\ SeenByAll(compaction)
    /\ Resolved(GoneBelow(FilesAt(current), compaction.c.level), InputsOf(compaction), Kept(compaction.outs))

StoreInv == AnswersInv /\ MergeInv

LEMMA InitStore ==
  ASSUME Init
  PROVE  StoreInv
<1>1. /\ mem = {} /\ imm = {} /\ compaction = None /\ current = [level \in Levels |-> << >>]
      /\ snapshots = [h \in Handles |-> None] /\ store = [k \in Keys |-> 0] /\ views = [h \in Handles |-> None]
  BY DEF Init
<1>2. Held = {}
  <2>1. << >> \in Seq({}) /\ Len(<< >>) = 0
    OBVIOUS
  <2>2. ToSet(<< >>) = {}
    BY <2>1, MembersOf
  <2>3. FilesOf(current) = {}
    BY <1>1, <2>2 DEF FilesOf
  <2>4. QED
    BY <1>1, <2>3 DEF Held, Entries
<1>3. \A k : Answer(Held, k, lastSequence) = 0
  BY <1>2 DEF Answer, Tops, Visible, ValueIn
<1>4. AnswersInv
  BY <1>1, <1>3 DEF AnswersInv
<1>5. QED
  BY <1>1, <1>4 DEF StoreInv, MergeInv

(* What a compaction under way has taken is in the files.                   *)
LEMMA InputsAreHeld ==
  ASSUME TreeInv, compaction # None
  PROVE  InputsOf(compaction) \subseteq Held
<1> DEFINE c == compaction.c
<1>1. Taken(current, c.level, ToSet(c.inputs[1]), ToSet(c.inputs[2]))
  BY DEF TreeInv, UnderWay
<1>2. c.level \in Levels /\ c.level + 1 \in Levels
  BY <1>1, NextLevel DEF Taken
<1>3. ToSet(c.inputs[1]) \union ToSet(c.inputs[2]) \subseteq FilesOf(current)
  BY <1>1, <1>2 DEF Taken, FilesOf
<1>4. QED
  BY <1>3 DEF InputsOf, Held, Entries

LEMMA VisibleAnswers ==
  ASSUME NEW E, NEW F, NEW k, NEW s, NEW t, Visible(E, k, s) = Visible(F, k, t)
  PROVE  Answer(E, k, s) = Answer(F, k, t)
BY DEF Answer, Tops

LEMMA WriteStore ==
  ASSUME TreeInv, StoreInv, NEW k \in Keys, NEW del \in BOOLEAN, Write(k, del)
  PROVE  StoreInv'
<1> DEFINE e0 == [key |-> k, seq |-> lastSequence', del |-> del]
<1>1. /\ lastSequence' = lastSequence + 1 /\ mem' = mem \union {e0}
      /\ store' = [store EXCEPT ![k] = IF del THEN 0 ELSE lastSequence']
      /\ UNCHANGED <<imm, current, snapshots, compaction, views>>
  BY DEF Write
<1>2. lastSequence \in Nat /\ lastSequence' \in Nat /\ lastSequence < lastSequence' /\ \A n \in Nat : n <= lastSequence => n < lastSequence' /\ n <= lastSequence'
  BY <1>1 DEF TreeInv, EntriesInv
<1>3. e0.key = k /\ e0.seq = lastSequence' /\ e0.del = del
  OBVIOUS
<1> HIDE DEF e0
<1>4. \A e \in Held : e.seq \in Nat /\ e.seq <= lastSequence
  BY HeldAre
<1>5. Held' = Held \union {e0}
  BY <1>1 DEF Held
<1>6. \A j \in Keys : Answer(Held', j, lastSequence') = store'[j]
  <2>1. ASSUME NEW j \in Keys, j # k PROVE Answer(Held', j, lastSequence') = store'[j]
    <3>1. Visible(Held', j, lastSequence') = Visible(Held, j, lastSequence)
      BY <1>2, <1>3, <1>4, <1>5, <2>1 DEF Visible
    <3>2. Answer(Held', j, lastSequence') = Answer(Held, j, lastSequence)
      BY <3>1, VisibleAnswers
    <3>3. store'[j] = store[j]
      BY <1>1, <2>1 DEF StoreInv, AnswersInv
    <3>4. QED
      BY <3>2, <3>3 DEF StoreInv, AnswersInv
  <2>2. Answer(Held', k, lastSequence') = store'[k]
    <3>1. \A e \in Held : e.seq <= lastSequence' /\ ~(lastSequence' <= e.seq)
      <4>1. \A n \in Nat : n < lastSequence' => ~(lastSequence' <= n)
        BY <1>2
      <4>2. QED
        BY <1>2, <1>4, <4>1
    <3>2. lastSequence' <= lastSequence'
      BY <1>2
    <3>3. Tops(Held', k, lastSequence') = {e0}
      BY <1>3, <1>5, <3>1, <3>2 DEF Tops, Visible
    <3>4. ValueIn({e0}) = IF del THEN 0 ELSE lastSequence'
      BY <1>3 DEF ValueIn
    <3>5. store'[k] = IF del THEN 0 ELSE lastSequence'
      BY <1>1 DEF StoreInv, AnswersInv
    <3>6. QED
      BY <3>3, <3>4, <3>5 DEF Answer
  <2>3. QED
    BY <2>1, <2>2
<1>7. ASSUME NEW h \in Handles, snapshots[h] # None
      PROVE  snapshots[h] <= lastSequence' /\ \A j \in Keys : Answer(Held', j, snapshots[h]) = views[h][j]
  <2>1. snapshots[h] \in Nat /\ snapshots[h] <= lastSequence
    BY <1>7 DEF TreeInv, SnapshotsInv, StoreInv, AnswersInv
  <2>2. PICK s : s = snapshots[h]
    OBVIOUS
  <2>3. s \in Nat /\ s <= lastSequence
    BY <2>1, <2>2
  <2>4. ~(lastSequence' <= s)
    BY <1>2, <2>3
  <2>5. \A j : Visible(Held', j, s) = Visible(Held, j, s)
    BY <1>3, <1>5, <2>4 DEF Visible
  <2>6. \A j : Answer(Held', j, s) = Answer(Held, j, s)
    BY <2>5, VisibleAnswers
  <2>7. s <= lastSequence'
    BY <1>2, <2>3
  <2>8. QED
    BY <1>7, <2>2, <2>6, <2>7 DEF StoreInv, AnswersInv
<1>8. DOMAIN store' = Keys /\ DOMAIN views' = Handles
  BY <1>1 DEF StoreInv, AnswersInv
<1>9. AnswersInv'
  BY <1>1, <1>6, <1>7, <1>8 DEF AnswersInv
<1>10. MergeInv'
  BY <1>1 DEF StoreInv, MergeInv, SeenByAll
<1>11. QED
  BY <1>9, <1>10 DEF StoreInv

LEMMA SnapshotStore ==
  ASSUME TreeInv, StoreInv, NEW h \in Handles, GetSnapshot(h) \/ ReleaseSnapshot(h)
  PROVE  StoreInv'
<1>1. /\ UNCHANGED <<lastSequence, mem, imm, current, compaction, store>> /\ Held' = Held
      /\ DOMAIN snapshots = Handles /\ DOMAIN views = Handles /\ lastSequence \in Nat
  BY DEF GetSnapshot, ReleaseSnapshot, Held, TreeInv, SnapshotsInv, StoreInv, AnswersInv, EntriesInv
<1>2. \/ snapshots'[h] = lastSequence /\ views'[h] = store
      \/ snapshots'[h] = None
  BY <1>1 DEF GetSnapshot, ReleaseSnapshot
<1>3. /\ \A g \in Handles \ {h} : snapshots'[g] = snapshots[g] /\ views'[g] = views[g]
      /\ DOMAIN views' = Handles
  BY <1>1 DEF GetSnapshot, ReleaseSnapshot
<1>4. AnswersInv'
  <2>1. ASSUME NEW g \in Handles, snapshots'[g] # None
        PROVE  snapshots'[g] <= lastSequence /\ \A k \in Keys : Answer(Held, k, snapshots'[g]) = views'[g][k]
    <3>1. CASE g # h
      BY <1>3, <2>1, <3>1 DEF StoreInv, AnswersInv
    <3>2. CASE g = h
      <4>1. snapshots'[g] = lastSequence /\ views'[g] = store
        BY <1>2, <2>1, <3>2
      <4>2. lastSequence <= lastSequence
        BY <1>1
      <4>3. QED
        BY <4>1, <4>2 DEF StoreInv, AnswersInv
    <3>3. QED
      BY <3>1, <3>2
  <2>2. QED
    BY <1>1, <1>3, <2>1 DEF StoreInv, AnswersInv
<1>5. MergeInv'
  <2>1. SUFFICES ASSUME compaction # None PROVE SeenByAll(compaction)'
    BY <1>1 DEF StoreInv, MergeInv
  <2>2. SeenByAll(compaction)
    BY <2>1 DEF StoreInv, MergeInv
  <2>3. Seen(InputsOf(compaction), lastSequence)
    BY <2>1, InputsAreHeld, HeldAre DEF Seen
  <2>4. \A g \in Handles : snapshots'[g] # None => Seen(InputsOf(compaction), snapshots'[g])
    BY <1>2, <1>3, <2>2, <2>3 DEF SeenByAll
  <2>5. QED
    BY <1>1, <2>4 DEF SeenByAll
<1>6. QED
  BY <1>4, <1>5 DEF StoreInv

(* A step that leaves the answers as they are.                              *)
LEMMA AnswersSame ==
  ASSUME StoreInv, UNCHANGED <<lastSequence, snapshots, store, views>>,
         \A k \in Keys : Answer(Held', k, lastSequence) = Answer(Held, k, lastSequence),
         \A h \in Handles : snapshots[h] # None => \A k \in Keys : Answer(Held', k, snapshots[h]) = Answer(Held, k, snapshots[h])
  PROVE  AnswersInv'
BY DEF StoreInv, AnswersInv

LEMMA HeldSame ==
  ASSUME StoreInv, UNCHANGED <<lastSequence, snapshots, store, views>>, Held' = Held
  PROVE  AnswersInv'
BY DEF StoreInv, AnswersInv

LEMMA QuietStore ==
  ASSUME StoreInv, UNCHANGED <<lastSequence, current, snapshots, compaction, store, views>>, Held' = Held
  PROVE  StoreInv'
<1>1. AnswersInv'
  BY HeldSame
<1>2. MergeInv'
  BY DEF StoreInv, MergeInv, SeenByAll
<1>3. QED
  BY <1>1, <1>2 DEF StoreInv

LEMMA SettledMore ==
  ASSUME NEW G, NEW M, NEW E, NEW Out, Resolved(G, E, Out), \A e \in E : e.key \in G => e.key \in M
  PROVE  Resolved(M, E, Out)
BY DEF Resolved, SpokenFor

LEMMA FlushStore ==
  ASSUME TreeInv, StoreInv, CompactMemTable
  PROVE  StoreInv'
<1>1. PICK level : FlushedAt(level)
  BY FlushEdit
<1>2. imm' = {} /\ UNCHANGED <<lastSequence, mem, snapshots, compaction, store, views>>
  BY DEF CompactMemTable, storeVars
<1>3. PICK file : file = TableOf(nextFile, imm)
  OBVIOUS
<1>4. file.entries = imm
  BY <1>3 DEF TableOf
<1>5. /\ IsFlush(FilesAt(current), lastSequence, level, file)
      /\ FilesAt(current') = Flushed(FilesAt(current), level, file) /\ FilesOf(current') = FilesOf(current) \union {file}
  BY <1>1, <1>3 DEF FlushedAt
<1>6. Entries(FilesOf(current')) = Entries(FilesOf(current)) \union imm
  BY <1>4, <1>5 DEF Entries
<1>7. Held' = Held
  BY <1>2, <1>6 DEF Held
<1>8. AnswersInv'
  BY <1>2, <1>7, HeldSame
<1>9. MergeInv'
  <2>1. SUFFICES ASSUME compaction # None
                 PROVE  /\ SeenByAll(compaction)'
                        /\ Resolved(GoneBelow(FilesAt(current'), compaction.c.level), InputsOf(compaction), Kept(compaction.outs))
    BY <1>2 DEF MergeInv
  <2>2. SeenByAll(compaction)'
    BY <1>2, <2>1 DEF StoreInv, MergeInv, SeenByAll
  <2>3. PICK A, B, L, E : /\ A = ToSet(compaction.c.inputs[1]) /\ B = ToSet(compaction.c.inputs[2]) /\ L = compaction.c.level
                          /\ E = Entries(A \union B)
    OBVIOUS
  <2>4. Taken(current, L, A, B)
    BY <2>1, <2>3 DEF TreeInv, UnderWay
  <2>5. TakenIn(FilesAt(current), L, A, B)
    BY <2>4, FilesAtIs, TakenInLevels
  <2>6. lastSequence \in Nat /\ LevelsAre(FilesAt(current), lastSequence)
    BY FilesAtIs, LevelsOfVersion DEF TreeInv, EntriesInv, VersionInv
  <2>7. PICK S : S = FilesAt(current)
    OBVIOUS
  <2>8. \A e \in Entries(A \union B) : e.key \in GoneBelow(S, L) => e.key \in GoneBelow(Flushed(S, level, file), L)
    BY <1>5, <2>5, <2>6, <2>7, FlushKeepsGone
  <2>9. PICK M : M = GoneBelow(FilesAt(current'), L)
    OBVIOUS
  <2>10. \A e \in E : e.key \in GoneBelow(S, L) => e.key \in M
    BY <1>5, <2>3, <2>7, <2>8, <2>9
  <2>11. Resolved(GoneBelow(S, L), E, Kept(compaction.outs))
    BY <2>1, <2>3, <2>7 DEF StoreInv, MergeInv, InputsOf
  <2>12. Resolved(M, E, Kept(compaction.outs))
    BY <2>10, <2>11, SettledMore
  <2>13. QED
    BY <2>2, <2>3, <2>9, <2>12 DEF InputsOf
<1>10. QED
  BY <1>8, <1>9 DEF StoreInv

LEMMA BeginStore ==
  ASSUME TreeInv, StoreInv, Open = {}, NEW c, CompactionIs(current, c), Begin(c),
         UNCHANGED <<lastSequence, mem, imm, snapshots, store, views>>
  PROVE  StoreInv'
<1>1. PICK outs : outs = Outputs(current, c, SmallestSnapshot)
  OBVIOUS
<1>2. compaction' = [c |-> c, outs |-> outs, number |-> nextFile] /\ current' = current
  BY <1>1 DEF Begin
<1>3. Held' = Held
  BY <1>2 DEF Held
<1>4. AnswersInv'
  BY <1>3, HeldSame
<1>5. SmallestSnapshot = lastSequence
  BY DEF SmallestSnapshot
<1>6. lastSequence \in Nat /\ VersionIs(current, lastSequence)
  BY DEF TreeInv, EntriesInv, VersionInv
<1>7. PICK G : G = GoneBelow(FilesAt(current), c.level)
  OBVIOUS
<1>8. BaseKeys(current, c, G)
  BY <1>6, <1>7, BaseKeysAre
<1>9. Gives(G, Entries(ToSet(c.inputs[1]) \union ToSet(c.inputs[2])), outs)
  BY <1>1, <1>5, <1>6, <1>8, MergeGives
<1>10. compaction'.c = c /\ compaction'.outs = outs
  BY <1>2
<1>11. Resolved(GoneBelow(FilesAt(current), c.level), InputsOf(compaction'), Kept(outs))
  BY <1>7, <1>9, <1>10 DEF Gives, InputsOf
<1>12. SeenByAll(compaction)'
  <2>1. \A h \in Handles : snapshots[h] = None
    BY DEF Open
  <2>2. QED
    BY <2>1 DEF SeenByAll
<1>13. MergeInv'
  BY <1>2, <1>10, <1>11, <1>12 DEF MergeInv
<1>14. QED
  BY <1>4, <1>13 DEF StoreInv

LEMMA MoveStore ==
  ASSUME TreeInv, StoreInv, compaction = None, NEW c, CompactionIs(current, c), IsTrivialMove(c), Move(c),
         UNCHANGED <<lastSequence, mem, imm, snapshots, store, views>>
  PROVE  StoreInv'
<1>1. PICK A, B, L : A = ToSet(c.inputs[1]) /\ B = ToSet(c.inputs[2]) /\ L = c.level
  OBVIOUS
<1>2. Edits(c, A)
  BY <1>1, MoveEdit
<1>3. PICK S, U : S = FilesAt(current) /\ U = FilesAt(current')
  OBVIOUS
<1>4. U = Installed(S, L, A, B, A)
  BY <1>1, <1>2, <1>3 DEF Edits, Replaced
<1>5. TakenIn(S, L, A, B)
  <2>1. Taken(current, L, A, B)
    BY <1>1 DEF CompactionIs
  <2>2. HasLevels(current, S)
    BY <1>3, FilesAtIs
  <2>3. QED
    BY <2>1, <2>2, TakenInLevels
<1>6. B = {}
  <2>1. c.inputs[2] = << >>
    BY DEF IsTrivialMove
  <2>2. << >> \in Seq({})
    OBVIOUS
  <2>3. ToSet(<< >>) = {}
    BY <2>2, MembersOf
  <2>4. QED
    BY <1>1, <2>1, <2>3
<1>7. AllOf(S) = FilesOf(current) /\ AllOf(U) = FilesOf(current')
  BY <1>3, FilesAtIs
<1>8. PICK P, H : P = mem \union imm /\ H = Held
  OBVIOUS
<1>9. InstalledEntriesAre(S, L, A, B, A, P, H, U)
  BY <1>4, <1>7, <1>8 DEF InstalledEntriesAre, Held, Entries
<1>10. /\ P \union Entries(AllOf(U)) \subseteq H /\ Entries(A) \subseteq Entries(AllOf(U))
       /\ \A e \in H : e \in P \union Entries(AllOf(U)) \/ e \in Entries(A \union B)
  BY <1>5, <1>9, WhatStays
<1>11. P \union Entries(AllOf(U)) = H
  BY <1>6, <1>10
<1>12. Held' = Held
  BY <1>7, <1>8, <1>11 DEF Held
<1>13. AnswersInv'
  BY <1>12, HeldSame
<1>14. compaction' = None
  BY DEF Move
<1>15. QED
  BY <1>13, <1>14 DEF StoreInv, MergeInv

LEMMA InstallStore ==
  ASSUME TreeInv, StoreInv, InstallCompactionResults
  PROVE  StoreInv'
<1>1. compaction # None /\ compaction' = None /\ UNCHANGED <<lastSequence, mem, imm, snapshots, store, views>>
  BY DEF InstallCompactionResults, storeVars
<1>2. PICK O : O = OutFiles(compaction.outs, compaction.number) /\ OutputsFit(O) /\ Edits(compaction.c, O)
  BY InstallEdit
<1>3. PICK A, B, L, S, U, E, P, H :
        /\ A = ToSet(compaction.c.inputs[1]) /\ B = ToSet(compaction.c.inputs[2]) /\ L = compaction.c.level
        /\ S = FilesAt(current) /\ U = FilesAt(current') /\ E = Entries(A \union B)
        /\ P = mem \union imm /\ H = Held
  OBVIOUS
<1>4. lastSequence \in Nat /\ LevelsAre(S, lastSequence) /\ Layered(S) /\ OnTop(P, S)
  BY <1>3, FilesAtIs, LevelsOfVersion DEF TreeInv, EntriesInv, VersionInv, OrderInv
<1>5. TakenIn(S, L, A, B)
  <2>1. Taken(current, L, A, B)
    BY <1>1, <1>3 DEF TreeInv, UnderWay
  <2>2. HasLevels(current, S)
    BY <1>3, FilesAtIs
  <2>3. QED
    BY <2>1, <2>2, TakenInLevels
<1>6. AllOf(S) = FilesOf(current) /\ AllOf(U) = FilesOf(current')
  BY <1>3, FilesAtIs
<1>7. InstalledEntriesAre(S, L, A, B, O, P, H, U)
  <2>1. U = Installed(S, L, A, B, O)
    BY <1>2, <1>3 DEF Edits, Replaced
  <2>2. H = P \union Entries(AllOf(S))
    BY <1>3, <1>6 DEF Held
  <2>3. \A o \in O : o.entries \subseteq Entries(A \union B)
    BY <1>2, <1>3 DEF OutputsFit, AreOutputs
  <2>4. QED
    BY <2>1, <2>2, <2>3 DEF InstalledEntriesAre, Entries
<1>8. IsFiniteSet(H) /\ EntriesHaveKeys(H) /\ SeqsAreOwn(H)
  <2>1. IsFiniteSet(mem) /\ IsFiniteSet(imm)
    BY DEF TreeInv, EntriesInv, EntriesAre
  <2>2. FilesAre(FilesOf(current), lastSequence)
    BY DEF TreeInv, VersionInv, VersionIs
  <2>3. IsFiniteSet(Entries(FilesOf(current)))
    BY <1>4, <2>2, EntriesOfFiles
  <2>4. IsFiniteSet(Held)
    BY <2>1, <2>3, FS_Union DEF Held
  <2>5. QED
    BY <1>3, <2>4, HeldAre
<1>9. Entries(O) = Kept(compaction.outs)
  <2>1. PICK outs, number : outs = compaction.outs /\ number = compaction.number
    OBVIOUS
  <2>2. \A i \in 1..Len(outs) : TableOf(number + i - 1, outs[i]).entries = outs[i]
    BY DEF TableOf
  <2>3. Entries(OutFiles(outs, number)) = Kept(outs)
    BY <2>2 DEF Entries, OutFiles, Kept
  <2>4. QED
    BY <1>2, <2>1, <2>3
<1>10. Resolved(GoneBelow(S, L), E, Entries(O))
  BY <1>1, <1>3, <1>9 DEF StoreInv, MergeInv, InputsOf
<1>11. \A seq \in Nat : Seen(E, seq) => \A k : Answer(P \union Entries(AllOf(U)), k, seq) = Answer(H, k, seq)
  BY <1>3, <1>4, <1>5, <1>7, <1>8, <1>10, InstalledAnswers
<1>12. P \union Entries(AllOf(U)) = Held'
  BY <1>1, <1>3, <1>6 DEF Held
<1>13. Seen(E, lastSequence)
  BY <1>1, <1>3, InputsAreHeld, HeldAre DEF Seen, InputsOf
<1>14. \A h \in Handles : snapshots[h] # None => snapshots[h] \in Nat /\ Seen(E, snapshots[h])
  BY <1>1, <1>3 DEF TreeInv, SnapshotsInv, StoreInv, MergeInv, SeenByAll, InputsOf
<1>15. \A k \in Keys : Answer(Held', k, lastSequence) = Answer(Held, k, lastSequence)
  BY <1>3, <1>4, <1>11, <1>12, <1>13
<1>16. \A h \in Handles : snapshots[h] # None => \A k \in Keys : Answer(Held', k, snapshots[h]) = Answer(Held, k, snapshots[h])
  BY <1>3, <1>11, <1>12, <1>14
<1>17. AnswersInv'
  BY <1>1, <1>15, <1>16, AnswersSame
<1>18. QED
  BY <1>1, <1>17 DEF StoreInv, MergeInv

LEMMA NextStore ==
  ASSUME TreeInv, StoreInv, [Next]_vars, [Unpinned]_vars
  PROVE  StoreInv'
<1>1. CASE UNCHANGED <<mem, imm, current>> /\ UNCHANGED <<lastSequence, snapshots, compaction, store, views>>
  <2>1. Held' = Held
    BY <1>1 DEF Held
  <2>2. QED
    BY <1>1, <2>1, QuietStore
<1>2. CASE Next /\ Unpinned
  <2>1. CASE \E k \in Keys, del \in Deletes : Write(k, del)
    BY <2>1, WriteStore, BoundsAssumption
  <2>2. CASE SwitchMemTable
    <3>1. mem' = {} /\ imm' = mem /\ imm = {} /\ UNCHANGED <<lastSequence, current, snapshots, compaction, store, views>>
      BY <2>2 DEF SwitchMemTable, storeVars
    <3>2. Held' = Held
      BY <3>1 DEF Held
    <3>3. QED
      BY <3>1, <3>2, QuietStore
  <2>3. CASE CompactMemTable
    BY <2>3, FlushStore
  <2>4. CASE \E h \in Handles : GetSnapshot(h) \/ ReleaseSnapshot(h)
    BY <2>4, SnapshotStore
  <2>5. CASE \E k \in Keys, seq \in Open \union {lastSequence} : UpdateStats(k, seq)
    BY <1>1, <2>5 DEF UpdateStats, storeVars
  <2>6. CASE \E e \in Iterated : RecordReadSample(e)
    BY <1>1, <2>6 DEF RecordReadSample, storeVars
  <2>7. CASE PickCompaction
    <3>1. Open = {}
      BY <1>2, <2>7 DEF Unpinned
    <3>2. PICK c : Picks(c)
      BY <2>7, PickEdit
    <3>3. CompactionIs(current, c) /\ compaction = None /\ UNCHANGED <<lastSequence, mem, imm, snapshots, store, views>>
      BY <3>2 DEF Picks, storeVars
    <3>4. (Move(c) /\ IsTrivialMove(c)) \/ Begin(c)
      BY <3>2 DEF Picks
    <3>5. QED
      BY <3>1, <3>3, <3>4, BeginStore, MoveStore
  <2>8. CASE InstallCompactionResults
    BY <2>8, InstallStore
  <2>9. QED
    BY <1>2, <2>1, <2>2, <2>3, <2>4, <2>5, <2>6, <2>7, <2>8 DEF Next, Unpinned
<1>3. QED
  BY <1>1, <1>2 DEF vars, treeVars, storeVars

LEMMA ReadsOfStore ==
  ASSUME TreeInv, StoreInv
  PROVE  ReadsAreRight
<1>1. lastSequence \in Nat
  BY DEF TreeInv, EntriesInv
<1>2. \A k \in Keys : Get(k, lastSequence) = store[k]
  BY <1>1, GetIs, KeysAssumption DEF StoreInv, AnswersInv
<1>3. \A h \in Handles : snapshots[h] # None => \A k \in Keys : Get(k, snapshots[h]) = views[h][k]
  BY GetIs, KeysAssumption DEF StoreInv, AnswersInv, TreeInv, SnapshotsInv
<1>4. QED
  BY <1>2, <1>3 DEF ReadsAreRight

(* And a read gives the last value written, a read at a snapshot the last   *)
(* one when it was taken, whatever is flushed, moved, merged or dropped.    *)
THEOREM ReadsStayRight == Spec /\ [][Unpinned]_vars => []ReadsAreRight
<1>1. Init => TreeInv /\ StoreInv
  BY InitTree, InitStore
<1>2. TreeInv /\ StoreInv /\ [Next]_vars /\ [Unpinned]_vars => (TreeInv /\ StoreInv)'
  BY NextTree, NextStore
<1>3. TreeInv /\ StoreInv => ReadsAreRight
  BY ReadsOfStore
<1>4. QED
  BY <1>1, <1>2, <1>3, PTL DEF Spec

=============================================================================
