--------------------------- MODULE ExplorerProofs ----------------------------
(***************************************************************************)
(* Theorems about Explorer, and with it StudioData and StudioServer, for   *)
(* any keys, users and limits, any first contents of the database, any     *)
(* number of requests under way and any session: the spinners settle, the  *)
(* pages of the list fit together, the banner counts what is shown, and a  *)
(* search in chunks misses nothing.                                        *)
(*                                                                         *)
(* The parts below: the inductive invariant; what the server's answers     *)
(* are; how answers and lists age while others write; the requests that    *)
(* are sent; then the steps, one lemma for each kind.                      *)
(***************************************************************************)
EXTENDS Explorer, FiniteSetTheorems, TLAPS

(* A list of records that tells of the keys from lo on: in order, and except
   for the keys of T as database d has them.  The first is what PagedComplete
   asks of the list, the second what SearchCovers asks of the results. *)
Reached(more, next, hi) == IF more THEN next ELSE hi + 1
Ascending(recs) == \A i, j \in DOMAIN recs : i < j => recs[i].key < recs[j].key
Starts(recs, more, next, lo) ==
  /\ \A i \in DOMAIN recs : lo <= recs[i].key /\ (more => recs[i].key < next)
  /\ more => lo <= next
Faithful(d, recs, T) == \A i \in DOMAIN recs : recs[i].key \notin T => d[recs[i].key] = recs[i].value
Shows(recs, k) == \E i \in DOMAIN recs : recs[i].key = k
Complete(d, recs, more, next, lo, hi, T) ==
  \A k \in Keys \ T : d[k] # NoValue /\ lo <= k /\ k < Reached(more, next, hi) => Shows(recs, k)
ListOf(d, recs, more, next, lo, hi, T) ==
  /\ Ascending(recs) /\ Starts(recs, more, next, lo)
  /\ Faithful(d, recs, T) /\ Complete(d, recs, more, next, lo, hi, T)

Selects(d, recs, more, next, lo, hi, T) ==
  \A k \in Keys \ T : lo <= k /\ k < Reached(more, next, hi) => (d[k] \in Hits <=> Shows(recs, k))
HitsOf(d, recs, more, next, lo, hi, T) ==
  /\ Starts(recs, more, next, lo) /\ Selects(d, recs, more, next, lo, hi, T)

PageIs(d, p, lo, hi, T)  == ListOf(d, p.records, p.hasMore, p.nextKey, lo, hi, T)
ChunkIs(d, p, lo, hi, T) == HitsOf(d, p.records, p.hasMore, p.nextKey, lo, hi, T)

(* What a request asks for, and what its answer is. *)
Forms == {"search", "range", "lookup"}
Continues(c) == c.was # Unknown
MetaOK(m) ==
  /\ m \in Metas /\ m.prefix # 0
  /\ m.hasMore => First(m.prefix) <= m.nextKey /\ m.nextKey <= Last(m.prefix)
AskOK(c) ==
  /\ c.op = "refresh" => c.lo = All /\ c.hi = All
  /\ c.op \in {"partition", "more", "range"} => c.lo \in Keys /\ c.hi \in Keys
  /\ c.op \in {"lookup", "link"} \cup Writes => c.lo \in Keys
  /\ c.ask = "update" => c.op = "post" \/ (c.op \in {"refresh", "counts"} /\ c.was \in Keys)
  /\ c.op = "search" =>
       /\ c.prefix # 0
       /\ Continues(c) => /\ MetaOK(c.was) /\ c.was.hasMore
                          /\ c.lo = c.was.nextKey /\ c.prefix = c.was.prefix
       /\ ~Continues(c) => c.lo = All
SearchedFrom(c) == IF c.lo = All THEN First(c.prefix) ELSE c.lo
SearchOK(d, c) ==
  /\ c.ans.indexed => c.lo = All /\ ~c.ans.hasMore
  /\ ~c.ans.indexed => ChunkIs(d, c.ans, SearchedFrom(c), Last(c.prefix), c.since)
  /\ c.ans.hasMore => c.ans.nextKey <= Last(c.prefix)
AnsOK(d, c) ==
  c.ans = Pending \/ c.ans = Failed \/
    /\ c.op \notin {"counts", "tick"} => c.ans \in Pages
    /\ c.op \in {"counts", "tick"} => c.ans \in Counts
    /\ c.op = "refresh" => PageIs(d, c.ans, 0, LastKey, c.since)
    /\ c.op \in {"partition", "more"} => PageIs(d, c.ans, c.lo, c.hi, c.since)
    /\ c.op = "search" => SearchOK(d, c)

----------------------------------------------------------------------------
(* The inductive invariant, in parts. *)
ListTypes ==
  /\ db \in Stores /\ records \in Seq(Records) /\ hasMore \in BOOLEAN /\ nextKey \in Keys
  /\ from \in Keys /\ upto \in Keys /\ clean \in BOOLEAN /\ touched \subseteq Keys
  /\ active \in Prefixes \cup {All} /\ loading \in BOOLEAN /\ loadingMore \in BOOLEAN
  /\ stats \in (SUBSET Prefixes) \cup {Unknown}
ViewTypes ==
  /\ prefix \in Prefixes \cup {All} /\ mode \in BOOLEAN /\ busy \in BOOLEAN /\ swept \in BOOLEAN
  /\ results \in Seq(Records) \cup {NoList} /\ meta \in Metas \cup {NoMeta}
  /\ selected \in Keys \cup {NoKey} /\ deleteKey \in Keys \cup {NoKey}
  /\ deleteUserHash \in Users \cup {NoKey} /\ sinceSearch \subseteq Keys
AllOK(cs, d) ==
  /\ cs \in [Slots -> Requests \cup {Idle}]
  /\ \A s \in Slots : cs[s] # Idle => AskOK(cs[s]) /\ AnsOK(d, cs[s])
CallsOK == AllOK(calls, db)

(* One loadMore at a time; while the list is the one it was asked for, it starts
   where the list ends, and nothing written since its answer is unknown to the
   list. *)
In(cs, ops) == {s \in Slots : cs[s] # Idle /\ cs[s].op \in ops}
MoreOK ==
  /\ \A s, t \in In(calls, {"more"}) : s = t
  /\ \A s \in In(calls, {"more"}) :
       /\ loadingMore
       /\ calls[s].fresh => hasMore /\ calls[s].lo = nextKey /\ calls[s].since \subseteq touched
ListOK == clean => ListOf(db, records, hasMore, nextKey, from, upto, touched)

(* One form is busy at a time; the chunk that is on its way continues what the
   banner tells of, if that is still there. *)
FormsOK ==
  /\ \A s, t \in In(calls, Forms) : s = t
  /\ \A s \in In(calls, Forms) : busy
  /\ \A s \in In(calls, {"search"}) :
       Continues(calls[s]) /\ mode => meta = calls[s].was /\ calls[s].since \subseteq sinceSearch
ResultsOK ==
  /\ meta # NoMeta => MetaOK(meta)
  /\ BannerHonest
  /\ mode /\ meta # NoMeta /\ swept =>
       HitsOf(db, results, meta.hasMore, meta.nextKey, First(meta.prefix), Last(meta.prefix), sinceSearch)

(* What holds up a spinner. *)
Loads == {"refresh", "counts", "partition"}
LoadingOK == loading => In(calls, Loads) # {}
WaitingOK == (loadingMore => In(calls, {"more"}) # {}) /\ (busy => In(calls, Forms) # {})

ListInv == ListTypes /\ ListOK
SearchInv == ViewTypes /\ ResultsOK
WaitInv == MoreOK /\ FormsOK /\ WaitingOK /\ LoadingOK
IInv == ListInv /\ SearchInv /\ CallsOK /\ WaitInv

----------------------------------------------------------------------------
(* A set of numbers has a least one. *)
LEMMA LeastExists ==
  ASSUME NEW S, S \subseteq Nat, S # {} PROVE \E n \in S : \A m \in S : n <= m
<1> DEFINE Less == {p \in Nat \X Nat : p[1] < p[2]}
<1>1. IsWellFoundedOn(Less, Nat) BY NatLessThanWellFounded DEF OpToRel
<1>2. PICK n \in S : \A m \in S : ~(<<m, n>> \in Less) BY <1>1, WFMin
<1>3. \A m \in S : ~(m < n) BY <1>2
<1> QED BY <1>2, <1>3

----------------------------------------------------------------------------
(* The numbers of a set, in order: InOrder lists each of them once. *)

(* How many of a set are below a number tells where the number is. *)
Lower(S, k) == {j \in S : j < k}

LEMMA LowerGrows ==
  ASSUME NEW S, S \subseteq Nat, IsFiniteSet(S), NEW k \in S
  PROVE  /\ Cardinality(Lower(S, k)) \in 0..(Cardinality(S) - 1)
         /\ \A j \in S : j < k => Cardinality(Lower(S, j)) < Cardinality(Lower(S, k))
<1>1. Lower(S, k) \subseteq S /\ k \notin Lower(S, k) BY DEF Lower
<1>2. Cardinality(Lower(S, k)) <= Cardinality(S) /\ Lower(S, k) # S /\ IsFiniteSet(Lower(S, k))
  BY <1>1, FS_Subset
<1>3. Cardinality(Lower(S, k)) # Cardinality(S) BY <1>1, <1>2, FS_Subset
<1>4. Cardinality(S) \in Nat /\ Cardinality(Lower(S, k)) \in Nat BY <1>2, FS_CardinalityType
<1>5. ASSUME NEW j \in S, j < k PROVE Cardinality(Lower(S, j)) < Cardinality(Lower(S, k))
  <2>1. Lower(S, j) \subseteq Lower(S, k) /\ j \in Lower(S, k) /\ j \notin Lower(S, j)
    <3>1. j \in Nat /\ k \in Nat OBVIOUS
    <3>2. \A x \in Lower(S, j) : x \in Nat /\ x \in S /\ x < j BY DEF Lower
    <3>3. \A x \in Lower(S, j) : x \in S /\ x < k BY <3>1, <3>2, <1>5
    <3>4. Lower(S, j) \subseteq Lower(S, k) BY <3>3 DEF Lower
    <3>5. j \in Lower(S, k) BY <1>5 DEF Lower
    <3>6. j \notin Lower(S, j) BY <3>1, <3>2
    <3> QED BY <3>4, <3>5, <3>6
  <2>2. Cardinality(Lower(S, j)) <= Cardinality(Lower(S, k)) /\ IsFiniteSet(Lower(S, j))
    BY <2>1, <1>2, FS_Subset
  <2>3. Cardinality(Lower(S, j)) # Cardinality(Lower(S, k)) BY <2>1, <1>2, FS_Subset
  <2>4. Cardinality(Lower(S, j)) \in Nat BY <2>2, FS_CardinalityType
  <2> QED BY <2>2, <2>3, <2>4, <1>4
<1> QED BY <1>2, <1>3, <1>4, <1>5

LEMMA RankFills ==
  ASSUME NEW S, S \subseteq Nat, IsFiniteSet(S), NEW i \in 1..Cardinality(S)
  PROVE  \E k \in S : Cardinality(Lower(S, k)) = i - 1
<1> DEFINE n == Cardinality(S)
           T == 0..(n - 1)
           r == [k \in S |-> Cardinality(Lower(S, k))]
<1>1. n \in Nat BY FS_CardinalityType
<1>2. r \in [S -> T] BY LowerGrows
<1>3. ASSUME NEW j \in S, NEW k \in S, r[j] = r[k] PROVE j = k
  <2>1. j \in Nat /\ k \in Nat OBVIOUS
  <2>2. Cardinality(Lower(S, j)) = Cardinality(Lower(S, k)) /\ Cardinality(Lower(S, j)) \in Int
    <3>1. Cardinality(Lower(S, j)) \in 0..(n - 1) BY LowerGrows
    <3>2. Cardinality(Lower(S, j)) = Cardinality(Lower(S, k)) BY <1>3
    <3> QED BY <3>1, <3>2
  <2>3. ~(j < k)
    <3>1. \A x \in S : x < k => Cardinality(Lower(S, x)) < Cardinality(Lower(S, k)) BY LowerGrows
    <3> QED BY <3>1, <2>2
  <2>4. ~(k < j)
    <3>1. \A x \in S : x < j => Cardinality(Lower(S, x)) < Cardinality(Lower(S, j)) BY LowerGrows
    <3> QED BY <3>1, <2>2
  <2> QED BY <2>1, <2>3, <2>4
<1> HIDE DEF r
<1>4. DOMAIN r = S BY <1>2
<1>5. r \in Injection(S, T) BY <1>2, <1>3, <1>4 DEF Injection, IsInjective
<1>6. IsFiniteSet(T) /\ Cardinality(T) = n
  <2>1. 0 \in Int /\ n - 1 \in Int BY <1>1
  <2>2. IsFiniteSet(T) /\ Cardinality(T) = IF 0 > n - 1 THEN 0 ELSE n - 1 - 0 + 1 BY <2>1, FS_Interval
  <2> QED BY <2>2, <1>1
<1> HIDE DEF T
<1>7. r \in Surjection(S, T) BY <1>5, <1>6, FS_Injection
<1>8. i - 1 \in T BY <1>1 DEF T
<1>9. \E k \in S : r[k] = i - 1 BY <1>7, <1>8 DEF Surjection
<1> QED BY <1>9 DEF r

Nth(S, i) == CHOOSE k \in S : Cardinality(Lower(S, k)) = i - 1

LEMMA InOrderIs ==
  ASSUME NEW S, S \subseteq Nat, IsFiniteSet(S)
  PROVE  /\ InOrder(S) \in Seq(S) /\ Len(InOrder(S)) = Cardinality(S)
         /\ Cardinality(S) \in Nat
         /\ \A i \in 1..Cardinality(S), j \in 1..Cardinality(S) :
              i < j => InOrder(S)[i] < InOrder(S)[j]
         /\ \A k \in S : \E i \in 1..Cardinality(S) : InOrder(S)[i] = k
<1> DEFINE n == Cardinality(S)
           f == InOrder(S)
<1>1. n \in Nat BY FS_CardinalityType
<1>2. ASSUME NEW i \in 1..n
      PROVE  Nth(S, i) \in S /\ Cardinality(Lower(S, Nth(S, i))) = i - 1
  BY RankFills DEF Nth
<1>3. f = [i \in 1..n |-> Nth(S, i)] BY DEF InOrder, Nth, Lower
<1> HIDE DEF n, f
<1>4. f \in [1..n -> S] /\ \A i \in 1..n : f[i] \in S /\ Cardinality(Lower(S, f[i])) = i - 1
  BY <1>2, <1>3
<1>5. f \in Seq(S) /\ Len(f) = n BY <1>1, <1>4
<1>6. ASSUME NEW i \in 1..n, NEW j \in 1..n, i < j PROVE f[i] < f[j]
  <2>1. SUFFICES ASSUME ~(f[i] < f[j]) PROVE FALSE OBVIOUS
  <2>2. f[i] \in S /\ f[j] \in S /\ f[i] \in Nat /\ f[j] \in Nat BY <1>4
  <2>3. CASE f[j] < f[i]
    <3>1. Cardinality(Lower(S, f[j])) < Cardinality(Lower(S, f[i])) BY <2>2, <2>3, LowerGrows
    <3> QED BY <3>1, <1>4, <1>6
  <2>4. CASE f[j] = f[i] BY <2>4, <1>4, <1>6
  <2> QED BY <2>1, <2>2, <2>3, <2>4
<1>7. ASSUME NEW k \in S PROVE \E i \in 1..n : f[i] = k
  <2>1. Cardinality(Lower(S, k)) \in 0..(n - 1) BY LowerGrows DEF n
  <2> DEFINE i == Cardinality(Lower(S, k)) + 1
  <2>2. i \in 1..n BY <2>1, <1>1
  <2>3. f[i] \in S /\ Cardinality(Lower(S, f[i])) = Cardinality(Lower(S, k)) BY <2>1, <2>2, <1>4
  <2> HIDE DEF i
  <2>4. f[i] \in Nat /\ k \in Nat BY <2>3
  <2>5. ~(f[i] < k)
    <3>1. \A x \in S : x < k => Cardinality(Lower(S, x)) < Cardinality(Lower(S, k)) BY LowerGrows
    <3>2. f[i] < k => Cardinality(Lower(S, f[i])) < Cardinality(Lower(S, k)) BY <3>1, <2>3
    <3>3. Cardinality(Lower(S, k)) \in Int BY <2>1
    <3> QED BY <3>2, <3>3, <2>3
  <2>6. ~(k < f[i])
    <3>1. \A x \in S : x < f[i] => Cardinality(Lower(S, x)) < Cardinality(Lower(S, f[i]))
      BY <2>3, LowerGrows
    <3> QED BY <3>1, <2>1, <2>3
  <2> QED BY <2>2, <2>4, <2>5, <2>6
<1> QED BY <1>1, <1>5, <1>6, <1>7 DEF n, f

----------------------------------------------------------------------------
(* The keys, and the ends of a partition's. *)
LEMMA MulMono ==
  ASSUME NEW a \in Int, NEW b \in Int, NEW d \in Nat, a <= b PROVE a * d <= b * d
OBVIOUS

LEMMA KeyFacts ==
  /\ PartSize \in Nat \ {0} /\ PrefixCount \in Nat \ {0} /\ KeyCount \in Nat \ {0}
  /\ KeyCount = PrefixCount * PartSize /\ UserCount <= KeyCount
<1>1. PartSize \in Nat \ {0} BY WidthAssumption DEF PartSize
<1>2. 1 * PartSize <= PrefixCount * PartSize BY <1>1, WidthAssumption, MulMono
<1>3. 1 * UserCount <= ItemCount * UserCount BY WidthAssumption, MulMono
<1>4. UserCount <= PartSize BY <1>3, WidthAssumption DEF PartSize
<1>5. KeyCount \in Nat /\ KeyCount = PrefixCount * PartSize BY <1>1, WidthAssumption DEF KeyCount
<1> QED BY <1>1, <1>2, <1>4, <1>5, WidthAssumption

LEMMA KeysAre ==
  /\ Keys \subseteq Nat /\ 0 \in Keys /\ LastKey \in Keys /\ Users \subseteq Keys
  /\ \A k \in Keys : 0 <= k /\ k <= LastKey
  /\ \A S \in SUBSET Keys : IsFiniteSet(S) /\ S \subseteq Nat
<1>1. Keys \subseteq Nat /\ 0 \in Keys /\ LastKey \in Keys BY KeyFacts DEF Keys, LastKey
<1>2. Users \subseteq Keys BY KeyFacts, WidthAssumption DEF Users, Keys
<1>3. \A k \in Keys : 0 <= k /\ k <= LastKey BY KeyFacts DEF Keys, LastKey
<1>4. 0 \in Int /\ KeyCount - 1 \in Int BY KeyFacts
<1>5. IsFiniteSet(Keys) BY <1>4, FS_Interval DEF Keys
<1>6. ASSUME NEW S \in SUBSET Keys PROVE IsFiniteSet(S) BY <1>5, FS_Subset
<1> QED BY <1>1, <1>2, <1>3, <1>6

LEMMA EndsAre ==
  ASSUME NEW p \in Prefixes \cup {All} PROVE First(p) \in Keys /\ Last(p) \in Keys
<1>1. CASE p = All BY <1>1, KeysAre DEF First, Last
<1>2. CASE p # All
  <2>1. p \in Int /\ 0 <= p /\ p + 1 <= PrefixCount BY <1>2, KeyFacts DEF Prefixes
  <2>2. (p + 1) * PartSize <= PrefixCount * PartSize BY <2>1, KeyFacts, MulMono
  <2>3. (p + 1) * PartSize = p * PartSize + PartSize /\ p * PartSize \in Nat BY <2>1, KeyFacts
  <2>4. First(p) = p * PartSize /\ Last(p) = (p + 1) * PartSize - 1
    BY <1>2 DEF First, Last, PartitionStart, PartitionEnd
  <2> QED BY <2>2, <2>3, <2>4, KeyFacts DEF Keys
<1> QED BY <1>1, <1>2

LEMMA PartsOfKey ==
  ASSUME NEW k \in Keys PROVE PrefixOf(k) \in Prefixes /\ UserHashOf(k) \in Users
<1>1. k \in Nat BY KeysAre
<1>2. k \div PartSize \in Int /\ k \div ItemCount \in Int BY <1>1, KeyFacts, WidthAssumption
<1>3. \A x \in Int : x % PrefixCount \in 0..(PrefixCount - 1) BY KeyFacts
<1>4. \A x \in Int : x % UserCount \in 0..(UserCount - 1) BY WidthAssumption
<1> QED BY <1>2, <1>3, <1>4 DEF PrefixOf, UserHashOf, Prefixes, Users

----------------------------------------------------------------------------
(* What the server answers. *)
LEMMA StoredIs ==
  ASSUME NEW d \in Stores, NEW lo \in Keys, NEW hi \in Keys, NEW S, S \subseteq Stored(d, lo, hi)
  PROVE  LET f == InOrder(S)
         IN  /\ f \in Seq(Keys) /\ Len(f) = Cardinality(S) /\ Len(f) \in Nat
             /\ DOMAIN f = 1..Len(f) /\ IsFiniteSet(S)
             /\ \A i \in 1..Len(f) : /\ f[i] \in S /\ f[i] \in Keys /\ lo <= f[i] /\ f[i] <= hi
                                     /\ d[f[i]] \in Values
             /\ \A i \in 1..Len(f), j \in 1..Len(f) : i < j => f[i] < f[j]
             /\ \A k \in S : \E i \in 1..Len(f) : f[i] = k
<1> DEFINE f == InOrder(S)
<1>1. S \in SUBSET Keys BY DEF Stored
<1>2. IsFiniteSet(S) /\ S \subseteq Nat BY <1>1, KeysAre
<1>3. /\ f \in Seq(S) /\ Len(f) = Cardinality(S) /\ Cardinality(S) \in Nat
      /\ \A i \in 1..Cardinality(S), j \in 1..Cardinality(S) : i < j => f[i] < f[j]
      /\ \A k \in S : \E i \in 1..Cardinality(S) : f[i] = k
  BY <1>2, InOrderIs
<1> HIDE DEF f
<1>4. DOMAIN f = 1..Len(f) /\ \A i \in 1..Len(f) : f[i] \in S BY <1>3
<1>5. f \in Seq(Keys)
  <2>1. f \in [1..Len(f) -> Keys] BY <1>1, <1>3, <1>4
  <2> QED BY <2>1, <1>3
<1>6. \A k \in S : k \in Keys /\ lo <= k /\ k <= hi /\ d[k] \in Values BY DEF Stored, Stores
<1>7. \A i \in 1..Len(f) : /\ f[i] \in S /\ f[i] \in Keys /\ lo <= f[i] /\ f[i] <= hi
                           /\ d[f[i]] \in Values
  BY <1>4, <1>6
<1> QED BY <1>2, <1>3, <1>4, <1>5, <1>7 DEF f

(* The records of some keys, and the list of them. *)
LEMMA RecordsAre ==
  ASSUME NEW d \in Stores, NEW keys \in Seq(Keys), \A i \in 1..Len(keys) : d[keys[i]] \in Values
  PROVE  LET r == AsRecords(d, keys)
         IN  /\ r \in Seq(Records) /\ DOMAIN r = 1..Len(keys) /\ Len(r) = Len(keys)
             /\ \A i \in 1..Len(keys) : r[i].key = keys[i] /\ r[i].value = d[keys[i]]
<1> DEFINE r == AsRecords(d, keys)
<1>1. DOMAIN keys = 1..Len(keys) /\ Len(keys) \in Nat /\ \A i \in 1..Len(keys) : keys[i] \in Keys OBVIOUS
<1>2. r = [i \in 1..Len(keys) |-> [key |-> keys[i], value |-> d[keys[i]]]] BY <1>1 DEF AsRecords
<1>3. \A i \in 1..Len(keys) : [key |-> keys[i], value |-> d[keys[i]]] \in Records BY <1>1 DEF Records
<1> HIDE DEF r
<1>4. r \in [1..Len(keys) -> Records] BY <1>2, <1>3
<1>5. r \in Seq(Records) /\ Len(r) = Len(keys) /\ DOMAIN r = 1..Len(keys) BY <1>1, <1>4
<1>6. \A i \in 1..Len(keys) : r[i].key = keys[i] /\ r[i].value = d[keys[i]] BY <1>2
<1> QED BY <1>5, <1>6 DEF r

(* The first m of the stored keys, and the one after them. *)
LEMMA PageFrom ==
  ASSUME NEW d \in Stores, NEW lo \in Keys, NEW hi \in Keys, NEW f, f = InOrder(Stored(d, lo, hi)),
         NEW m \in 0..Len(f), NEW keys \in Seq(Keys), Len(keys) = m,
         \A i \in 1..m : keys[i] = f[i],
         NEW more \in BOOLEAN, more <=> m < Len(f),
         NEW next, next = (IF more THEN f[m + 1] ELSE 0)
  PROVE  /\ AsRecords(d, keys) \in Seq(Records) /\ next \in Keys
         /\ ListOf(d, AsRecords(d, keys), more, next, lo, hi, {})
<1> DEFINE S == Stored(d, lo, hi)
           r == AsRecords(d, keys)
<1>1. /\ f \in Seq(Keys) /\ Len(f) \in Nat
      /\ \A i \in 1..Len(f) : /\ f[i] \in S /\ f[i] \in Keys /\ lo <= f[i] /\ f[i] <= hi
                              /\ d[f[i]] \in Values
      /\ \A i \in 1..Len(f), j \in 1..Len(f) : i < j => f[i] < f[j]
      /\ \A k \in S : \E i \in 1..Len(f) : f[i] = k
  BY StoredIs
<1>2. m \in Nat /\ 1..m \subseteq 1..Len(f) BY <1>1
<1>3. \A i \in 1..Len(keys) : keys[i] \in Keys /\ d[keys[i]] \in Values BY <1>1, <1>2
<1>4. r \in Seq(Records) /\ DOMAIN r = 1..m /\ \A i \in 1..m : r[i].key = f[i] /\ r[i].value = d[f[i]]
  BY <1>3, RecordsAre
<1>5. more => m + 1 \in 1..Len(f) BY <1>2, <1>1
<1>6. next \in Keys BY <1>5, <1>1, KeysAre
<1>7. \A i \in 1..Len(f) : f[i] \in Nat BY <1>1, KeysAre
<1> HIDE DEF r
<1>8. Ascending(r) BY <1>1, <1>2, <1>4 DEF Ascending
<1>9. Starts(r, more, next, lo)
  <2>1. ASSUME NEW i \in 1..m PROVE lo <= f[i] /\ (more => f[i] < next)
    <3>1. i \in 1..Len(f) BY <1>2
    <3>2. more => f[i] < f[m + 1]
      <4>1. SUFFICES ASSUME more PROVE f[i] < f[m + 1] OBVIOUS
      <4>2. m + 1 \in 1..Len(f) /\ i < m + 1 BY <4>1, <1>5, <1>2
      <4> QED BY <4>2, <3>1, <1>1
    <3> QED BY <3>1, <3>2, <1>1
  <2>2. more => lo <= next BY <1>5, <1>1
  <2> QED BY <2>1, <2>2, <1>4 DEF Starts
<1>10. Faithful(d, r, {}) BY <1>4 DEF Faithful
<1>11. Complete(d, r, more, next, lo, hi, {})
  <2>1. SUFFICES ASSUME NEW k \in Keys, d[k] # NoValue, lo <= k, k < Reached(more, next, hi)
                 PROVE  \E i \in 1..m : f[i] = k
    BY <1>4 DEF Complete, Shows
  <2>2. k \in Nat /\ lo \in Nat /\ hi \in Nat BY KeysAre
  <2>3. k <= hi
    <3>1. CASE more
      <4>1. next = f[m + 1] /\ m + 1 \in 1..Len(f) BY <3>1, <1>5
      <4>2. next <= hi /\ next \in Nat BY <4>1, <1>1, <1>7
      <4>3. k < next BY <2>1, <3>1 DEF Reached
      <4> QED BY <4>2, <4>3, <2>2
    <3>2. CASE ~more BY <3>2, <2>1, <2>2 DEF Reached
    <3> QED BY <3>1, <3>2
  <2>4. k \in S BY <2>1, <2>3 DEF Stored
  <2>5. PICK i \in 1..Len(f) : f[i] = k BY <2>4, <1>1
  <2>6. i <= m
    <3>1. CASE more
      <4>1. next = f[m + 1] /\ m + 1 \in 1..Len(f) BY <3>1, <1>5
      <4>2. f[i] < f[m + 1] BY <4>1, <2>1, <2>5, <3>1 DEF Reached
      <4>3. i < m + 1
        <5>1. SUFFICES ASSUME m + 1 <= i PROVE FALSE BY <1>2
        <5>2. f[i] \in Nat /\ f[m + 1] \in Nat BY <4>1, <1>7
        <5>3. i = m + 1 \/ m + 1 < i BY <5>1, <1>2
        <5>4. m + 1 < i => f[m + 1] < f[i] BY <4>1, <1>1
        <5> QED BY <5>2, <5>3, <5>4, <4>2
      <4> QED BY <4>3, <1>2
    <3>2. CASE ~more BY <3>2, <1>1, <1>2
    <3> QED BY <3>1, <3>2
  <2> QED BY <2>5, <2>6, <1>2
<1> QED BY <1>4, <1>6, <1>8, <1>9, <1>10, <1>11 DEF ListOf, r

(* A page is what the database has from its first key to its last. *)
LEMMA ScanIs ==
  ASSUME NEW d \in Stores, NEW lo \in Keys, NEW hi \in Keys
  PROVE  /\ ScanRecordsBounded(d, lo, hi) \in Pages
         /\ PageIs(d, ScanRecordsBounded(d, lo, hi), lo, hi, {})
<1> DEFINE f == InOrder(Stored(d, lo, hi))
           more == Len(f) > PageLimit
           p == ScanRecordsBounded(d, lo, hi)
<1>1. f \in Seq(Keys) /\ Len(f) \in Nat BY StoredIs
<1>2. PageLimit \in Nat BY ServerAssumption
<1>3. CASE more
  <2> DEFINE keys == SubSeq(f, 1, PageLimit)
  <2>1. p = Page(AsRecords(d, keys), PageLimit, TRUE, f[PageLimit + 1])
    BY <1>3 DEF ScanRecordsBounded
  <2> HIDE DEF p, f
  <2>2. PageLimit \in 0..Len(f) /\ PageLimit < Len(f) BY <1>1, <1>2, <1>3
  <2>3. keys \in Seq(Keys) /\ Len(keys) = PageLimit /\ \A i \in 1..PageLimit : keys[i] = f[i]
    BY <1>1, <1>2, <2>2
  <2> HIDE DEF keys
  <2>4. /\ AsRecords(d, keys) \in Seq(Records) /\ f[PageLimit + 1] \in Keys
        /\ ListOf(d, AsRecords(d, keys), TRUE, f[PageLimit + 1], lo, hi, {})
    BY <2>2, <2>3, PageFrom DEF f
  <2>5. /\ p \in Pages /\ p.records = AsRecords(d, keys) /\ p.hasMore = TRUE
        /\ p.nextKey = f[PageLimit + 1]
    BY <2>1, <2>4, <1>2 DEF Page, Pages
  <2>6. PageIs(d, p, lo, hi, {}) BY <2>4, <2>5 DEF PageIs
  <2> QED BY <2>5, <2>6 DEF p
<1>4. CASE ~more
  <2>1. p = Page(AsRecords(d, f), Len(f), FALSE, 0) BY <1>4 DEF ScanRecordsBounded
  <2> HIDE DEF p, f
  <2>2. Len(f) \in 0..Len(f) /\ ~(Len(f) < Len(f)) BY <1>1
  <2>3. /\ AsRecords(d, f) \in Seq(Records)
        /\ ListOf(d, AsRecords(d, f), FALSE, 0, lo, hi, {})
    BY <2>2, <1>1, PageFrom DEF f
  <2>a. 0 \in Keys BY KeysAre
  <2>4. p \in Pages /\ p.records = AsRecords(d, f) /\ p.hasMore = FALSE /\ p.nextKey = 0
    BY <2>1, <2>3, <1>1, <2>a DEF Page, Pages
  <2>5. PageIs(d, p, lo, hi, {}) BY <2>3, <2>4 DEF PageIs
  <2> QED BY <2>4, <2>5 DEF p
<1> QED BY <1>3, <1>4

(* A chunk of a search: the hits among the first m of the stored keys. *)
LEMMA ChunkFrom ==
  ASSUME NEW d \in Stores, NEW lo \in Keys, NEW hi \in Keys, NEW f, f = InOrder(Stored(d, lo, hi)),
         NEW m \in 0..Len(f), NEW H, H = Matching(d, {f[i] : i \in 1..m}),
         NEW more \in BOOLEAN, more <=> m < Len(f),
         NEW next, next = (IF more THEN f[m + 1] ELSE 0)
  PROVE  /\ AsRecords(d, InOrder(H)) \in Seq(Records) /\ next \in Keys
         /\ more => lo <= next /\ next <= hi
         /\ HitsOf(d, AsRecords(d, InOrder(H)), more, next, lo, hi, {})
<1> DEFINE S == Stored(d, lo, hi)
           g == InOrder(H)
           r == AsRecords(d, g)
<1>1. /\ f \in Seq(Keys) /\ Len(f) \in Nat
      /\ \A i \in 1..Len(f) : /\ f[i] \in S /\ f[i] \in Keys /\ lo <= f[i] /\ f[i] <= hi
                              /\ d[f[i]] \in Values
      /\ \A i \in 1..Len(f), j \in 1..Len(f) : i < j => f[i] < f[j]
      /\ \A k \in S : \E i \in 1..Len(f) : f[i] = k
  BY StoredIs
<1>2. m \in Nat /\ 1..m \subseteq 1..Len(f) BY <1>1
<1>3. \A i \in 1..Len(f) : f[i] \in Nat BY <1>1, KeysAre
<1>4. more => m + 1 \in 1..Len(f) /\ next = f[m + 1] BY <1>2, <1>1
<1>5. next \in Keys /\ (more => lo <= next /\ next <= hi) BY <1>4, <1>1, KeysAre
<1>6. H \subseteq S /\ \A k \in H : d[k] \in Hits /\ \E i \in 1..m : f[i] = k
  BY <1>1, <1>2 DEF Matching
<1>7. /\ g \in Seq(Keys) /\ Len(g) \in Nat
      /\ \A i \in 1..Len(g) : g[i] \in H /\ d[g[i]] \in Values
      /\ \A k \in H : \E i \in 1..Len(g) : g[i] = k
  <2>1. H \subseteq Stored(d, lo, hi) BY <1>6
  <2>2. g \in Seq(Keys) /\ Len(g) \in Nat BY <2>1, StoredIs
  <2>3. \A i \in 1..Len(g) : g[i] \in H /\ d[g[i]] \in Values BY <2>1, StoredIs
  <2>4. \A k \in H : \E i \in 1..Len(g) : g[i] = k
    <3>1. IsFiniteSet(H) /\ Len(g) = Cardinality(H) BY <2>1, StoredIs
    <3>2. H \subseteq Nat
      <4>1. H \subseteq Keys BY <1>1, <1>2, <1>6
      <4> QED BY <4>1, KeysAre
    <3> QED BY <3>1, <3>2, InOrderIs
  <2> QED BY <2>2, <2>3, <2>4
<1> HIDE DEF g, S
<1>8. r \in Seq(Records) /\ DOMAIN r = 1..Len(g) /\ \A i \in 1..Len(g) : r[i].key = g[i]
  BY <1>7, RecordsAre
<1> HIDE DEF r
<1>9. Starts(r, more, next, lo)
  <2>1. ASSUME NEW i \in 1..Len(g) PROVE lo <= g[i] /\ (more => g[i] < next)
    <3>1. PICK j \in 1..m : f[j] = g[i] BY <1>6, <1>7
    <3>2. j \in 1..Len(f) BY <1>2
    <3>3. more => f[j] < f[m + 1]
      <4>1. SUFFICES ASSUME more PROVE f[j] < f[m + 1] OBVIOUS
      <4>2. m + 1 \in 1..Len(f) /\ j < m + 1 BY <4>1, <1>4, <1>2
      <4> QED BY <4>2, <3>2, <1>1
    <3> QED BY <3>1, <3>2, <3>3, <1>1, <1>4
  <2> QED BY <2>1, <1>5, <1>8 DEF Starts
<1>10. Selects(d, r, more, next, lo, hi, {})
  <2>1. SUFFICES ASSUME NEW k \in Keys, lo <= k, k < Reached(more, next, hi)
                 PROVE  d[k] \in Hits <=> \E i \in 1..Len(g) : g[i] = k
    BY <1>8 DEF Selects, Shows
  <2>2. k \in Nat /\ lo \in Nat /\ hi \in Nat BY KeysAre
  <2>3. k <= hi
    <3>1. CASE more
      <4>1. k < next /\ next <= hi /\ next \in Nat BY <3>1, <2>1, <1>5, KeysAre DEF Reached
      <4> QED BY <4>1, <2>2
    <3>2. CASE ~more BY <3>2, <2>1, <2>2 DEF Reached
    <3> QED BY <3>1, <3>2
  <2>4. ASSUME d[k] \in Hits PROVE \E i \in 1..Len(g) : g[i] = k
    <3>1. d[k] # NoValue BY <2>4, ServerAssumption DEF Hits, Values
    <3>2. k \in S BY <2>1, <2>3, <3>1 DEF Stored, S
    <3>3. PICK i \in 1..Len(f) : f[i] = k BY <3>2, <1>1
    <3>4. i <= m
      <4>1. CASE more
        <5>1. f[i] < f[m + 1] /\ m + 1 \in 1..Len(f) BY <4>1, <1>4, <2>1, <3>3 DEF Reached
        <5>2. f[i] \in Nat /\ f[m + 1] \in Nat BY <5>1, <1>3
        <5>3. m + 1 < i => f[m + 1] < f[i] BY <5>1, <1>1
        <5> QED BY <5>1, <5>2, <5>3, <1>2
      <4>2. CASE ~more BY <4>2, <1>1, <1>2
      <4> QED BY <4>1, <4>2
    <3>5. k \in H BY <3>3, <3>4, <2>4, <1>2 DEF Matching
    <3> QED BY <3>5, <1>7
  <2>5. ASSUME NEW i \in 1..Len(g), g[i] = k PROVE d[k] \in Hits BY <2>5, <1>6, <1>7
  <2> QED BY <2>4, <2>5
<1> QED BY <1>5, <1>8, <1>9, <1>10 DEF HitsOf, r, g

(* The search reads on from where it was to continue. *)
LEMMA ChunkScanned ==
  ASSUME NEW d \in Stores, NEW lo \in Keys, NEW hi \in Keys
  PROVE  LET p == ScanSearchChunk(d, lo, hi)
         IN  /\ p \in Pages /\ p.indexed = FALSE
             /\ p.hasMore => lo <= p.nextKey /\ p.nextKey <= hi
             /\ ChunkIs(d, p, lo, hi, {})
<1> DEFINE f == InOrder(Stored(d, lo, hi))
           hits(n) == Matching(d, {f[i] : i \in 1..n})
           stops == {Len(f)} \cup {n \in 1..Len(f) :
                      n = MaxScan \/ Cardinality(hits(n)) = MatchLimit}
           m == CHOOSE n \in stops : \A o \in stops : n <= o
           more == m < Len(f)
           next == IF more THEN f[m + 1] ELSE 0
           r == AsRecords(d, InOrder(hits(m)))
           p == ScanSearchChunk(d, lo, hi)
<1>1. p = Page(r, m, more, next) BY DEF ScanSearchChunk
<1>2. Len(f) \in Nat BY StoredIs
<1>3. stops \subseteq 0..Len(f) /\ stops # {}
  <2> HIDE DEF f, hits
  <2> QED BY <1>2
<1>4. m \in 0..Len(f)
  <2> HIDE DEF f, stops
  <2>1. stops \subseteq Nat BY <1>2, <1>3
  <2>2. \E n \in stops : \A o \in stops : n <= o BY <2>1, <1>3, LeastExists
  <2>3. m \in stops BY <2>2
  <2> QED BY <2>3, <1>3
<1> HIDE DEF m, p, f
<1>5. /\ r \in Seq(Records) /\ next \in Keys
      /\ more => lo <= next /\ next <= hi
      /\ HitsOf(d, r, more, next, lo, hi, {})
  <2>1. more \in BOOLEAN /\ m \in Nat BY <1>4, <1>2
  <2> QED BY <2>1, <1>4, ChunkFrom DEF f
<1> HIDE DEF r, next, more
<1>6. more \in BOOLEAN /\ m \in Nat BY <1>4, <1>2 DEF more
<1>7. /\ p \in Pages /\ p.records = r /\ p.hasMore = more /\ p.nextKey = next /\ p.indexed = FALSE
  BY <1>1, <1>5, <1>6 DEF Page, Pages
<1> QED BY <1>5, <1>7 DEF ChunkIs, p

LEMMA SearchIs ==
  ASSUME NEW d \in Stores, NEW x \in Prefixes \cup {All}, NEW start \in Keys \cup {All},
         start = All \/ (First(x) <= start /\ start <= Last(x))
  PROVE  LET p == SearchRecords(d, x, start)
         IN  /\ p \in Pages
             /\ p.indexed => start = All /\ ~p.hasMore
             /\ ~p.indexed => ChunkIs(d, p, IF start = All THEN First(x) ELSE start, Last(x), {})
             /\ p.hasMore => p.nextKey <= Last(x)
<1> DEFINE p == SearchRecords(d, x, start)
<1>1. First(x) \in Keys /\ Last(x) \in Keys BY EndsAre
<1>2. CASE start = All /\ Indexed(d, x) # {}
  <2> DEFINE S == Indexed(d, x)
             f == InOrder(S)
             n == IF Len(f) > MatchLimit THEN MatchLimit ELSE Len(f)
             keys == SubSeq(f, 1, n)
             q == Page(AsRecords(d, keys), n, FALSE, 0)
  <2>1. p = [q EXCEPT !.indexed = TRUE] BY <1>2 DEF SearchRecords
  <2>2. S \subseteq Stored(d, First(x), Last(x)) BY DEF Indexed
  <2>3. f \in Seq(Keys) /\ Len(f) \in Nat /\ \A i \in 1..Len(f) : d[f[i]] \in Values
    BY <1>1, <2>2, StoredIs
  <2> HIDE DEF p, S, f
  <2>4. n \in Nat /\ n <= Len(f)
    <3>1. MatchLimit \in Nat BY ServerAssumption
    <3> QED BY <3>1, <2>3
  <2> HIDE DEF n
  <2>5. keys \in Seq(Keys) /\ Len(keys) = n /\ \A i \in 1..n : keys[i] = f[i] BY <2>3, <2>4
  <2>6. \A i \in 1..Len(keys) : d[keys[i]] \in Values BY <2>3, <2>4, <2>5
  <2> HIDE DEF keys
  <2>7. AsRecords(d, keys) \in Seq(Records) BY <2>5, <2>6, RecordsAre
  <2>8. q \in Pages /\ q.hasMore = FALSE
    <3>1. 0 \in Keys BY KeysAre
    <3> QED BY <2>4, <2>7, <3>1 DEF Page, Pages
  <2> HIDE DEF q
  <2>9. p \in Pages /\ p.indexed /\ p.hasMore = FALSE BY <2>1, <2>8 DEF Pages
  <2> QED BY <2>9, <1>2 DEF p
<1>3. CASE ~(start = All /\ Indexed(d, x) # {})
  <2> DEFINE lo == IF start = All THEN First(x) ELSE start
  <2>1. All \notin Keys BY ServerAssumption
  <2>2. First(x) \in Int /\ Last(x) \in Int /\ (start # All => start \in Int)
    <3>1. Keys \subseteq Int BY KeysAre
    <3> QED BY <1>1, <3>1
  <2>3. p = ScanSearchChunk(d, lo, Last(x)) BY <1>3, <2>2 DEF SearchRecords
  <2>4. lo \in Keys BY <1>1
  <2> HIDE DEF p, lo
  <2>5. /\ p \in Pages /\ p.indexed = FALSE /\ ChunkIs(d, p, lo, Last(x), {})
        /\ p.hasMore => p.nextKey <= Last(x)
    BY <2>3, <2>4, <1>1, ChunkScanned
  <2> QED BY <2>5 DEF p, lo
<1> QED BY <1>2, <1>3

----------------------------------------------------------------------------
(* What is written makes answers and lists older, but not wrong. *)
Changed(d, e) == {k \in Keys : e[k] # d[k]}

LEMMA ListAges ==
  ASSUME NEW d, NEW e, NEW recs \in Seq(Records), NEW more, NEW next, NEW lo, NEW hi, NEW T,
         ListOf(d, recs, more, next, lo, hi, T)
  PROVE  ListOf(e, recs, more, next, lo, hi, T \cup Changed(d, e))
<1>1. \A k \in Keys \ (T \cup Changed(d, e)) : k \in Keys \ T /\ e[k] = d[k] BY DEF Changed
<1>2. \A i \in DOMAIN recs : recs[i].key \in Keys
  <2>1. \A i \in DOMAIN recs : recs[i] \in Records OBVIOUS
  <2> QED BY <2>1 DEF Records
<1>3. Faithful(e, recs, T \cup Changed(d, e)) BY <1>1, <1>2 DEF ListOf, Faithful
<1>4. Complete(e, recs, more, next, lo, hi, T \cup Changed(d, e)) BY <1>1 DEF ListOf, Complete
<1> QED BY <1>3, <1>4 DEF ListOf

LEMMA HitsAge ==
  ASSUME NEW d, NEW e, NEW recs, NEW more, NEW next, NEW lo, NEW hi, NEW T,
         HitsOf(d, recs, more, next, lo, hi, T)
  PROVE  HitsOf(e, recs, more, next, lo, hi, T \cup Changed(d, e))
<1>1. \A k \in Keys \ (T \cup Changed(d, e)) : k \in Keys \ T /\ e[k] = d[k] BY DEF Changed
<1>2. Selects(e, recs, more, next, lo, hi, T \cup Changed(d, e)) BY <1>1 DEF HitsOf, Selects
<1> QED BY <1>2 DEF HitsOf

(* What else is known of a request does not depend on its answer. *)
SameAsk(c, e) ==
  e.op = c.op /\ e.prefix = c.prefix /\ e.lo = c.lo /\ e.hi = c.hi /\ e.was = c.was /\ e.ask = c.ask

LEMMA AskSame ==
  ASSUME NEW c, NEW e, SameAsk(c, e), AskOK(c) PROVE AskOK(e)
BY DEF SameAsk, AskOK, Continues

LEMMA AnsAges ==
  ASSUME NEW d, NEW x, NEW c, NEW e, SameAsk(c, e), AnsOK(d, c), e.ans = c.ans,
         e.since = c.since \cup Changed(d, x)
  PROVE  AnsOK(x, e)
<1>1. CASE c.ans = Pending \/ c.ans = Failed BY <1>1 DEF AnsOK
<1>2. CASE ~(c.ans = Pending \/ c.ans = Failed)
  <2>1. /\ c.op \notin {"counts", "tick"} => c.ans \in Pages
        /\ c.op \in {"counts", "tick"} => c.ans \in Counts
        /\ c.op = "refresh" => PageIs(d, c.ans, 0, LastKey, c.since)
        /\ c.op \in {"partition", "more"} => PageIs(d, c.ans, c.lo, c.hi, c.since)
        /\ c.op = "search" => SearchOK(d, c)
    BY <1>2 DEF AnsOK
  <2>2. c.ans \in Pages => c.ans.records \in Seq(Records) BY DEF Pages
  <2>3. c.op = "refresh" => PageIs(x, e.ans, 0, LastKey, e.since)
    BY <2>1, <2>2, ListAges DEF PageIs
  <2>4. c.op \in {"partition", "more"} => PageIs(x, e.ans, e.lo, e.hi, e.since)
    BY <2>1, <2>2, ListAges, SMTT(15), ZenonT(20) DEF PageIs, SameAsk
  <2>5. c.op = "search" => SearchOK(x, e)
    <3>1. SUFFICES ASSUME c.op = "search" PROVE SearchOK(x, e) OBVIOUS
    <3>2. SearchOK(d, c) BY <2>1, <3>1
    <3>3. SearchedFrom(e) = SearchedFrom(c) /\ e.prefix = c.prefix /\ e.lo = c.lo
      BY DEF SameAsk, SearchedFrom
    <3>4. ~c.ans.indexed => ChunkIs(x, e.ans, SearchedFrom(e), Last(e.prefix), e.since)
      BY <3>2, <3>3, HitsAge DEF SearchOK, ChunkIs
    <3> QED BY <3>2, <3>3, <3>4 DEF SearchOK
  <2>6. e.op = c.op BY DEF SameAsk
  <2> QED BY <2>1, <2>3, <2>4, <2>5, <2>6 DEF AnsOK
<1> QED BY <1>1, <1>2

LEMMA AnsSame ==
  ASSUME NEW d, NEW c, NEW e, SameAsk(c, e), AnsOK(d, c), e.ans = c.ans, e.since = c.since
  PROVE  AnsOK(d, e)
<1>1. Changed(d, d) = {} BY DEF Changed
<1>2. e.since = c.since \cup Changed(d, d) BY <1>1
<1> QED BY <1>2, AnsAges

----------------------------------------------------------------------------
(* How the requests change: one is put in a slot, a list is replaced, something
   is written. *)
Good(d, c) == c = Idle \/ (c \in Requests /\ AskOK(c) /\ AnsOK(d, c))

LEMMA PutOK ==
  ASSUME NEW cs, NEW d, AllOK(cs, d), NEW s \in Slots, NEW c, Good(d, c)
  PROVE  AllOK([cs EXCEPT ![s] = c], d)
<1> DEFINE ds == [cs EXCEPT ![s] = c]
<1>1. ds \in [Slots -> Requests \cup {Idle}] BY DEF AllOK, Good
<1>2. \A t \in Slots : ds[t] = IF t = s THEN c ELSE cs[t] BY DEF AllOK
<1> HIDE DEF ds
<1>3. \A t \in Slots : ds[t] # Idle => AskOK(ds[t]) /\ AnsOK(d, ds[t]) BY <1>2 DEF AllOK, Good
<1> QED BY <1>1, <1>3 DEF AllOK, ds

LEMMA OlderRequest ==
  ASSUME NEW c \in Requests, NEW K \in SUBSET Keys, NEW e, e = [c EXCEPT !.since = @ \cup K]
  PROVE  /\ e \in Requests /\ SameAsk(c, e) /\ e.ans = c.ans /\ e.since = c.since \cup K
         /\ e.fresh = c.fresh
<1>1. c.since \cup K \in SUBSET Keys BY DEF Requests
<1>2. e \in Requests BY <1>1 DEF Requests
<1> QED BY DEF Requests, SameAsk

LEMMA StaleRequest ==
  ASSUME NEW c \in Requests, NEW e, e = [c EXCEPT !.fresh = FALSE]
  PROVE  /\ e \in Requests /\ SameAsk(c, e) /\ e.ans = c.ans /\ e.since = c.since
         /\ e.fresh = FALSE
<1>1. e \in Requests BY DEF Requests
<1> QED BY DEF Requests, SameAsk

LEMMA AnsweredRequest ==
  ASSUME NEW c \in Requests, NEW a \in Pages \cup Counts \cup {Pending, Failed},
         NEW e, e = [c EXCEPT !.ans = a]
  PROVE  /\ e \in Requests /\ SameAsk(c, e) /\ e.ans = a /\ e.since = c.since
         /\ e.fresh = c.fresh
<1>1. e \in Requests BY DEF Requests
<1> QED BY DEF Requests, SameAsk

LEMMA OutdatedOK ==
  ASSUME NEW cs, NEW d, AllOK(cs, d)
  PROVE  AllOK(Outdated(cs), d)
<1> DEFINE ds == Outdated(cs)
<1>1. \A t \in Slots : ds[t] = IF cs[t] # Idle /\ cs[t].op = "more"
                               THEN [cs[t] EXCEPT !.fresh = FALSE] ELSE cs[t]
  BY DEF Outdated
<1>2. ds = [t \in Slots |-> ds[t]] BY DEF Outdated
<1> HIDE DEF ds
<1>3. \A t \in Slots : cs[t] \in Requests \cup {Idle} BY DEF AllOK
<1>4. ASSUME NEW t \in Slots PROVE Good(d, ds[t])
  <2>1. CASE cs[t] # Idle /\ cs[t].op = "more"
    <3> DEFINE e == [cs[t] EXCEPT !.fresh = FALSE]
    <3>1. ds[t] = e /\ cs[t] \in Requests BY <2>1, <1>1, <1>3
    <3>2. e \in Requests /\ SameAsk(cs[t], e) /\ e.ans = cs[t].ans /\ e.since = cs[t].since
      BY <3>1, StaleRequest
    <3>3. AskOK(cs[t]) /\ AnsOK(d, cs[t]) BY <2>1 DEF AllOK
    <3> HIDE DEF e
    <3>4. AskOK(e) /\ AnsOK(d, e) BY <3>2, <3>3, AskSame, AnsSame
    <3> QED BY <3>1, <3>2, <3>4 DEF Good
  <2>2. CASE ~(cs[t] # Idle /\ cs[t].op = "more") BY <2>2, <1>1, <1>3 DEF Good, AllOK
  <2> QED BY <2>1, <2>2
<1>5. \A t \in Slots : ds[t] \in Requests \cup {Idle} BY <1>4 DEF Good
<1>6. ds \in [Slots -> Requests \cup {Idle}] BY <1>2, <1>5
<1>7. \A t \in Slots : ds[t] # Idle => AskOK(ds[t]) /\ AnsOK(d, ds[t]) BY <1>4 DEF Good
<1> QED BY <1>6, <1>7 DEF AllOK, ds

LEMMA TouchOK ==
  ASSUME NEW cs, NEW d, NEW e, AllOK(cs, d)
  PROVE  AllOK(Touch(cs, Changed(d, e)), e)
<1> DEFINE K == Changed(d, e)
           ds == Touch(cs, K)
<1>1. \A t \in Slots : ds[t] = IF cs[t] = Idle \/ cs[t].ans = Pending THEN cs[t]
                               ELSE [cs[t] EXCEPT !.since = @ \cup K]
  BY DEF Touch
<1>2. ds = [t \in Slots |-> ds[t]] BY DEF Touch
<1>3. K \in SUBSET Keys BY DEF Changed
<1> HIDE DEF ds
<1>4. \A t \in Slots : cs[t] \in Requests \cup {Idle} BY DEF AllOK
<1>5. ASSUME NEW t \in Slots PROVE Good(e, ds[t])
  <2>1. CASE cs[t] # Idle /\ cs[t].ans # Pending
    <3> DEFINE f == [cs[t] EXCEPT !.since = @ \cup K]
    <3>1. ds[t] = f /\ cs[t] \in Requests BY <2>1, <1>1, <1>4
    <3>2. f \in Requests /\ SameAsk(cs[t], f) /\ f.ans = cs[t].ans /\ f.since = cs[t].since \cup K
      BY <3>1, <1>3, OlderRequest
    <3>3. AskOK(cs[t]) /\ AnsOK(d, cs[t]) BY <2>1 DEF AllOK
    <3> HIDE DEF f
    <3>4. AskOK(f) /\ AnsOK(e, f) BY <3>2, <3>3, AskSame, AnsAges
    <3> QED BY <3>1, <3>2, <3>4 DEF Good
  <2>2. CASE cs[t] # Idle /\ cs[t].ans = Pending BY <2>2, <1>1, <1>4 DEF Good, AllOK, AnsOK
  <2>3. CASE cs[t] = Idle BY <2>3, <1>1 DEF Good
  <2> QED BY <2>1, <2>2, <2>3
<1>6. \A t \in Slots : ds[t] \in Requests \cup {Idle} BY <1>5 DEF Good
<1>7. ds \in [Slots -> Requests \cup {Idle}] BY <1>2, <1>6
<1>8. \A t \in Slots : ds[t] # Idle => AskOK(ds[t]) /\ AnsOK(e, ds[t]) BY <1>5 DEF Good
<1> QED BY <1>7, <1>8 DEF AllOK, ds

----------------------------------------------------------------------------
(* The requests that are sent. *)
Fresh(c) == c \in Requests /\ AskOK(c) /\ c.ans = Pending /\ c.since = {}

LEMMA FreshGood ==
  ASSUME NEW c, Fresh(c) PROVE c # Idle /\ \A d : Good(d, c)
BY DataAssumption DEF Fresh, Good, AnsOK

Asks == {"none", "save", "update", "remove", "removeUser"}
Form(op, x, lo, hi, v, w, a) ==
  [op |-> op, prefix |-> x, lo |-> lo, hi |-> hi, value |-> v, was |-> w, ask |-> a,
   ans |-> Pending, since |-> {}, fresh |-> TRUE]

LEMMA FormIs ==
  ASSUME NEW op \in Ops, NEW x \in Prefixes \cup {All}, NEW lo \in Keys \cup {All},
         NEW hi \in Keys \cup {All}, NEW v \in Values \cup {NoValue},
         NEW w \in Metas \cup Keys \cup {All, Unknown}, NEW a \in Asks
  PROVE  Form(op, x, lo, hi, v, w, a) \in Requests
<1>1. {} \in SUBSET Keys /\ TRUE \in BOOLEAN /\ Pending \in Pages \cup Counts \cup {Pending, Failed}
  OBVIOUS
<1> QED BY <1>1 DEF Form, Requests, Asks

LEMMA FormHas ==
  ASSUME NEW op, NEW x, NEW lo, NEW hi, NEW v, NEW w, NEW a, NEW c, c = Form(op, x, lo, hi, v, w, a)
  PROVE  /\ c.op = op /\ c.prefix = x /\ c.lo = lo /\ c.hi = hi /\ c.was = w /\ c.ask = a
         /\ c.ans = Pending /\ c.since = {}
BY DEF Form

LEMMA LoadRequests ==
  /\ Fresh(Call("refresh")) /\ Call("refresh").op = "refresh"
  /\ Fresh(Call("tick")) /\ Call("tick").op = "tick"
  /\ \A p \in Prefixes \cup {All} :
       LET c == [Call("partition") EXCEPT !.lo = First(p), !.hi = Last(p)]
       IN  Fresh(c) /\ c.op = "partition"
  /\ \A k \in Keys : LET c == [Call("link") EXCEPT !.lo = k, !.hi = k] IN Fresh(c) /\ c.op = "link"
  /\ \A k \in Keys, p \in Prefixes \cup {All} :
       LET c == [Call("more") EXCEPT !.lo = k, !.hi = Last(p)]
       IN  Fresh(c) /\ c.op = "more" /\ c.lo = k
<1>1. "none" \in Asks /\ {"refresh", "tick", "partition", "link", "more"} \subseteq Ops BY DEF Asks, Ops
<1>2. ASSUME NEW c, c = Call("refresh") PROVE Fresh(c) /\ c.op = "refresh"
  <2>1. c = Form("refresh", All, All, All, NoValue, Unknown, "none") BY <1>2 DEF Call, Form
  <2>2. c \in Requests /\ c.op = "refresh" /\ c.lo = All /\ c.hi = All /\ c.ask = "none"
        /\ c.ans = Pending /\ c.since = {}
    <3>1. c \in Requests BY <2>1, <1>1, FormIs
    <3> QED BY <3>1, <2>1, FormHas
  <2> QED BY <2>2 DEF Fresh, AskOK, Writes
<1>3. ASSUME NEW c, c = Call("tick") PROVE Fresh(c) /\ c.op = "tick"
  <2>1. c = Form("tick", All, All, All, NoValue, Unknown, "none") BY <1>3 DEF Call, Form
  <2>2. c \in Requests /\ c.op = "tick" /\ c.ask = "none" /\ c.ans = Pending /\ c.since = {}
    <3>1. c \in Requests BY <2>1, <1>1, FormIs
    <3> QED BY <3>1, <2>1, FormHas
  <2> QED BY <2>2 DEF Fresh, AskOK, Writes
<1>4. ASSUME NEW p \in Prefixes \cup {All}, NEW c,
             c = [Call("partition") EXCEPT !.lo = First(p), !.hi = Last(p)]
      PROVE  Fresh(c) /\ c.op = "partition"
  <2>1. c = Form("partition", All, First(p), Last(p), NoValue, Unknown, "none")
    BY <1>4 DEF Call, Form
  <2>2. First(p) \in Keys /\ Last(p) \in Keys BY EndsAre
  <2>3. c \in Requests /\ c.op = "partition" /\ c.lo \in Keys /\ c.hi \in Keys /\ c.ask = "none"
        /\ c.ans = Pending /\ c.since = {}
    <3>1. c \in Requests BY <2>1, <2>2, <1>1, FormIs
    <3> QED BY <3>1, <2>1, <2>2, FormHas
  <2> QED BY <2>3 DEF Fresh, AskOK, Writes
<1>5. ASSUME NEW k \in Keys, NEW c, c = [Call("link") EXCEPT !.lo = k, !.hi = k]
      PROVE  Fresh(c) /\ c.op = "link"
  <2>1. c = Form("link", All, k, k, NoValue, Unknown, "none") BY <1>5 DEF Call, Form
  <2>2. c \in Requests /\ c.op = "link" /\ c.lo \in Keys /\ c.hi \in Keys /\ c.ask = "none"
        /\ c.ans = Pending /\ c.since = {}
    <3>1. c \in Requests BY <2>1, <1>1, FormIs
    <3> QED BY <3>1, <2>1, FormHas
  <2> QED BY <2>2 DEF Fresh, AskOK, Writes
<1>6. ASSUME NEW k \in Keys, NEW p \in Prefixes \cup {All}, NEW c,
             c = [Call("more") EXCEPT !.lo = k, !.hi = Last(p)]
      PROVE  Fresh(c) /\ c.op = "more" /\ c.lo = k
  <2>1. c = Form("more", All, k, Last(p), NoValue, Unknown, "none") BY <1>6 DEF Call, Form
  <2>2. Last(p) \in Keys BY EndsAre
  <2>3. c \in Requests /\ c.op = "more" /\ c.lo = k /\ c.hi \in Keys /\ c.ask = "none"
        /\ c.ans = Pending /\ c.since = {}
    <3>1. c \in Requests BY <2>1, <2>2, <1>1, FormIs
    <3> QED BY <3>1, <2>1, <2>2, FormHas
  <2> QED BY <2>3 DEF Fresh, AskOK, Writes
<1> QED BY <1>2, <1>3, <1>4, <1>5, <1>6

LEMMA FormRequests ==
  /\ \A k \in Keys : Fresh(Lookup(k)) /\ Lookup(k).op = "lookup"
  /\ \A l, h \in Keys : Fresh(KeyRange(l, h)) /\ KeyRange(l, h).op = "range"
  /\ \A p \in Prefixes \cup {All} :
       LET c == Search(p, All) IN Fresh(c) /\ c.op = "search" /\ c.was = Unknown
  /\ \A m : MetaOK(m) /\ m.hasMore =>
       LET c == [Search(m.prefix, m.nextKey) EXCEPT !.was = m]
       IN  Fresh(c) /\ c.op = "search" /\ c.was = m
<1>1. "none" \in Asks /\ {"lookup", "range", "search"} \subseteq Ops BY DEF Asks, Ops
<1>2. ASSUME NEW k \in Keys, NEW c, c = Lookup(k) PROVE Fresh(c) /\ c.op = "lookup"
  <2>1. c = Form("lookup", All, k, k, NoValue, Unknown, "none") BY <1>2 DEF Lookup, Call, Form
  <2>2. c \in Requests /\ c.op = "lookup" /\ c.lo \in Keys /\ c.hi \in Keys /\ c.ask = "none"
        /\ c.ans = Pending /\ c.since = {}
    <3>1. c \in Requests BY <2>1, <1>1, FormIs
    <3> QED BY <3>1, <2>1, FormHas
  <2> QED BY <2>2 DEF Fresh, AskOK, Writes
<1>3. ASSUME NEW l \in Keys, NEW h \in Keys, NEW c, c = KeyRange(l, h)
      PROVE  Fresh(c) /\ c.op = "range"
  <2>1. c = Form("range", All, l, h, NoValue, Unknown, "none") BY <1>3 DEF KeyRange, Call, Form
  <2>2. c \in Requests /\ c.op = "range" /\ c.lo \in Keys /\ c.hi \in Keys /\ c.ask = "none"
        /\ c.ans = Pending /\ c.since = {}
    <3>1. c \in Requests BY <2>1, <1>1, FormIs
    <3> QED BY <3>1, <2>1, FormHas
  <2> QED BY <2>2 DEF Fresh, AskOK, Writes
<1>4. ASSUME NEW p \in Prefixes \cup {All}, NEW c, c = Search(p, All)
      PROVE  Fresh(c) /\ c.op = "search" /\ c.was = Unknown
  <2> DEFINE x == IF p = 0 THEN All ELSE p
  <2>1. x \in Prefixes \cup {All} /\ x # 0
    <3>1. All # 0 BY ServerAssumption, KeysAre
    <3> QED BY <3>1
  <2>2. c = Form("search", x, All, All, NoValue, Unknown, "none") BY <1>4 DEF Search, Call, Form
  <2> HIDE DEF x
  <2>3. c \in Requests /\ c.op = "search" /\ c.prefix = x /\ c.lo = All /\ c.was = Unknown
        /\ c.ask = "none" /\ c.ans = Pending /\ c.since = {}
    <3>1. c \in Requests BY <2>1, <2>2, <1>1, FormIs
    <3> QED BY <3>1, <2>1, <2>2, FormHas
  <2> QED BY <2>1, <2>3 DEF Fresh, AskOK, Writes, Continues
<1>5. ASSUME NEW m, MetaOK(m), m.hasMore, NEW c,
             c = [Search(m.prefix, m.nextKey) EXCEPT !.was = m]
      PROVE  Fresh(c) /\ c.op = "search" /\ c.was = m
  <2>1. m \in Metas /\ m.prefix \in Prefixes \cup {All} /\ m.nextKey \in Keys /\ m.prefix # 0
    BY <1>5 DEF MetaOK, Metas
  <2>2. c = Form("search", m.prefix, m.nextKey, All, NoValue, m, "none")
    BY <1>5, <2>1 DEF Search, Call, Form
  <2>3. c \in Requests /\ c.op = "search" /\ c.prefix = m.prefix /\ c.lo = m.nextKey /\ c.was = m
        /\ c.ask = "none" /\ c.ans = Pending /\ c.since = {}
    <3>1. c \in Requests BY <2>1, <2>2, <1>1, FormIs
    <3> QED BY <3>1, <2>1, <2>2, FormHas
  <2>4. Continues(c) BY <2>1, <2>3, DataAssumption DEF Continues
  <2> QED BY <2>1, <2>3, <2>4, <1>5 DEF Fresh, AskOK, Writes
<1> QED BY <1>2, <1>3, <1>4, <1>5

LEMMA SaveIs ==
  ASSUME NEW k, NEW v, NEW c, c = Save(k, v) PROVE c = Form("post", All, k, k, v, Unknown, "save")
BY DEF Save, Call, Form

LEMMA UpdateIs ==
  ASSUME NEW k, NEW v, NEW c, c = Update(k, v) PROVE c = Form("post", All, k, k, v, Unknown, "update")
BY DEF Update, Save, Call, Form

LEMMA WriteRequests ==
  /\ \A k \in Keys, v \in Values \cup {NoValue} :
       /\ Fresh(Save(k, v)) /\ Save(k, v).op = "post"
       /\ Fresh(Update(k, v)) /\ Update(k, v).op = "post"
  /\ \A k \in Keys : Fresh(Remove(k)) /\ Remove(k).op = "delete"
  /\ \A h \in Users : Fresh(RemoveUser(h)) /\ RemoveUser(h).op = "deleteUser"
  /\ \A a \in Asks, w \in Metas \cup Keys \cup {All, Unknown} : (a = "update" => w \in Keys) =>
       /\ LET c == [Call("refresh") EXCEPT !.ask = a, !.was = w] IN Fresh(c) /\ c.op = "refresh"
       /\ LET c == [Call("counts") EXCEPT !.ask = a, !.was = w] IN Fresh(c) /\ c.op = "counts"
<1>1. Asks = {"none", "save", "update", "remove", "removeUser"}
      /\ {"refresh", "counts", "post", "delete", "deleteUser"} \subseteq Ops
  BY DEF Asks, Ops
<1>2. ASSUME NEW k \in Keys, NEW v \in Values \cup {NoValue}, NEW a \in Asks, NEW c,
             c = Form("post", All, k, k, v, Unknown, a)
      PROVE  Fresh(c) /\ c.op = "post"
  <2>1. c \in Requests /\ c.op = "post" /\ c.lo \in Keys /\ c.ans = Pending /\ c.since = {}
    <3>1. c \in Requests BY <1>2, <1>1, FormIs
    <3> QED BY <3>1, <1>2, FormHas
  <2> QED BY <2>1 DEF Fresh, AskOK, Writes
<1>3. ASSUME NEW k \in Keys, NEW v \in Values \cup {NoValue}
      PROVE  /\ Fresh(Save(k, v)) /\ Save(k, v).op = "post"
             /\ Fresh(Update(k, v)) /\ Update(k, v).op = "post"
  <2>1. Save(k, v) = Form("post", All, k, k, v, Unknown, "save") BY SaveIs
  <2>2. Update(k, v) = Form("post", All, k, k, v, Unknown, "update") BY UpdateIs
  <2> QED BY <2>1, <2>2, <1>1, <1>2
<1>4. ASSUME NEW k \in Keys, NEW c, c = Remove(k) PROVE Fresh(c) /\ c.op = "delete"
  <2>1. c = Form("delete", All, k, k, NoValue, Unknown, "remove") BY <1>4 DEF Remove, Call, Form
  <2>2. c \in Requests /\ c.op = "delete" /\ c.lo \in Keys /\ c.ask = "remove" /\ c.ans = Pending
        /\ c.since = {}
    <3>1. c \in Requests BY <2>1, <1>1, FormIs
    <3> QED BY <3>1, <2>1, FormHas
  <2> QED BY <2>2 DEF Fresh, AskOK, Writes
<1>5. ASSUME NEW h \in Users, NEW c, c = RemoveUser(h) PROVE Fresh(c) /\ c.op = "deleteUser"
  <2>1. c = Form("deleteUser", All, h, All, NoValue, Unknown, "removeUser")
    BY <1>5 DEF RemoveUser, Call, Form
  <2>2. h \in Keys BY KeysAre
  <2>3. c \in Requests /\ c.op = "deleteUser" /\ c.lo \in Keys /\ c.ask = "removeUser"
        /\ c.ans = Pending /\ c.since = {}
    <3>1. c \in Requests BY <2>1, <2>2, <1>1, FormIs
    <3> QED BY <3>1, <2>1, <2>2, FormHas
  <2> QED BY <2>3 DEF Fresh, AskOK, Writes
<1>6. ASSUME NEW a \in Asks, NEW w \in Metas \cup Keys \cup {All, Unknown}, a = "update" => w \in Keys,
             NEW c, NEW op \in {"refresh", "counts"}, c = [Call(op) EXCEPT !.ask = a, !.was = w]
      PROVE  Fresh(c) /\ c.op = op
  <2>1. c = Form(op, All, All, All, NoValue, w, a) BY <1>6 DEF Call, Form
  <2>2. op \in Ops BY <1>1
  <2>3. c \in Requests /\ c.op = op /\ c.lo = All /\ c.hi = All /\ c.ask = a /\ c.was = w
        /\ c.ans = Pending /\ c.since = {}
    <3>1. c \in Requests BY <2>1, <2>2, FormIs
    <3> QED BY <3>1, <2>1, <2>2, FormHas
  <2> QED BY <2>3, <1>6 DEF Fresh, AskOK, Writes
<1> QED BY <1>3, <1>4, <1>5, <1>6

----------------------------------------------------------------------------
(* What is under way, after a change of the requests. *)
LEMMA InPut ==
  ASSUME NEW cs, DOMAIN cs = Slots, NEW s \in Slots, NEW c, NEW ops
  PROVE  In([cs EXCEPT ![s] = c], ops) =
           IF c # Idle /\ c.op \in ops THEN In(cs, ops) \cup {s} ELSE In(cs, ops) \ {s}
BY DEF In

(* Both other changes keep what a request asks for. *)
Alike(cs, ds) == \A t \in Slots : /\ cs[t] = Idle <=> ds[t] = Idle
                                  /\ cs[t] # Idle => SameAsk(cs[t], ds[t])

LEMMA InAlike ==
  ASSUME NEW cs, NEW ds, Alike(cs, ds), NEW ops PROVE In(ds, ops) = In(cs, ops)
BY DEF In, Alike, SameAsk

LEMMA OutdatedAlike ==
  ASSUME NEW cs \in [Slots -> Requests \cup {Idle}]
  PROVE  /\ Alike(cs, Outdated(cs)) /\ \A t \in In(cs, {"more"}) : ~Outdated(cs)[t].fresh
         /\ \A t \in Slots : cs[t] # Idle => Outdated(cs)[t].since = cs[t].since
                                             /\ (Outdated(cs)[t].fresh => cs[t].fresh)
<1> DEFINE ds == Outdated(cs)
<1>1. \A t \in Slots : ds[t] = IF cs[t] # Idle /\ cs[t].op = "more"
                               THEN [cs[t] EXCEPT !.fresh = FALSE] ELSE cs[t]
  BY DEF Outdated
<1> HIDE DEF ds
<1>2. ASSUME NEW t \in Slots
      PROVE  /\ cs[t] = Idle <=> ds[t] = Idle
             /\ cs[t] # Idle => SameAsk(cs[t], ds[t])
             /\ cs[t] # Idle => ds[t].since = cs[t].since /\ (ds[t].fresh => cs[t].fresh)
             /\ cs[t] # Idle /\ cs[t].op = "more" => ~ds[t].fresh
  <2>1. CASE cs[t] # Idle /\ cs[t].op = "more"
    <3>1. ds[t] = [cs[t] EXCEPT !.fresh = FALSE] /\ cs[t] \in Requests BY <2>1, <1>1
    <3>2. ds[t] \in Requests /\ SameAsk(cs[t], ds[t]) /\ ds[t].since = cs[t].since
          /\ ds[t].fresh = FALSE
      BY <3>1, StaleRequest
    <3> QED BY <2>1, <3>2, DataAssumption
  <2>2. CASE ~(cs[t] # Idle /\ cs[t].op = "more") BY <2>2, <1>1 DEF SameAsk
  <2> QED BY <2>1, <2>2
<1> QED BY <1>2 DEF Alike, In, ds

LEMMA TouchAlike ==
  ASSUME NEW cs \in [Slots -> Requests \cup {Idle}], NEW K \in SUBSET Keys
  PROVE  /\ Alike(cs, Touch(cs, K))
         /\ \A t \in Slots : cs[t] # Idle => Touch(cs, K)[t].since \subseteq cs[t].since \cup K
                                             /\ Touch(cs, K)[t].fresh = cs[t].fresh
<1> DEFINE ds == Touch(cs, K)
<1>1. \A t \in Slots : ds[t] = IF cs[t] = Idle \/ cs[t].ans = Pending THEN cs[t]
                               ELSE [cs[t] EXCEPT !.since = @ \cup K]
  BY DEF Touch
<1> HIDE DEF ds
<1>2. ASSUME NEW t \in Slots
      PROVE  /\ cs[t] = Idle <=> ds[t] = Idle
             /\ cs[t] # Idle => SameAsk(cs[t], ds[t])
             /\ cs[t] # Idle => ds[t].since \subseteq cs[t].since \cup K /\ ds[t].fresh = cs[t].fresh
  <2>1. CASE cs[t] # Idle /\ cs[t].ans # Pending
    <3>1. ds[t] = [cs[t] EXCEPT !.since = @ \cup K] /\ cs[t] \in Requests BY <2>1, <1>1
    <3>2. ds[t] \in Requests /\ SameAsk(cs[t], ds[t]) /\ ds[t].since = cs[t].since \cup K
          /\ ds[t].fresh = cs[t].fresh
      BY <3>1, OlderRequest
    <3> QED BY <2>1, <3>2, DataAssumption
  <2>2. CASE cs[t] = Idle \/ cs[t].ans = Pending BY <2>2, <1>1 DEF SameAsk
  <2> QED BY <2>1, <2>2
<1> QED BY <1>2 DEF Alike, ds

(* A change that leaves loadMore and the forms as they are, but for what is
   written to keys of K meanwhile, and for a list that is replaced. *)
Watched(c) == c # Idle /\ c.op \in {"more"} \cup Forms
Quiet(cs, ds, K) ==
  \A t \in Slots : Watched(cs[t]) \/ Watched(ds[t]) =>
    /\ cs[t] # Idle /\ ds[t] # Idle /\ SameAsk(cs[t], ds[t])
    /\ ds[t].since \subseteq cs[t].since \cup K /\ (ds[t].fresh => cs[t].fresh)

LEMMA QuietSame ==
  ASSUME NEW cs, NEW K PROVE Quiet(cs, cs, K)
BY DEF Quiet, Watched, SameAsk

LEMMA QuietPut ==
  ASSUME NEW cs, DOMAIN cs = Slots, NEW s \in Slots, NEW c, ~Watched(cs[s]), ~Watched(c)
  PROVE  Quiet(cs, [cs EXCEPT ![s] = c], {})
<1> DEFINE ds == [cs EXCEPT ![s] = c]
<1>1. \A t \in Slots : ds[t] = IF t = s THEN c ELSE cs[t] OBVIOUS
<1> HIDE DEF ds
<1>2. \A t \in Slots : Watched(cs[t]) \/ Watched(ds[t]) => t # s /\ ds[t] = cs[t] /\ cs[t] # Idle
  BY <1>1 DEF Watched
<1> QED BY <1>2 DEF Quiet, SameAsk, ds

LEMMA QuietAnswer ==
  ASSUME NEW cs, DOMAIN cs = Slots, NEW s \in Slots, cs[s] # Idle, NEW c, c # Idle,
         SameAsk(cs[s], c), c.since = cs[s].since, c.fresh = cs[s].fresh
  PROVE  Quiet(cs, [cs EXCEPT ![s] = c], {})
<1> DEFINE ds == [cs EXCEPT ![s] = c]
<1>1. \A t \in Slots : ds[t] = IF t = s THEN c ELSE cs[t] OBVIOUS
<1> HIDE DEF ds
<1>2. ASSUME NEW t \in Slots, Watched(cs[t]) \/ Watched(ds[t])
      PROVE  /\ cs[t] # Idle /\ ds[t] # Idle /\ SameAsk(cs[t], ds[t])
             /\ ds[t].since \subseteq cs[t].since \cup {} /\ (ds[t].fresh => cs[t].fresh)
  <2>1. CASE t = s
    <3>1. ds[t] = c /\ cs[t] = cs[s] BY <2>1, <1>1
    <3> QED BY <3>1
  <2>2. CASE t # s
    <3>1. ds[t] = cs[t] BY <2>2, <1>1
    <3>2. cs[t] # Idle BY <3>1, <1>2 DEF Watched
    <3> QED BY <3>1, <3>2 DEF SameAsk
  <2> QED BY <2>1, <2>2
<1> QED BY <1>2 DEF Quiet, ds

LEMMA QuietAlike ==
  ASSUME NEW cs, NEW ds, NEW es, NEW K, Quiet(cs, ds, {}), Alike(ds, es),
         \A t \in Slots : ds[t] # Idle => es[t].since \subseteq ds[t].since \cup K
                                          /\ (es[t].fresh => ds[t].fresh)
  PROVE  Quiet(cs, es, K)
<1>1. SUFFICES ASSUME NEW t \in Slots, Watched(cs[t]) \/ Watched(es[t])
               PROVE  /\ cs[t] # Idle /\ es[t] # Idle /\ SameAsk(cs[t], es[t])
                      /\ es[t].since \subseteq cs[t].since \cup K /\ (es[t].fresh => cs[t].fresh)
  BY DEF Quiet
<1>2. Watched(es[t]) => Watched(ds[t]) BY DEF Watched, Alike, SameAsk
<1>3. /\ cs[t] # Idle /\ ds[t] # Idle /\ SameAsk(cs[t], ds[t])
      /\ ds[t].since \subseteq cs[t].since \cup {} /\ (ds[t].fresh => cs[t].fresh)
  BY <1>1, <1>2 DEF Quiet
<1>4. es[t] # Idle /\ SameAsk(ds[t], es[t]) BY <1>3 DEF Alike
<1>5. SameAsk(cs[t], es[t]) BY <1>3, <1>4 DEF SameAsk
<1>6. es[t].since \subseteq ds[t].since \cup K /\ (es[t].fresh => ds[t].fresh) BY <1>3
<1> QED BY <1>3, <1>4, <1>5, <1>6

LEMMA QuietKeeps ==
  ASSUME WaitInv, NEW K, Quiet(calls, calls', K),
         loadingMore' = loadingMore, busy' = busy,
         \/ hasMore' = hasMore /\ nextKey' = nextKey /\ touched \cup K \subseteq touched'
         \/ \A t \in In(calls', {"more"}) : ~calls'[t].fresh,
         mode' => mode /\ meta' = meta,
         sinceSearch \cup K \subseteq sinceSearch'
  PROVE  MoreOK' /\ FormsOK' /\ WaitingOK'
<1>1. \A op \in {"more"} \cup Forms : In(calls', {op}) = In(calls, {op})
  BY DEF Quiet, Watched, In, SameAsk
<1>2. In(calls', {"more"}) = In(calls, {"more"}) /\ In(calls', Forms) = In(calls, Forms)
      /\ In(calls', {"search"}) = In(calls, {"search"})
  <2>1. In(calls', Forms) = In(calls, Forms) BY DEF Quiet, Watched, In, SameAsk
  <2> QED BY <1>1, <2>1 DEF Forms
<1>3. MoreOK' 
  <2>1. \A s, t \in In(calls', {"more"}) : s = t BY <1>2 DEF WaitInv, MoreOK
  <2>2. ASSUME NEW s \in In(calls', {"more"})
        PROVE  /\ loadingMore'
               /\ calls'[s].fresh => hasMore' /\ calls'[s].lo = nextKey' /\ calls'[s].since \subseteq touched'
    <3>1. s \in In(calls, {"more"}) /\ s \in Slots BY <1>2 DEF In
    <3>2. loadingMore /\ (calls[s].fresh => hasMore /\ calls[s].lo = nextKey /\ calls[s].since \subseteq touched)
      BY <3>1 DEF WaitInv, MoreOK
    <3>3. Watched(calls[s]) BY <3>1 DEF In, Watched
    <3>4. calls'[s].since \subseteq calls[s].since \cup K /\ (calls'[s].fresh => calls[s].fresh)
          /\ calls'[s].lo = calls[s].lo
      BY <3>1, <3>3 DEF Quiet, SameAsk
    <3> QED BY <3>2, <3>4, <2>2
  <2> QED BY <2>1, <2>2 DEF MoreOK
<1>4. FormsOK'
  <2>1. \A s, t \in In(calls', Forms) : s = t BY <1>2 DEF WaitInv, FormsOK
  <2>2. \A s \in In(calls', Forms) : busy' BY <1>2 DEF WaitInv, FormsOK
  <2>3. ASSUME NEW s \in In(calls', {"search"}), Continues(calls'[s]), mode'
        PROVE  meta' = calls'[s].was /\ calls'[s].since \subseteq sinceSearch'
    <3>1. s \in In(calls, {"search"}) /\ s \in Slots BY <1>2 DEF In
    <3>2. Watched(calls[s]) BY <3>1 DEF In, Watched, Forms
    <3>3. calls'[s].since \subseteq calls[s].since \cup K /\ calls'[s].was = calls[s].was
      BY <3>1, <3>2 DEF Quiet, SameAsk
    <3>4. meta = calls[s].was /\ calls[s].since \subseteq sinceSearch
      BY <3>1, <3>3, <2>3 DEF WaitInv, FormsOK, Continues
    <3> QED BY <3>3, <3>4, <2>3
  <2> QED BY <2>1, <2>2, <2>3 DEF FormsOK
<1>5. WaitingOK' BY <1>2 DEF WaitInv, WaitingOK
<1> QED BY <1>3, <1>4, <1>5

----------------------------------------------------------------------------
(* The first state. *)
LEMMA InitIs == Init => IInv
<1>1. SUFFICES ASSUME Init PROVE IInv OBVIOUS
<1>2. db \in InitStores /\ ViewInit
      /\ \E k \in Keys : calls = [s \in Slots |-> IF s = 1 THEN Call("refresh") ELSE Idle] \/
           calls = [s \in Slots |-> CASE s = 1 -> Call("refresh")
                                      [] s = 2 -> [Call("link") EXCEPT !.lo = k, !.hi = k]
                                      [] OTHER -> Idle]
  <2>1. CASE "link" \in session
    <3>1. PICK k \in Keys : LinkInit(k) BY <1>1, <2>1 DEF Init
    <3> QED BY <3>1 DEF LinkInit
  <2>2. CASE "link" \notin session
    <3>1. DataInit BY <1>1, <2>2 DEF Init
    <3>2. 0 \in Keys BY KeysAre
    <3> QED BY <3>1, <3>2 DEF DataInit
  <2> QED BY <2>1, <2>2
<1>3. PICK k \in Keys : calls = [s \in Slots |-> IF s = 1 THEN Call("refresh") ELSE Idle] \/
        calls = [s \in Slots |-> CASE s = 1 -> Call("refresh")
                                   [] s = 2 -> [Call("link") EXCEPT !.lo = k, !.hi = k]
                                   [] OTHER -> Idle]
  BY <1>2
<1> DEFINE link == [Call("link") EXCEPT !.lo = k, !.hi = k]
<1>4. calls = [s \in Slots |-> calls[s]] BY <1>3
<1>5. 1 \in Slots BY DataAssumption DEF Slots
<1>6. Fresh(Call("refresh")) /\ Call("refresh").op = "refresh" /\ Fresh(link) /\ link.op = "link"
  BY LoadRequests
<1> HIDE DEF link
<1>7. \A s \in Slots : Good(db, calls[s]) /\ ~Watched(calls[s])
  <2>1. ASSUME NEW s \in Slots PROVE Good(db, calls[s]) /\ ~Watched(calls[s])
    <3>1. calls[s] \in {Idle, Call("refresh"), link}
      <4>1. CASE s = 1 BY <4>1, <1>3
      <4>2. CASE s = 2 BY <4>2, <1>3 DEF link
      <4>3. CASE s # 1 /\ s # 2 BY <4>3, <1>3
      <4> QED BY <4>1, <4>2, <4>3
    <3>2. Good(db, calls[s]) BY <3>1, <1>6, FreshGood DEF Good
    <3> QED BY <3>1, <3>2, <1>6 DEF Watched, Forms
  <2> QED BY <2>1
<1>8. CallsOK
  <2>1. \A s \in Slots : calls[s] \in Requests \cup {Idle} BY <1>7 DEF Good
  <2>2. calls \in [Slots -> Requests \cup {Idle}] BY <1>4, <2>1
  <2> QED BY <1>7, <2>2 DEF CallsOK, AllOK, Good
<1>9. calls[1] = Call("refresh") /\ calls[1] # Idle BY <1>3, <1>5, <1>6, FreshGood
<1>10. WaitInv
  <2>1. In(calls, {"more"}) = {} /\ In(calls, Forms) = {} /\ In(calls, {"search"}) = {}
    BY <1>7 DEF In, Watched, Forms
  <2>2. 1 \in In(calls, Loads) BY <1>5, <1>6, <1>9 DEF In, Loads
  <2>3. loadingMore = FALSE /\ busy = FALSE BY <1>1, <1>2 DEF ViewInit, Init
  <2> QED BY <2>1, <2>2, <2>3 DEF WaitInv, MoreOK, FormsOK, WaitingOK, LoadingOK
<1>11. ListInv
  <2>1. 0 \in Keys BY KeysAre
  <2>2. <<>> \in Seq(Records) OBVIOUS
  <2>3. ListTypes BY <2>1, <2>2, <1>2, DataAssumption DEF ListTypes, ViewInit
  <2> QED BY <2>3, <1>2 DEF ListInv, ListOK, ViewInit
<1>12. SearchInv
  <2>1. 1 \in Prefixes \cup {All} BY ExplorerAssumption
  <2> QED BY <1>1, <2>1 DEF Init, SearchInv, ViewTypes, ResultsOK, BannerHonest
<1> QED BY <1>8, <1>10, <1>11, <1>12 DEF IInv

----------------------------------------------------------------------------
(* What a step leaves alone. *)
LEMMA ListStays ==
  ASSUME ListInv, db' = db, listVars' = listVars, active' \in Prefixes \cup {All},
         loading' \in BOOLEAN, loadingMore' \in BOOLEAN, stats' \in (SUBSET Prefixes) \cup {Unknown}
  PROVE  ListInv'
<1>1. UNCHANGED <<records, hasMore, nextKey, from, upto, clean, touched>> BY DEF listVars
<1>2. ListTypes' BY <1>1 DEF ListInv, ListTypes
<1>3. ListOK' BY <1>1 DEF ListInv, ListOK
<1> QED BY <1>2, <1>3 DEF ListInv

LEMMA SearchStays ==
  ASSUME SearchInv, db' = db, searchVars' = searchVars, prefix' \in Prefixes \cup {All},
         busy' \in BOOLEAN, selected' \in Keys \cup {NoKey}, deleteKey' \in Keys \cup {NoKey},
         deleteUserHash' \in Users \cup {NoKey}
  PROVE  SearchInv'
<1>1. UNCHANGED <<mode, results, meta, swept, sinceSearch>> BY DEF searchVars
<1>2. ViewTypes' BY <1>1 DEF SearchInv, ViewTypes
<1>3. BannerHonest' BY <1>1 DEF SearchInv, ResultsOK, BannerHonest
<1>4. ResultsOK' BY <1>1, <1>3 DEF SearchInv, ResultsOK
<1> QED BY <1>2, <1>4 DEF SearchInv

(* A request that is none of the forms' and no loadMore. *)
LEMMA AskKeeps ==
  ASSUME CallsOK, WaitInv, NEW c, Fresh(c), ~Watched(c), Send(c), db' = db,
         UNCHANGED <<hasMore, nextKey, touched, loadingMore, busy, sinceSearch>>,
         mode' => mode /\ meta' = meta,
         loading' => loading \/ c.op \in Loads
  PROVE  CallsOK' /\ WaitInv'
<1>1. PICK s \in Slots : calls[s] = Idle /\ calls' = [calls EXCEPT ![s] = c] BY DEF Send
<1>2. AllOK(calls, db) /\ DOMAIN calls = Slots BY DEF CallsOK, AllOK
<1>3. c # Idle /\ Good(db, c) BY FreshGood
<1>4. CallsOK' BY <1>1, <1>2, <1>3, PutOK DEF CallsOK
<1>5. Quiet(calls, calls', {}) BY <1>1, <1>2, QuietPut DEF Watched
<1>6. MoreOK' /\ FormsOK' /\ WaitingOK' BY <1>5, QuietKeeps
<1>7. LoadingOK'
  <2>1. In(calls', Loads) = IF c # Idle /\ c.op \in Loads THEN In(calls, Loads) \cup {s}
                            ELSE In(calls, Loads) \ {s}
    BY <1>1, <1>2, InPut, SMTT(15), ZenonT(20)
  <2>2. s \notin In(calls, Loads) BY <1>1 DEF In
  <2> QED BY <2>1, <2>2, <1>3 DEF WaitInv, LoadingOK
<1> QED BY <1>4, <1>6, <1>7 DEF WaitInv

(* Nothing is asked for. *)
LEMMA SilenceKeeps ==
  ASSUME CallsOK, WaitInv, calls' = calls, db' = db,
         UNCHANGED <<hasMore, nextKey, touched, loading, loadingMore, busy, sinceSearch>>,
         mode' => mode /\ meta' = meta
  PROVE  CallsOK' /\ WaitInv'
<1>1. Quiet(calls, calls', {}) BY QuietSame
<1>2. MoreOK' /\ FormsOK' /\ WaitingOK' BY <1>1, QuietKeeps
<1>3. LoadingOK' BY DEF WaitInv, LoadingOK
<1> QED BY <1>2, <1>3 DEF WaitInv, CallsOK

----------------------------------------------------------------------------
(* What the user and the timer do. *)
LEMMA AsksKeep ==
  ASSUME IInv,
         \/ Refresh \/ Timer \/ ConfirmDelete \/ ConfirmCascade
         \/ \E p \in Prefixes : ChoosePartition(p)
         \/ \E v \in OtherValues \ {NoValue} : SaveEdit(v) \/ \E k \in Keys : SaveNew(k, v)
  PROVE  IInv'
<1> USE DEF IInv
<1>1. loading \in BOOLEAN /\ loadingMore \in BOOLEAN /\ active \in Prefixes \cup {All}
      /\ stats \in (SUBSET Prefixes) \cup {Unknown}
  BY DEF ListInv, ListTypes
<1>2. prefix \in Prefixes \cup {All} /\ busy \in BOOLEAN /\ selected \in Keys \cup {NoKey}
      /\ deleteKey \in Keys \cup {NoKey} /\ deleteUserHash \in Users \cup {NoKey}
  BY DEF SearchInv, ViewTypes
<1>3. NoKey \in Keys \cup {NoKey} /\ NoKey \in Users \cup {NoKey} OBVIOUS
<1>4. ASSUME Refresh PROVE IInv'
  <2>1. AskRefresh /\ UNCHANGED viewVars BY <1>4 DEF Refresh
  <2>2. UNCHANGED <<db, listVars, active, loadingMore, stats>> /\ loading' = TRUE
    BY <2>1 DEF AskRefresh, metaVars
  <2>3. UNCHANGED <<prefix, searchVars, busy, selected, deleteKey, deleteUserHash>>
    BY <2>1 DEF viewVars, dialogVars
  <2>4. ListInv' BY <2>2, <1>1, ListStays
  <2>5. SearchInv' BY <2>2, <2>3, <1>2, SearchStays
  <2>6. UNCHANGED <<hasMore, nextKey, touched, mode, meta, sinceSearch>>
    BY <2>2, <2>3 DEF listVars, searchVars
  <2>7. Send(Call("refresh")) /\ Fresh(Call("refresh")) /\ Call("refresh").op = "refresh"
    BY <2>1, LoadRequests DEF AskRefresh
  <2>8. CallsOK' /\ WaitInv'
    <3> DEFINE c == Call("refresh")
    <3>1. ~Watched(c) /\ c.op \in Loads BY <2>7 DEF Watched, Forms, Loads
    <3> HIDE DEF c
    <3> QED BY <2>2, <2>3, <2>6, <2>7, <3>1, AskKeeps DEF c
  <2> QED BY <2>4, <2>5, <2>8
<1>5. ASSUME NEW p \in Prefixes, ChoosePartition(p) PROVE IInv'
  <2> DEFINE c == [Call("partition") EXCEPT !.lo = First(p), !.hi = Last(p)]
  <2>1. UNCHANGED <<db, listVars, loadingMore, stats>> /\ loading' = TRUE /\ active' = p /\ Send(c)
    BY <1>5 DEF ChoosePartition, AskPartition, metaVars
  <2>2. /\ prefix' \in {prefix, p} /\ selected' = NoKey /\ mode' = FALSE /\ results' = NoList
        /\ UNCHANGED <<meta, busy, deleteKey, deleteUserHash, swept, sinceSearch>>
    BY <1>5 DEF ChoosePartition, dialogVars
  <2>3. ListInv' BY <2>1, <1>1, ListStays
  <2>4. SearchInv'
    <3>1. ViewTypes' BY <2>2 DEF SearchInv, ViewTypes
    <3> QED BY <2>2, <3>1 DEF SearchInv, ResultsOK, BannerHonest
  <2>5. UNCHANGED <<hasMore, nextKey, touched>> BY <2>1 DEF listVars
  <2>6. Fresh(c) /\ c.op = "partition" BY LoadRequests
  <2> HIDE DEF c
  <2>7. ~Watched(c) /\ c.op \in Loads BY <2>6 DEF Watched, Forms, Loads
  <2>8. CallsOK' /\ WaitInv' BY <2>1, <2>2, <2>5, <2>6, <2>7, AskKeeps
  <2> QED BY <2>3, <2>4, <2>8
<1>6. ASSUME NEW c, Fresh(c), c.op \in {"tick", "post", "delete", "deleteUser"}, Send(c),
             UNCHANGED <<db, listVars, metaVars, flagVars, prefix, searchVars, busy, selected>>,
             deleteKey' \in {deleteKey, NoKey}, deleteUserHash' \in {deleteUserHash, NoKey}
      PROVE  IInv'
  <2>1. UNCHANGED <<active, loading, loadingMore, stats>> BY <1>6 DEF flagVars, metaVars
  <2>2. ListInv' BY <1>6, <2>1, <1>1, ListStays
  <2>3. SearchInv' BY <1>6, <1>2, <1>3, SearchStays
  <2>4. UNCHANGED <<hasMore, nextKey, touched, mode, meta, sinceSearch>>
    BY <1>6 DEF listVars, searchVars
  <2>5. ~Watched(c) BY <1>6 DEF Watched, Forms
  <2>6. CallsOK' /\ WaitInv' BY <1>6, <2>1, <2>4, <2>5, AskKeeps
  <2> QED BY <2>2, <2>3, <2>6
<1>7. ASSUME Timer PROVE IInv'
  <2>1. Fresh(Call("tick")) /\ Call("tick").op = "tick" BY LoadRequests
  <2>2. /\ Send(Call("tick")) /\ UNCHANGED <<db, listVars, metaVars, flagVars>>
        /\ UNCHANGED <<prefix, searchVars, busy, selected, deleteKey, deleteUserHash>>
    BY <1>7 DEF Timer, Tick, viewVars, dialogVars
  <2> QED BY <2>1, <2>2, <1>6
<1>8. ASSUME ConfirmDelete PROVE IInv'
  <2>1. Fresh(Remove(deleteKey)) /\ Remove(deleteKey).op = "delete"
    BY <1>8, <1>2, WriteRequests DEF ConfirmDelete
  <2>2. /\ Send(Remove(deleteKey)) /\ UNCHANGED <<db, listVars, metaVars, flagVars>>
        /\ UNCHANGED <<prefix, searchVars, busy, selected>>
        /\ deleteKey' = NoKey /\ deleteUserHash' = NoKey
    BY <1>8 DEF ConfirmDelete, Confirmed, Ask, Closing
  <2> QED BY <2>1, <2>2, <1>6
<1>9. ASSUME ConfirmCascade PROVE IInv'
  <2>1. Fresh(RemoveUser(deleteUserHash)) /\ RemoveUser(deleteUserHash).op = "deleteUser"
    BY <1>9, <1>2, WriteRequests DEF ConfirmCascade
  <2>2. /\ Send(RemoveUser(deleteUserHash)) /\ UNCHANGED <<db, listVars, metaVars, flagVars>>
        /\ UNCHANGED <<prefix, searchVars, busy, selected>>
        /\ deleteKey' = NoKey /\ deleteUserHash' = NoKey
    BY <1>9 DEF ConfirmCascade, Confirmed, Ask, Closing
  <2> QED BY <2>1, <2>2, <1>6
<1>10. ASSUME NEW v \in OtherValues \ {NoValue}, SaveEdit(v) PROVE IInv'
  <2>1. selected \in Keys /\ v \in Values \cup {NoValue}
    BY <1>10, <1>2, DataAssumption DEF SaveEdit
  <2>2. Fresh(Update(selected, v)) /\ Update(selected, v).op = "post" BY <2>1, WriteRequests
  <2>3. /\ Send(Update(selected, v)) /\ UNCHANGED <<db, listVars, metaVars, flagVars>>
        /\ UNCHANGED <<prefix, searchVars, busy, selected, deleteKey, deleteUserHash>>
    BY <1>10 DEF SaveEdit, Ask, viewVars, dialogVars
  <2> QED BY <2>2, <2>3, <1>6
<1>11. ASSUME NEW v \in OtherValues \ {NoValue}, NEW k \in Keys, SaveNew(k, v) PROVE IInv'
  <2>1. v \in Values \cup {NoValue} BY DataAssumption
  <2>2. Fresh(Save(k, v)) /\ Save(k, v).op = "post" BY <2>1, WriteRequests
  <2>3. /\ Send(Save(k, v)) /\ UNCHANGED <<db, listVars, metaVars, flagVars>>
        /\ UNCHANGED <<prefix, searchVars, busy, selected, deleteKey, deleteUserHash>>
    BY <1>11 DEF SaveNew, Ask, viewVars, dialogVars
  <2> QED BY <2>2, <2>3, <1>6
<1> QED BY <1>4, <1>5, <1>7, <1>8, <1>9, <1>10, <1>11

(* What changes the view only. *)
LEMMA LooksKeep ==
  ASSUME IInv,
         \/ ClearResults \/ OpenDelete \/ OpenDeleteUser \/ CloseDialogs \/ UNCHANGED vars
         \/ \E p \in Prefixes \cup {All} : PickPrefix(p)
         \/ \E k \in Keys \cup {NoKey} : Select(k)
  PROVE  IInv'
<1> USE DEF IInv
<1>1. prefix \in Prefixes \cup {All} /\ busy \in BOOLEAN /\ selected \in Keys \cup {NoKey}
      /\ deleteKey \in Keys \cup {NoKey} /\ deleteUserHash \in Users \cup {NoKey}
  BY DEF SearchInv, ViewTypes
<1>2. ASSUME UNCHANGED dataVars, UNCHANGED <<busy, sinceSearch>>, mode' => mode /\ meta' = meta,
             SearchInv'
      PROVE  IInv'
  <2>1. UNCHANGED <<db, calls, listVars, metaVars, flagVars>> BY <1>2 DEF dataVars
  <2>2. UNCHANGED <<active, loading, loadingMore, stats>> BY <2>1 DEF metaVars, flagVars
  <2>3. ListInv'
    <3>1. loading \in BOOLEAN /\ loadingMore \in BOOLEAN /\ active \in Prefixes \cup {All}
          /\ stats \in (SUBSET Prefixes) \cup {Unknown}
      BY DEF ListInv, ListTypes
    <3> QED BY <2>1, <2>2, <3>1, ListStays
  <2>4. UNCHANGED <<hasMore, nextKey, touched>> BY <2>1 DEF listVars
  <2>5. CallsOK' /\ WaitInv' BY <2>1, <2>2, <2>4, <1>2, SilenceKeeps
  <2> QED BY <2>3, <2>5, <1>2
<1>3. ASSUME UNCHANGED dataVars, UNCHANGED <<searchVars, busy>>, prefix' \in Prefixes \cup {All},
             selected' \in Keys \cup {NoKey}, deleteKey' \in Keys \cup {NoKey},
             deleteUserHash' \in Users \cup {NoKey}
      PROVE  IInv'
  <2>1. db' = db BY <1>3 DEF dataVars
  <2>2. SearchInv' BY <2>1, <1>1, <1>3, SearchStays
  <2>3. UNCHANGED <<mode, meta, sinceSearch>> BY <1>3 DEF searchVars
  <2> QED BY <1>2, <1>3, <2>2, <2>3
<1>4. ASSUME ClearResults PROVE IInv'
  <2>1. /\ mode' = FALSE /\ results' = NoList /\ meta' = NoMeta /\ UNCHANGED dataVars
        /\ UNCHANGED <<prefix, busy, selected, deleteKey, deleteUserHash, swept, sinceSearch>>
    BY <1>4 DEF ClearResults, dialogVars
  <2>2. SearchInv'
    <3>1. ViewTypes' BY <2>1 DEF SearchInv, ViewTypes
    <3> QED BY <2>1, <3>1 DEF SearchInv, ResultsOK, BannerHonest
  <2> QED BY <2>1, <2>2, <1>2
<1>5. ASSUME OpenDelete \/ OpenDeleteUser PROVE IInv'
  <2>1. /\ UNCHANGED dataVars /\ UNCHANGED <<searchVars, busy, prefix, selected>>
        /\ deleteKey' \in {selected, NoKey} /\ deleteUserHash' \in {UserHashOf(selected), NoKey}
        /\ selected # NoKey
    BY <1>5 DEF OpenDelete, OpenDeleteUser, Administers
  <2>2. UserHashOf(selected) \in Users BY <2>1, <1>1, PartsOfKey
  <2> QED BY <2>1, <2>2, <1>1, <1>3
<1>6. ASSUME CloseDialogs PROVE IInv'
  <2>1. /\ UNCHANGED dataVars /\ UNCHANGED <<searchVars, busy, prefix, selected>>
        /\ deleteKey' = NoKey /\ deleteUserHash' = NoKey
    BY <1>6 DEF CloseDialogs, Closing
  <2> QED BY <2>1, <1>1, <1>3
<1>7. ASSUME UNCHANGED vars PROVE IInv'
  <2>1. /\ UNCHANGED dataVars /\ UNCHANGED <<searchVars, busy, prefix, selected>>
        /\ UNCHANGED <<deleteKey, deleteUserHash>>
    BY <1>7 DEF vars, viewVars, dialogVars
  <2> QED BY <2>1, <1>1, <1>3
<1>8. ASSUME NEW p \in Prefixes \cup {All}, PickPrefix(p) PROVE IInv'
  <2>1. /\ UNCHANGED dataVars /\ UNCHANGED <<searchVars, busy, selected>>
        /\ UNCHANGED <<deleteKey, deleteUserHash>> /\ prefix' = p
    BY <1>8 DEF PickPrefix, dialogVars
  <2> QED BY <2>1, <1>1, <1>3
<1>9. ASSUME NEW k \in Keys \cup {NoKey}, Select(k) PROVE IInv'
  <2>1. /\ UNCHANGED dataVars /\ UNCHANGED <<searchVars, busy, prefix>>
        /\ UNCHANGED <<deleteKey, deleteUserHash>> /\ selected' = k
    BY <1>9 DEF Select, dialogVars
  <2> QED BY <2>1, <1>1, <1>3
<1> QED BY <1>4, <1>5, <1>6, <1>7, <1>8, <1>9

(* A form that is busy from now on, and the request it sends. *)
LEMMA FormKeeps ==
  ASSUME IInv, NEW c, Fresh(c), c.op \in Forms, WithBusy(c),
         c.op = "search" /\ Continues(c) => meta = c.was
  PROVE  IInv'
<1> USE DEF IInv
<1>1. /\ ~busy /\ busy' = TRUE /\ Send(c)
      /\ UNCHANGED <<db, listVars, metaVars, flagVars>>
      /\ UNCHANGED <<prefix, searchVars, selected, deleteKey, deleteUserHash>>
  BY DEF WithBusy, Ask, dialogVars
<1>2. UNCHANGED <<active, loading, loadingMore, stats, hasMore, nextKey, touched, mode, meta, sinceSearch>>
  BY <1>1 DEF flagVars, metaVars, listVars, searchVars
<1>3. ListInv'
  <2>1. loading \in BOOLEAN /\ loadingMore \in BOOLEAN /\ active \in Prefixes \cup {All}
        /\ stats \in (SUBSET Prefixes) \cup {Unknown}
    BY DEF ListInv, ListTypes
  <2> QED BY <2>1, <1>1, <1>2, ListStays
<1>4. SearchInv'
  <2>1. prefix \in Prefixes \cup {All} /\ selected \in Keys \cup {NoKey}
        /\ deleteKey \in Keys \cup {NoKey} /\ deleteUserHash \in Users \cup {NoKey}
    BY DEF SearchInv, ViewTypes
  <2> QED BY <2>1, <1>1, SearchStays
<1>5. PICK s \in Slots : calls[s] = Idle /\ calls' = [calls EXCEPT ![s] = c] BY <1>1 DEF Send
<1>6. AllOK(calls, db) /\ DOMAIN calls = Slots BY DEF CallsOK, AllOK
<1>7. c # Idle /\ Good(db, c) /\ c.since = {} BY FreshGood DEF Fresh
<1>8. CallsOK' BY <1>1, <1>5, <1>6, <1>7, PutOK DEF CallsOK
<1>9. \A ops : s \notin In(calls, ops) BY <1>5 DEF In
<1>10. ASSUME NEW ops
       PROVE  In(calls', ops) = IF c.op \in ops THEN In(calls, ops) \cup {s} ELSE In(calls, ops)
  BY <1>5, <1>6, <1>7 DEF In
<1>11. calls'[s] = c /\ \A t \in Slots : t # s => calls'[t] = calls[t] BY <1>5, <1>6
<1>12. In(calls, Forms) = {} BY <1>1 DEF WaitInv, FormsOK
<1>13. MoreOK'
  <2>1. In(calls', {"more"}) = In(calls, {"more"}) BY <1>10 DEF Forms
  <2>2. \A t \in In(calls, {"more"}) : calls'[t] = calls[t] BY <1>9, <1>11 DEF In
  <2> QED BY <2>1, <2>2, <1>2 DEF WaitInv, MoreOK
<1>14. FormsOK'
  <2>1. In(calls', Forms) = {s} BY <1>10, <1>12
  <2>2. In(calls', {"search"}) \subseteq {s} BY <2>1 DEF In, Forms
  <2>3. \A t \in In(calls', {"search"}) : c.op = "search" BY <2>2, <1>11 DEF In
  <2> QED BY <2>1, <2>2, <2>3, <1>1, <1>2, <1>7, <1>11 DEF FormsOK
<1>15. WaitingOK'
  <2>1. In(calls', {"more"}) = In(calls, {"more"}) BY <1>10 DEF Forms
  <2>2. In(calls', Forms) # {} BY <1>10
  <2> QED BY <2>1, <2>2, <1>2 DEF WaitInv, WaitingOK
<1>16. LoadingOK'
  <2>1. In(calls', Loads) = In(calls, Loads) BY <1>10 DEF Forms, Loads
  <2> QED BY <2>1, <1>2 DEF WaitInv, LoadingOK
<1> QED BY <1>3, <1>4, <1>8, <1>13, <1>14, <1>15, <1>16 DEF WaitInv

LEMMA FormsKeep ==
  ASSUME IInv,
         \/ SearchText \/ ContinueScan
         \/ \E k \in Keys : LookupKey(k)
         \/ \E r \in Ranges : ScanRange(r[1], r[2])
  PROVE  IInv'
<1>1. CASE SearchText
  <2> DEFINE c == Search(prefix, All)
  <2>1. prefix \in Prefixes \cup {All} BY DEF IInv, SearchInv, ViewTypes
  <2>2. Fresh(c) /\ c.op = "search" /\ c.was = Unknown BY <2>1, FormRequests
  <2>3. WithBusy(c) BY <1>1 DEF SearchText
  <2> HIDE DEF c
  <2>4. c.op \in Forms /\ ~Continues(c) BY <2>2 DEF Forms, Continues
  <2> QED BY <2>2, <2>3, <2>4, FormKeeps
<1>2. CASE ContinueScan
  <2> DEFINE c == [Search(meta.prefix, meta.nextKey) EXCEPT !.was = meta]
  <2>1. meta # NoMeta /\ meta.hasMore /\ WithBusy(c) BY <1>2 DEF ContinueScan
  <2>2. MetaOK(meta) BY <2>1 DEF IInv, SearchInv, ResultsOK
  <2>3. Fresh(c) /\ c.op = "search" /\ c.was = meta BY <2>1, <2>2, FormRequests
  <2> HIDE DEF c
  <2>4. c.op \in Forms BY <2>3 DEF Forms
  <2> QED BY <2>1, <2>3, <2>4, FormKeeps
<1>3. ASSUME NEW k \in Keys, LookupKey(k) PROVE IInv'
  <2> DEFINE c == Lookup(k)
  <2>1. Fresh(c) /\ c.op = "lookup" /\ WithBusy(c) BY <1>3, FormRequests DEF LookupKey
  <2> HIDE DEF c
  <2>2. c.op \in Forms BY <2>1 DEF Forms
  <2> QED BY <2>1, <2>2, FormKeeps
<1>4. ASSUME NEW r \in Ranges, ScanRange(r[1], r[2]) PROVE IInv'
  <2> DEFINE c == KeyRange(r[1], r[2])
  <2>1. r[1] \in Keys /\ r[2] \in Keys BY ExplorerAssumption
  <2>2. Fresh(c) /\ c.op = "range" /\ WithBusy(c) BY <1>4, <2>1, FormRequests DEF ScanRange
  <2> HIDE DEF c
  <2>3. c.op \in Forms BY <2>2 DEF Forms
  <2> QED BY <2>2, <2>3, FormKeeps
<1> QED BY <1>1, <1>2, <1>3, <1>4

LEMMA MoreKeeps ==
  ASSUME IInv, LoadMore PROVE IInv'
<1> USE DEF IInv
<1> DEFINE c == [Call("more") EXCEPT !.lo = nextKey, !.hi = Last(active)]
<1>1. /\ hasMore /\ ~loadingMore /\ Send(c) /\ loadingMore' = TRUE
      /\ UNCHANGED <<db, listVars, metaVars, active, loading>>
      /\ UNCHANGED <<prefix, searchVars, busy, selected, deleteKey, deleteUserHash>>
  BY DEF LoadMore, AskMore, viewVars, dialogVars
<1>2. UNCHANGED <<stats, hasMore, nextKey, touched, mode, meta, sinceSearch>>
  BY <1>1 DEF metaVars, listVars, searchVars
<1>3. loading \in BOOLEAN /\ active \in Prefixes \cup {All} /\ nextKey \in Keys
      /\ stats \in (SUBSET Prefixes) \cup {Unknown}
  BY DEF ListInv, ListTypes
<1>4. ListInv' BY <1>1, <1>2, <1>3, ListStays
<1>5. SearchInv'
  <2>1. prefix \in Prefixes \cup {All} /\ selected \in Keys \cup {NoKey} /\ busy \in BOOLEAN
        /\ deleteKey \in Keys \cup {NoKey} /\ deleteUserHash \in Users \cup {NoKey}
    BY DEF SearchInv, ViewTypes
  <2> QED BY <2>1, <1>1, SearchStays
<1>6. Fresh(c) /\ c.op = "more" /\ c.lo = nextKey BY <1>3, LoadRequests
<1> HIDE DEF c
<1>7. PICK s \in Slots : calls[s] = Idle /\ calls' = [calls EXCEPT ![s] = c] BY <1>1 DEF Send
<1>8. AllOK(calls, db) /\ DOMAIN calls = Slots BY DEF CallsOK, AllOK
<1>9. c # Idle /\ Good(db, c) /\ c.since = {} BY <1>6, FreshGood DEF Fresh
<1>10. CallsOK' BY <1>1, <1>7, <1>8, <1>9, PutOK DEF CallsOK
<1>11. \A ops : s \notin In(calls, ops) BY <1>7 DEF In
<1>12. ASSUME NEW ops
       PROVE  In(calls', ops) = IF c.op \in ops THEN In(calls, ops) \cup {s} ELSE In(calls, ops)
  BY <1>7, <1>8, <1>9 DEF In
<1>13. calls'[s] = c /\ \A t \in Slots : t # s => calls'[t] = calls[t] BY <1>7, <1>8
<1>14. In(calls', {"more"}) = {s}
  <2>1. In(calls, {"more"}) = {} BY <1>1 DEF WaitInv, MoreOK
  <2> QED BY <2>1, <1>6, <1>12
<1>15. MoreOK' BY <1>1, <1>2, <1>6, <1>9, <1>13, <1>14 DEF MoreOK
<1>16. In(calls', Forms) = In(calls, Forms) /\ In(calls', {"search"}) = In(calls, {"search"})
       /\ In(calls', Loads) = In(calls, Loads)
  BY <1>6, <1>12 DEF Forms, Loads
<1>17. FormsOK'
  <2>1. \A t \in In(calls, {"search"}) : calls'[t] = calls[t] BY <1>11, <1>13 DEF In
  <2> QED BY <2>1, <1>1, <1>2, <1>16 DEF WaitInv, FormsOK
<1>18. WaitingOK' /\ LoadingOK' BY <1>1, <1>14, <1>16 DEF WaitInv, WaitingOK, LoadingOK
<1> QED BY <1>4, <1>5, <1>10, <1>15, <1>17, <1>18 DEF WaitInv

----------------------------------------------------------------------------
(* What the server does. *)
LEMMA Weaker ==
  ASSUME NEW d, NEW recs, NEW more, NEW next, NEW lo, NEW hi, NEW T
  PROVE  /\ ListOf(d, recs, more, next, lo, hi, {}) => ListOf(d, recs, more, next, lo, hi, T)
         /\ HitsOf(d, recs, more, next, lo, hi, {}) => HitsOf(d, recs, more, next, lo, hi, T)
BY DEF ListOf, Faithful, Complete, HitsOf, Selects

LEMMA ReadIs ==
  ASSUME db \in Stores, NEW c \in Requests, AskOK(c), c.op \notin Writes,
         NEW e, e = [c EXCEPT !.ans = Read(c)]
  PROVE  Read(c) \in Pages \cup Counts \cup {Failed} /\ AnsOK(db, e)
<1> DEFINE a == Read(c)
<1>1. c.op \in Ops /\ c.prefix \in Prefixes \cup {All} /\ c.lo \in Keys \cup {All} BY DEF Requests
<1>2. e.op = c.op /\ e.prefix = c.prefix /\ e.lo = c.lo /\ e.hi = c.hi /\ e.since = c.since /\ e.ans = a
  BY DEF Requests
<1>3. CASE c.op \in {"refresh", "partition", "more", "range"}
  <2> DEFINE lo == IF c.lo = All THEN 0 ELSE c.lo
             hi == IF c.hi = All THEN LastKey ELSE c.hi
  <2>1. a = ScanRecordsBounded(db, lo, hi) BY <1>3 DEF Read
  <2>2. lo \in Keys /\ hi \in Keys
        /\ (c.op = "refresh" => lo = 0 /\ hi = LastKey)
        /\ (c.op \in {"partition", "more"} => lo = c.lo /\ hi = c.hi)
    <3>1. All \notin Keys BY ServerAssumption
    <3>2. 0 \in Keys /\ LastKey \in Keys BY KeysAre
    <3> QED BY <3>1, <3>2, <1>3 DEF AskOK
  <2> HIDE DEF lo, hi, a
  <2>3. a \in Pages /\ PageIs(db, a, lo, hi, {}) BY <2>1, <2>2, ScanIs
  <2>4. PageIs(db, a, lo, hi, c.since) BY <2>3, Weaker DEF PageIs
  <2>5. AnsOK(db, e) BY <2>2, <2>3, <2>4, <1>2, <1>3 DEF AnsOK
  <2> QED BY <2>3, <2>5 DEF a
<1>4. CASE c.op = "search"
  <2>1. a = SearchRecords(db, c.prefix, c.lo) BY <1>4 DEF Read
  <2>2. c.lo = All \/ (First(c.prefix) <= c.lo /\ c.lo <= Last(c.prefix))
    BY <1>4 DEF AskOK, MetaOK
  <2> HIDE DEF a
  <2>3. /\ a \in Pages
        /\ a.indexed => c.lo = All /\ ~a.hasMore
        /\ ~a.indexed => ChunkIs(db, a, SearchedFrom(c), Last(c.prefix), {})
        /\ a.hasMore => a.nextKey <= Last(c.prefix)
    BY <2>1, <2>2, <1>1, SearchIs DEF SearchedFrom
  <2>4. ~a.indexed => ChunkIs(db, a, SearchedFrom(c), Last(c.prefix), c.since)
    BY <2>3, Weaker DEF ChunkIs
  <2>5. SearchedFrom(e) = SearchedFrom(c) BY <1>2 DEF SearchedFrom
  <2>6. SearchOK(db, e) BY <2>3, <2>4, <2>5, <1>2 DEF SearchOK
  <2>7. AnsOK(db, e) BY <2>3, <2>6, <1>2, <1>4 DEF AnsOK
  <2> QED BY <2>3, <2>7 DEF a
<1>5. CASE c.op \in {"lookup", "link"}
  <2>1. c.lo \in Keys BY <1>5 DEF AskOK
  <2>2. a = Failed \/ a = ScanRecordsBounded(db, c.lo, c.lo) BY <1>5 DEF Read
  <2> HIDE DEF a
  <2>3. a = Failed \/ a \in Pages BY <2>1, <2>2, ScanIs
  <2>4. AnsOK(db, e) BY <2>3, <1>2, <1>5 DEF AnsOK
  <2> QED BY <2>3, <2>4 DEF a
<1>6. CASE c.op \in {"counts", "tick"}
  <2>1. a = [prefixes |-> Populated(db)] BY <1>6 DEF Read
  <2>2. Populated(db) \subseteq Prefixes BY PartsOfKey DEF Populated, Stored
  <2> HIDE DEF a
  <2>3. a \in Counts BY <2>1, <2>2 DEF Counts
  <2>4. AnsOK(db, e) BY <2>3, <1>2, <1>6 DEF AnsOK
  <2> QED BY <2>3, <2>4 DEF a
<1> QED BY <1>1, <1>3, <1>4, <1>5, <1>6 DEF Ops, Writes

LEMMA AnswerPut ==
  ASSUME NEW d, AllOK(calls, d), NEW s \in Slots, calls[s] # Idle,
         NEW a \in Pages \cup Counts \cup {Pending, Failed}, NEW c, c = [calls[s] EXCEPT !.ans = a],
         AnsOK(d, c), NEW cs, cs = [calls EXCEPT ![s] = c]
  PROVE  AllOK(cs, d) /\ Quiet(calls, cs, {}) /\ Alike(calls, cs)
<1>1. DOMAIN calls = Slots /\ calls[s] \in Requests /\ AskOK(calls[s]) BY DEF AllOK
<1>2. c \in Requests /\ SameAsk(calls[s], c) /\ c.since = calls[s].since /\ c.fresh = calls[s].fresh
  BY <1>1, AnsweredRequest
<1>3. c # Idle BY <1>2, DataAssumption
<1>4. AskOK(c) BY <1>1, <1>2, AskSame
<1>5. AllOK(cs, d) BY <1>2, <1>4, PutOK DEF Good
<1>6. Quiet(calls, cs, {}) BY <1>1, <1>2, <1>3, QuietAnswer
<1>7. \A t \in Slots : cs[t] = IF t = s THEN c ELSE calls[t] BY <1>1
<1>8. Alike(calls, cs) BY <1>2, <1>3, <1>7 DEF Alike, SameAsk
<1> QED BY <1>5, <1>6, <1>8

LEMMA AnswerKeeps ==
  ASSUME IInv, NEW s \in Slots, calls[s] # Idle,
         NEW a \in Pages \cup Counts \cup {Pending, Failed}, NEW c, c = [calls[s] EXCEPT !.ans = a],
         AnsOK(db, c), calls' = [calls EXCEPT ![s] = c],
         UNCHANGED <<db, listVars, metaVars, flagVars>>,
         UNCHANGED <<prefix, mode, results, meta, swept, busy, selected, dialogVars>>,
         sinceSearch' = sinceSearch \cup {k \in Keys : db'[k] # db[k]}
  PROVE  IInv'
<1> USE DEF IInv
<1>1. sinceSearch' = sinceSearch OBVIOUS
<1>2. UNCHANGED <<active, loading, loadingMore, stats, deleteKey, deleteUserHash>>
  BY DEF metaVars, flagVars, dialogVars
<1>3. UNCHANGED searchVars BY <1>1 DEF searchVars
<1>4. UNCHANGED <<hasMore, nextKey, touched>> BY DEF listVars
<1>5. ListInv'
  <2>1. loading \in BOOLEAN /\ loadingMore \in BOOLEAN /\ active \in Prefixes \cup {All}
        /\ stats \in (SUBSET Prefixes) \cup {Unknown}
    BY DEF ListInv, ListTypes
  <2> QED BY <2>1, <1>2, ListStays
<1>6. SearchInv'
  <2>1. prefix \in Prefixes \cup {All} /\ busy \in BOOLEAN /\ selected \in Keys \cup {NoKey}
        /\ deleteKey \in Keys \cup {NoKey} /\ deleteUserHash \in Users \cup {NoKey}
    BY DEF SearchInv, ViewTypes
  <2> QED BY <2>1, <1>2, <1>3, SearchStays
<1>7. AllOK(calls', db') /\ Quiet(calls, calls', {}) /\ Alike(calls, calls')
  BY AnswerPut DEF CallsOK
<1>8. MoreOK' /\ FormsOK' /\ WaitingOK' BY <1>1, <1>2, <1>4, <1>7, QuietKeeps
<1>9. LoadingOK'
  <2>1. In(calls', Loads) = In(calls, Loads) BY <1>7, InAlike
  <2> QED BY <2>1, <1>2 DEF WaitInv, LoadingOK
<1> QED BY <1>5, <1>6, <1>7, <1>8, <1>9 DEF WaitInv, CallsOK

LEMMA WrittenKeeps ==
  ASSUME IInv, NEW new \in Stores, NEW cs, AllOK(cs, db), Quiet(calls, cs, {}), Alike(calls, cs),
         Written(new, cs),
         UNCHANGED <<prefix, mode, results, meta, swept, busy, selected, dialogVars>>,
         sinceSearch' = sinceSearch \cup {k \in Keys : db'[k] # db[k]}
  PROVE  IInv'
<1> USE DEF IInv
<1> DEFINE K == Changed(db, new)
<1>1. /\ db' = new /\ calls' = Touch(cs, K) /\ touched' = touched \cup K
      /\ UNCHANGED <<records, hasMore, nextKey, from, upto, clean, metaVars, flagVars>>
  BY DEF Written, Changed
<1>2. sinceSearch' = sinceSearch \cup K /\ K \in SUBSET Keys BY <1>1 DEF Changed
<1>3. UNCHANGED <<active, loading, loadingMore, stats, deleteKey, deleteUserHash>>
  BY <1>1 DEF metaVars, flagVars, dialogVars
<1>4. cs \in [Slots -> Requests \cup {Idle}] BY DEF AllOK
<1>5. CallsOK' BY <1>1, TouchOK DEF CallsOK
<1>6. /\ Alike(cs, calls')
      /\ \A t \in Slots : cs[t] # Idle => calls'[t].since \subseteq cs[t].since \cup K
                                          /\ (calls'[t].fresh => cs[t].fresh)
  <2> HIDE DEF K
  <2> QED BY <1>1, <1>2, <1>4, TouchAlike
<1> HIDE DEF K
<1>7. Quiet(calls, calls', K) BY <1>6, QuietAlike
<1>8. MoreOK' /\ FormsOK' /\ WaitingOK' BY <1>1, <1>2, <1>3, <1>7, QuietKeeps
<1>9. LoadingOK'
  <2>1. In(calls', Loads) = In(calls, Loads) BY <1>6, InAlike
  <2> QED BY <2>1, <1>3 DEF WaitInv, LoadingOK
<1>10. ListInv'
  <2>1. ListTypes' BY <1>1, <1>2, <1>3 DEF ListInv, ListTypes
  <2>2. ASSUME clean PROVE ListOf(new, records, hasMore, nextKey, from, upto, touched \cup K)
    <3>1. records \in Seq(Records) /\ ListOf(db, records, hasMore, nextKey, from, upto, touched)
      BY <2>2 DEF ListInv, ListTypes, ListOK
    <3> QED BY <3>1, ListAges DEF K
  <2>3. ListOK' BY <2>2, <1>1 DEF ListOK
  <2> QED BY <2>1, <2>3 DEF ListInv
<1>11. SearchInv'
  <2>1. ViewTypes' BY <1>2, <1>3 DEF SearchInv, ViewTypes
  <2>2. BannerHonest' BY DEF SearchInv, ResultsOK, BannerHonest
  <2>3. ASSUME mode, meta # NoMeta, swept
        PROVE  HitsOf(new, results, meta.hasMore, meta.nextKey, First(meta.prefix),
                      Last(meta.prefix), sinceSearch \cup K)
    <3>1. HitsOf(db, results, meta.hasMore, meta.nextKey, First(meta.prefix), Last(meta.prefix),
                 sinceSearch)
      BY <2>3 DEF SearchInv, ResultsOK
    <3> QED BY <3>1, HitsAge DEF K
  <2>4. ResultsOK' BY <2>2, <2>3, <1>1, <1>2 DEF SearchInv, ResultsOK
  <2> QED BY <2>1, <2>4 DEF SearchInv
<1> QED BY <1>5, <1>8, <1>9, <1>10, <1>11 DEF WaitInv

LEMMA ServeKeeps ==
  ASSUME IInv, NEW s \in Slots, Serve(s) PROVE IInv'
<1> DEFINE c(a) == [calls[s] EXCEPT !.ans = a]
           Empty(n) == Page(<<>>, n, FALSE, 0)
<1>1. /\ sinceSearch' = sinceSearch \cup {k \in Keys : db'[k] # db[k]}
      /\ UNCHANGED <<prefix, mode, results, meta, swept, busy, selected, dialogVars>>
  BY DEF Serve
<1>2. AllOK(calls, db) /\ calls \in [Slots -> Requests \cup {Idle}] /\ db \in Stores
  BY DEF IInv, CallsOK, AllOK, ListInv, ListTypes
<1>3. \A n \in Nat : Empty(n) \in Pages
  <2>1. 0 \in Keys BY KeysAre
  <2> QED BY <2>1 DEF Page, Pages
<1>4. ASSUME calls[s] # Idle PROVE calls[s] \in Requests /\ AskOK(calls[s]) BY <1>2, <1>4 DEF AllOK
<1>5. AnsOK(db, c(Failed))
  <2>1. ASSUME calls[s] \in Requests PROVE c(Failed).ans = Failed BY <2>1 DEF Requests
  <2> QED BY <2>1, <1>4 DEF AnsOK
<1>6. ASSUME NEW n \in Nat, calls[s] # Idle, calls[s].op \in Writes PROVE AnsOK(db, c(Empty(n)))
  <2>1. calls[s] \in Requests BY <1>4, <1>6
  <2>2. c(Empty(n)).ans = Empty(n) /\ c(Empty(n)).op = calls[s].op BY <2>1 DEF Requests
  <2> QED BY <2>2, <1>3, <1>6 DEF AnsOK, Writes
<1>7. CASE ServeRead(s)
  <2>1. /\ calls[s] # Idle /\ calls[s].op \notin Writes
        /\ calls' = [calls EXCEPT ![s] = c(Read(calls[s]))]
        /\ UNCHANGED <<db, listVars, metaVars, flagVars>>
    BY <1>7 DEF ServeRead
  <2>2. /\ Read(calls[s]) \in Pages \cup Counts \cup {Failed}
        /\ AnsOK(db, c(Read(calls[s])))
    BY <2>1, <1>2, <1>4, ReadIs
  <2> QED BY <2>1, <2>2, <1>1, AnswerKeeps
<1>8. CASE Lose(s)
  <2>1. /\ calls[s] # Idle /\ calls' = [calls EXCEPT ![s] = c(Failed)]
        /\ UNCHANGED <<db, listVars, metaVars, flagVars>>
    BY <1>8 DEF Lose
  <2> QED BY <2>1, <1>1, <1>5, AnswerKeeps
<1>9. CASE ServeWrite(s)
  <2>1. calls[s] # Idle /\ calls[s].op \in {"post", "delete"} BY <1>9 DEF ServeWrite
  <2>2. calls[s] \in Requests /\ calls[s].op \in Writes BY <2>1, <1>4 DEF Writes
  <2>3. CASE /\ calls' = [calls EXCEPT ![s] = c(Failed)]
             /\ UNCHANGED <<db, listVars, metaVars, flagVars>>
    BY <2>1, <2>3, <1>1, <1>5, AnswerKeeps
  <2>4. CASE Written(IF calls[s].op = "post" THEN PutKey(db, calls[s].lo, calls[s].value)
                                             ELSE DeleteKey(db, calls[s].lo),
                     [calls EXCEPT ![s] = c(Empty(0))])
    <3> DEFINE new == IF calls[s].op = "post" THEN PutKey(db, calls[s].lo, calls[s].value)
                                              ELSE DeleteKey(db, calls[s].lo)
    <3>1. new \in Stores
      <4>1. calls[s].value \in Values \cup {NoValue} BY <2>2 DEF Requests
      <4> QED BY <4>1, <1>2 DEF PutKey, DeleteKey, Stores
    <3> HIDE DEF new
    <3>2. AnsOK(db, c(Empty(0))) /\ Empty(0) \in Pages BY <2>1, <2>2, <1>3, <1>6
    <3> DEFINE cs == [calls EXCEPT ![s] = c(Empty(0))]
    <3>3. AllOK(cs, db) /\ Quiet(calls, cs, {}) /\ Alike(calls, cs)
      BY <2>1, <3>2, <1>2, AnswerPut
    <3>4. Written(new, cs) BY <2>4 DEF new
    <3> HIDE DEF cs
    <3> QED BY <3>1, <3>3, <3>4, <1>1, WrittenKeeps
  <2> QED BY <1>9, <2>3, <2>4 DEF ServeWrite
<1>10. CASE ServeCascade(s)
  <2> DEFINE doomed == InOrder(Scanned(CascadeLimit) \cap Owned(calls[s].lo))
             new(n) == [k \in Keys |-> IF \E i \in 1..n : doomed[i] = k THEN NoValue ELSE db[k]]
             a(n) == IF n = Len(doomed) THEN Empty(n) ELSE Failed
  <2>1. calls[s] # Idle /\ calls[s].op = "deleteUser" BY <1>10 DEF ServeCascade
  <2>2. PICK n \in 0..Len(doomed) : Written(new(n), [calls EXCEPT ![s] = c(a(n))])
    BY <1>10 DEF ServeCascade
  <2>3. n \in Nat BY <2>2
  <2>4. new(n) \in Stores BY <1>2 DEF Stores
  <2>5. AnsOK(db, c(a(n))) /\ a(n) \in Pages \cup {Failed}
    <3>1. AnsOK(db, c(Empty(n))) BY <2>1, <2>3, <1>6 DEF Writes
    <3>2. Empty(n) \in Pages BY <2>3, <1>3
    <3>3. a(n) = Empty(n) \/ a(n) = Failed OBVIOUS
    <3> HIDE DEF a, Done
    <3> QED BY <3>1, <3>2, <3>3, <1>5
  <2> DEFINE cs == [calls EXCEPT ![s] = c(a(n))]
  <2> HIDE DEF a, new
  <2>6. AllOK(cs, db) /\ Quiet(calls, cs, {}) /\ Alike(calls, cs)
    BY <2>1, <2>5, <1>2, AnswerPut
  <2>7. Written(new(n), cs) BY <2>2
  <2> HIDE DEF cs
  <2> QED BY <2>4, <2>6, <2>7, <1>1, WrittenKeeps
<1> QED BY <1>7, <1>8, <1>9, <1>10 DEF Serve

LEMMA OtherKeeps ==
  ASSUME IInv, Other PROVE IInv'
<1>1. PICK k \in Keys, v \in OtherValues : Written([db EXCEPT ![k] = v], calls)
  BY DEF Other, OtherWrite
<1> DEFINE new == [db EXCEPT ![k] = v]
<1>2. new \in Stores
  <2>1. db \in Stores BY DEF IInv, ListInv, ListTypes
  <2>2. v \in Values \cup {NoValue} BY DataAssumption
  <2> QED BY <2>1, <2>2 DEF Stores
<1>3. AllOK(calls, db) BY DEF IInv, CallsOK
<1>4. Quiet(calls, calls, {}) BY QuietSame
<1>5. Alike(calls, calls) BY DEF Alike, SameAsk
<1>6. /\ sinceSearch' = sinceSearch \cup {l \in Keys : db'[l] # db[l]}
      /\ UNCHANGED <<prefix, mode, results, meta, swept, busy, selected, dialogVars>>
  BY DEF Other
<1> HIDE DEF new
<1> QED BY <1>1, <1>2, <1>3, <1>4, <1>5, <1>6, WrittenKeeps DEF new

----------------------------------------------------------------------------
(* How an answer continues what is there. *)
LEMMA Appended ==
  ASSUME NEW old \in Seq(Records), NEW new \in Seq(Records)
  PROVE  LET both == old \o new
         IN  /\ both \in Seq(Records)
             /\ \A i \in DOMAIN both :
                  (i \in DOMAIN old /\ both[i] = old[i]) \/
                  (i > Len(old) /\ i - Len(old) \in DOMAIN new /\ both[i] = new[i - Len(old)])
             /\ \A i \in DOMAIN old : i \in DOMAIN both /\ both[i] = old[i] /\ i <= Len(old)
             /\ \A i \in DOMAIN new : Len(old) + i \in DOMAIN both /\ both[Len(old) + i] = new[i]
             /\ DOMAIN both \subseteq Int /\ Len(old) \in Nat
             /\ \A i \in DOMAIN both : both[i].key \in Int
             /\ Len(both) = Len(old) + Len(new)
<1> DEFINE both == old \o new
<1>1. both \in Seq(Records) /\ Len(both) = Len(old) + Len(new) /\ Len(old) \in Nat /\ Len(new) \in Nat
  OBVIOUS
<1>2. DOMAIN both = 1..(Len(old) + Len(new)) /\ DOMAIN old = 1..Len(old) /\ DOMAIN new = 1..Len(new)
  OBVIOUS
<1>3. \A i \in DOMAIN both : both[i] = IF i <= Len(old) THEN old[i] ELSE new[i - Len(old)] OBVIOUS
<1>4. \A i \in DOMAIN both : both[i].key \in Int
  <2>1. \A i \in DOMAIN both : both[i] \in Records OBVIOUS
  <2>2. Keys \subseteq Int BY KeysAre
  <2> QED BY <2>1, <2>2 DEF Records
<1> HIDE DEF both
<1>5. \A i \in DOMAIN both :
        (i \in DOMAIN old /\ both[i] = old[i]) \/
        (i > Len(old) /\ i - Len(old) \in DOMAIN new /\ both[i] = new[i - Len(old)])
  BY <1>1, <1>2, <1>3
<1>6. \A i \in DOMAIN old : i \in DOMAIN both /\ both[i] = old[i] /\ i <= Len(old)
  BY <1>1, <1>2, <1>3
<1>7. \A i \in DOMAIN new : Len(old) + i \in DOMAIN both /\ both[Len(old) + i] = new[i]
  BY <1>1, <1>2, <1>3
<1> QED BY <1>1, <1>2, <1>4, <1>5, <1>6, <1>7 DEF both

LEMMA ListGrows ==
  ASSUME NEW d, NEW old \in Seq(Records), NEW new \in Seq(Records), NEW more \in BOOLEAN,
         NEW next \in Keys, NEW mid \in Keys, NEW lo \in Keys, NEW hi, NEW hi2 \in Keys, NEW T, NEW T2,
         NEW open, open = TRUE,
         ListOf(d, old, open, mid, lo, hi, T), ListOf(d, new, more, next, mid, hi2, T2), T2 \subseteq T
  PROVE  ListOf(d, old \o new, more, next, lo, hi2, T)
<1> DEFINE both == old \o new
<1>1. Keys \subseteq Int BY KeysAre
<1>2. both \in Seq(Records) /\ DOMAIN both \subseteq Int /\ Len(old) \in Nat BY Appended
<1>3. \A i \in DOMAIN both :
        (i \in DOMAIN old /\ both[i] = old[i]) \/
        (i > Len(old) /\ i - Len(old) \in DOMAIN new /\ both[i] = new[i - Len(old)])
  BY Appended
<1>4. \A i \in DOMAIN old : i \in DOMAIN both /\ both[i] = old[i] /\ i <= Len(old) BY Appended
<1>5. \A i \in DOMAIN new : Len(old) + i \in DOMAIN both /\ both[Len(old) + i] = new[i] BY Appended
<1>6. \A i \in DOMAIN both : both[i].key \in Int BY Appended
<1> HIDE DEF both
<1>7. lo <= mid /\ \A i \in DOMAIN old : lo <= old[i].key /\ old[i].key < mid BY DEF ListOf, Starts
<1>8. /\ more => mid <= next
      /\ \A i \in DOMAIN new : mid <= new[i].key /\ (more => new[i].key < next)
  BY DEF ListOf, Starts
<1>9. Ascending(both)
  <2>1. /\ \A i, j \in DOMAIN old : i < j => old[i].key < old[j].key
        /\ \A i, j \in DOMAIN new : i < j => new[i].key < new[j].key
    BY DEF ListOf, Ascending
  <2>2. ASSUME NEW i \in DOMAIN both, NEW j \in DOMAIN both, i < j PROVE both[i].key < both[j].key
    <3>0. i \in Int /\ j \in Int /\ both[i].key \in Int /\ both[j].key \in Int BY <1>2, <1>6
    <3>1. CASE i \in DOMAIN old /\ both[i] = old[i] /\ j \in DOMAIN old /\ both[j] = old[j]
      BY <3>1, <2>1, <2>2
    <3>2. CASE i > Len(old) /\ j > Len(old)
      <4>1. /\ i - Len(old) \in DOMAIN new /\ both[i] = new[i - Len(old)]
            /\ j - Len(old) \in DOMAIN new /\ both[j] = new[j - Len(old)]
        BY <3>0, <3>2, <1>2, <1>3, <1>4
      <4>2. i - Len(old) < j - Len(old) BY <3>0, <1>2, <2>2
      <4> QED BY <4>1, <4>2, <2>1
    <3>3. CASE i \in DOMAIN old /\ both[i] = old[i] /\ j > Len(old)
      <4>1. j - Len(old) \in DOMAIN new /\ both[j] = new[j - Len(old)]
        BY <3>0, <3>3, <1>2, <1>3, <1>4
      <4>2. both[i].key < mid /\ mid <= both[j].key BY <3>3, <4>1, <1>7, <1>8
      <4> QED BY <4>2, <3>0, <1>1
    <3>4. CASE i > Len(old) /\ j \in DOMAIN old
      BY <3>0, <3>4, <1>2, <1>4, <2>2
    <3> QED BY <3>1, <3>2, <3>3, <3>4, <1>3
  <2> QED BY <2>2 DEF Ascending
<1>10. Starts(both, more, next, lo)
  <2>1. ASSUME NEW i \in DOMAIN both PROVE lo <= both[i].key /\ (more => both[i].key < next)
    <3>1. both[i].key \in Int /\ lo \in Int /\ mid \in Int /\ next \in Int BY <1>1, <1>6
    <3>2. CASE i \in DOMAIN old /\ both[i] = old[i] BY <3>1, <3>2, <1>7, <1>8
    <3>3. CASE i - Len(old) \in DOMAIN new /\ both[i] = new[i - Len(old)]
      <4>1. mid <= both[i].key /\ (more => both[i].key < next) BY <3>3, <1>8
      <4> QED BY <4>1, <3>1, <1>7
    <3> QED BY <3>2, <3>3, <1>3
  <2>2. more => lo <= next
    <3>1. lo \in Int /\ mid \in Int /\ next \in Int BY <1>1
    <3> QED BY <3>1, <1>7, <1>8
  <2> QED BY <2>1, <2>2 DEF Starts
<1>11. Faithful(d, both, T)
  <2>1. /\ \A i \in DOMAIN old : old[i].key \notin T => d[old[i].key] = old[i].value
        /\ \A i \in DOMAIN new : new[i].key \notin T => d[new[i].key] = new[i].value
    BY DEF ListOf, Faithful
  <2>2. ASSUME NEW i \in DOMAIN both, both[i].key \notin T PROVE d[both[i].key] = both[i].value
    <3>1. CASE i \in DOMAIN old /\ both[i] = old[i] BY <3>1, <2>1, <2>2
    <3>2. CASE i - Len(old) \in DOMAIN new /\ both[i] = new[i - Len(old)] BY <3>2, <2>1, <2>2
    <3> QED BY <3>1, <3>2, <1>3
  <2> QED BY <2>2 DEF Faithful
<1>12. Complete(d, both, more, next, lo, hi2, T)
  <2>1. ASSUME NEW k \in Keys \ T, d[k] # NoValue, lo <= k, k < Reached(more, next, hi2)
        PROVE  Shows(both, k)
    <3>1. CASE k < mid
      <4>1. Shows(old, k) BY <2>1, <3>1 DEF ListOf, Complete, Reached
      <4> QED BY <4>1, <1>4 DEF Shows
    <3>2. CASE mid <= k
      <4>1. Shows(new, k) BY <2>1, <3>2 DEF ListOf, Complete
      <4> QED BY <4>1, <1>5 DEF Shows
    <3>3. k \in Int /\ mid \in Int BY <1>1
    <3> QED BY <3>1, <3>2, <3>3
  <2> QED BY <2>1 DEF Complete
<1> QED BY <1>9, <1>10, <1>11, <1>12 DEF ListOf, both

LEMMA HitsGrow ==
  ASSUME NEW d, NEW old \in Seq(Records), NEW new \in Seq(Records), NEW more \in BOOLEAN,
         NEW next \in Keys, NEW mid \in Keys, NEW lo \in Keys, NEW hi \in Keys, NEW T, NEW T2,
         NEW open, open = TRUE,
         HitsOf(d, old, open, mid, lo, hi, T), HitsOf(d, new, more, next, mid, hi, T2), T2 \subseteq T
  PROVE  HitsOf(d, old \o new, more, next, lo, hi, T)
<1> DEFINE both == old \o new
<1>1. Keys \subseteq Int BY KeysAre
<1>2. \A i \in DOMAIN both : (i \in DOMAIN old /\ both[i] = old[i]) \/
                             (i - Len(old) \in DOMAIN new /\ both[i] = new[i - Len(old)])
  BY Appended
<1>3. \A i \in DOMAIN old : i \in DOMAIN both /\ both[i] = old[i] BY Appended
<1>4. \A i \in DOMAIN new : Len(old) + i \in DOMAIN both /\ both[Len(old) + i] = new[i] BY Appended
<1>5. \A i \in DOMAIN both : both[i].key \in Int BY Appended
<1> HIDE DEF both
<1>6. lo <= mid /\ \A i \in DOMAIN old : lo <= old[i].key /\ old[i].key < mid BY DEF HitsOf, Starts
<1>7. /\ more => mid <= next
      /\ \A i \in DOMAIN new : mid <= new[i].key /\ (more => new[i].key < next)
  BY DEF HitsOf, Starts
<1>8. Starts(both, more, next, lo)
  <2>1. ASSUME NEW i \in DOMAIN both PROVE lo <= both[i].key /\ (more => both[i].key < next)
    <3>1. both[i].key \in Int /\ lo \in Int /\ mid \in Int /\ next \in Int BY <1>1, <1>5
    <3>2. CASE i \in DOMAIN old /\ both[i] = old[i] BY <3>1, <3>2, <1>6, <1>7
    <3>3. CASE i - Len(old) \in DOMAIN new /\ both[i] = new[i - Len(old)]
      <4>1. mid <= both[i].key /\ (more => both[i].key < next) BY <3>3, <1>7
      <4> QED BY <4>1, <3>1, <1>6
    <3> QED BY <3>2, <3>3, <1>2
  <2>2. more => lo <= next
    <3>1. lo \in Int /\ mid \in Int /\ next \in Int BY <1>1
    <3> QED BY <3>1, <1>6, <1>7
  <2> QED BY <2>1, <2>2 DEF Starts
<1>9. Selects(d, both, more, next, lo, hi, T)
  <2>1. ASSUME NEW k \in Keys \ T, lo <= k, k < Reached(more, next, hi)
        PROVE  d[k] \in Hits <=> Shows(both, k)
    <3>1. Shows(both, k) <=> Shows(old, k) \/ Shows(new, k) BY <1>2, <1>3, <1>4 DEF Shows
    <3>2. k \in Int /\ mid \in Int BY <1>1
    <3>3. CASE k < mid
      <4>1. d[k] \in Hits <=> Shows(old, k) BY <2>1, <3>3 DEF HitsOf, Selects, Reached
      <4>2. ~Shows(new, k)
        <5>1. \A i \in DOMAIN new : new[i].key \in Int /\ mid <= new[i].key BY <1>4, <1>5, <1>7
        <5> QED BY <5>1, <3>2, <3>3 DEF Shows
      <4> QED BY <3>1, <4>1, <4>2
    <3>4. CASE mid <= k
      <4>1. d[k] \in Hits <=> Shows(new, k) BY <2>1, <3>4 DEF HitsOf, Selects
      <4>2. ~Shows(old, k)
        <5>1. \A i \in DOMAIN old : old[i].key \in Int /\ old[i].key < mid BY <1>3, <1>5, <1>6
        <5> QED BY <5>1, <3>2, <3>4 DEF Shows
      <4> QED BY <3>1, <4>1, <4>2
    <3> QED BY <3>2, <3>3, <3>4
  <2> QED BY <2>1 DEF Selects
<1> QED BY <1>8, <1>9 DEF HitsOf, both

----------------------------------------------------------------------------
(* What comes back, and is not a form's or loadMore's. *)
LEMMA QuietTwice ==
  ASSUME NEW cs, NEW ds, NEW es, Quiet(cs, ds, {}), Quiet(ds, es, {}) PROVE Quiet(cs, es, {})
<1>1. SUFFICES ASSUME NEW t \in Slots, Watched(cs[t]) \/ Watched(es[t])
               PROVE  /\ cs[t] # Idle /\ es[t] # Idle /\ SameAsk(cs[t], es[t])
                      /\ es[t].since \subseteq cs[t].since \cup {} /\ (es[t].fresh => cs[t].fresh)
  BY DEF Quiet
<1>2. Watched(ds[t])
  <2>1. CASE Watched(cs[t]) BY <2>1 DEF Quiet, Watched, SameAsk
  <2>2. CASE Watched(es[t]) BY <2>2 DEF Quiet, Watched, SameAsk
  <2> QED BY <1>1, <2>1, <2>2
<1>3. /\ cs[t] # Idle /\ ds[t] # Idle /\ SameAsk(cs[t], ds[t])
      /\ ds[t].since \subseteq cs[t].since \cup {} /\ (ds[t].fresh => cs[t].fresh)
  BY <1>2 DEF Quiet
<1>4. /\ es[t] # Idle /\ SameAsk(ds[t], es[t])
      /\ es[t].since \subseteq ds[t].since \cup {} /\ (es[t].fresh => ds[t].fresh)
  BY <1>2 DEF Quiet
<1>5. SameAsk(cs[t], es[t]) BY <1>3, <1>4 DEF SameAsk
<1> QED BY <1>3, <1>4, <1>5

(* The answer of a request, and the request that follows in its slot. *)
LEMMA PutKeeps ==
  ASSUME IInv, NEW s \in Slots, ~Watched(calls[s]), NEW c, Good(db, c), ~Watched(c),
         calls' = [calls EXCEPT ![s] = c],
         UNCHANGED <<db, hasMore, nextKey, touched, loadingMore, busy, mode, meta, sinceSearch>>,
         loading' => \/ c # Idle /\ c.op \in Loads
                     \/ loading /\ s \notin In(calls, Loads)
  PROVE  CallsOK' /\ WaitInv'
<1> USE DEF IInv
<1>1. AllOK(calls, db) /\ DOMAIN calls = Slots BY DEF CallsOK, AllOK
<1>2. CallsOK' BY <1>1, PutOK DEF CallsOK
<1>3. Quiet(calls, calls', {}) BY <1>1, QuietPut
<1>4. MoreOK' /\ FormsOK' /\ WaitingOK' BY <1>3, QuietKeeps
<1>5. LoadingOK'
  <2>1. \A t \in Slots : calls'[t] = IF t = s THEN c ELSE calls[t] BY <1>1
  <2>2. In(calls', Loads) = IF c # Idle /\ c.op \in Loads THEN In(calls, Loads) \cup {s}
                            ELSE In(calls, Loads) \ {s}
    BY <2>1 DEF In
  <2> QED BY <2>2 DEF WaitInv, LoadingOK
<1> QED BY <1>2, <1>4, <1>5 DEF WaitInv

(* The same, with a list that takes the place of the one before. *)
LEMMA PutAnewKeeps ==
  ASSUME IInv, NEW s \in Slots, ~Watched(calls[s]), NEW c, Good(db, c), ~Watched(c),
         calls' = Outdated([calls EXCEPT ![s] = c]),
         UNCHANGED <<db, loadingMore, busy, mode, meta, sinceSearch>>,
         loading' => c # Idle /\ c.op \in Loads
  PROVE  CallsOK' /\ WaitInv'
<1> USE DEF IInv
<1> DEFINE cs == [calls EXCEPT ![s] = c]
<1>1. AllOK(calls, db) /\ DOMAIN calls = Slots BY DEF CallsOK, AllOK
<1>2. AllOK(cs, db) BY <1>1, PutOK
<1>3. cs \in [Slots -> Requests \cup {Idle}] BY <1>2 DEF AllOK
<1>4. Quiet(calls, cs, {}) BY <1>1, QuietPut
<1>5. c # Idle /\ c.op \in Loads => s \in In(cs, Loads) BY <1>1 DEF In
<1> HIDE DEF cs
<1>6. calls' = Outdated(cs) BY DEF cs
<1>7. CallsOK' BY <1>2, <1>6, OutdatedOK DEF CallsOK
<1>8. /\ Alike(cs, calls')
      /\ \A t \in In(cs, {"more"}) : ~calls'[t].fresh
      /\ \A t \in Slots : cs[t] # Idle => calls'[t].since = cs[t].since
                                          /\ (calls'[t].fresh => cs[t].fresh)
  <2>1. Alike(cs, Outdated(cs)) BY <1>3, OutdatedAlike
  <2>2. \A t \in In(cs, {"more"}) : ~Outdated(cs)[t].fresh BY <1>3, OutdatedAlike
  <2>3. \A t \in Slots : cs[t] # Idle => Outdated(cs)[t].since = cs[t].since
                                         /\ (Outdated(cs)[t].fresh => cs[t].fresh)
    BY <1>3, OutdatedAlike
  <2> QED BY <2>1, <2>2, <2>3, <1>6
<1>9. \A t \in Slots : cs[t] # Idle => calls'[t].since \subseteq cs[t].since \cup {}
                                       /\ (calls'[t].fresh => cs[t].fresh)
  BY <1>8
<1>10. Quiet(calls, calls', {}) BY <1>4, <1>8, <1>9, QuietAlike
<1>11. \A t \in In(calls', {"more"}) : ~calls'[t].fresh
  <2>1. In(calls', {"more"}) = In(cs, {"more"}) BY <1>8, InAlike
  <2> QED BY <2>1, <1>8
<1>12. MoreOK' /\ FormsOK' /\ WaitingOK' BY <1>10, <1>11, QuietKeeps
<1>13. LoadingOK'
  <2>1. In(calls', Loads) = In(cs, Loads) BY <1>8, InAlike
  <2> QED BY <2>1, <1>5 DEF WaitInv, LoadingOK
<1> QED BY <1>7, <1>12, <1>13 DEF WaitInv

LEMMA ReplaceIs ==
  ASSUME IInv, NEW s \in Slots, calls[s] # Idle, calls[s].ans \in Pages,
         NEW lo \in Keys, NEW hi \in Keys, PageIs(db, calls[s].ans, lo, hi, calls[s].since),
         Replace(s, lo, hi), UNCHANGED <<db, stats, active, loadingMore>>, loading' \in BOOLEAN
  PROVE  ListInv'
<1> DEFINE page == calls[s].ans
<1>1. page.records \in Seq(Records) /\ page.hasMore \in BOOLEAN /\ page.nextKey \in Keys BY DEF Pages
<1>2. calls[s].since \subseteq Keys BY DEF IInv, CallsOK, AllOK, Requests
<1>3. /\ records' = page.records /\ hasMore' = page.hasMore /\ nextKey' = page.nextKey
      /\ from' = lo /\ upto' = hi /\ clean' = TRUE /\ touched' = calls[s].since
  BY DEF Replace
<1>4. ListOf(db, page.records, page.hasMore, page.nextKey, lo, hi, calls[s].since) BY DEF PageIs
<1> HIDE DEF page
<1>5. ListTypes' BY <1>1, <1>2, <1>3 DEF IInv, ListInv, ListTypes
<1>6. ListOK' BY <1>3, <1>4 DEF ListOK
<1> QED BY <1>5, <1>6 DEF ListInv

(* The slot of a request that was answered, and what is known of the request. *)
LEMMA AnsweredIs ==
  ASSUME IInv, NEW s \in Slots, NEW op, Answered(s, op)
  PROVE  /\ calls[s] # Idle /\ calls[s] \in Requests /\ calls[s].op = op /\ AskOK(calls[s])
         /\ AnsOK(db, calls[s]) /\ calls[s].ans # Pending /\ (Ok(s) <=> calls[s].ans # Failed)
         /\ calls[s].since \subseteq Keys /\ calls[s].lo \in Keys \cup {All}
         /\ calls[s].was \in Metas \cup Keys \cup {All, Unknown} /\ calls[s].ask \in Asks
         /\ \A ops : s \in In(calls, ops) <=> op \in ops
<1>1. calls[s] # Idle /\ calls[s].op = op /\ calls[s].ans # Pending BY DEF Answered
<1>2. calls[s] \in Requests /\ AskOK(calls[s]) /\ AnsOK(db, calls[s])
  BY <1>1 DEF IInv, CallsOK, AllOK
<1>3. /\ calls[s].since \subseteq Keys /\ calls[s].lo \in Keys \cup {All}
      /\ calls[s].was \in Metas \cup Keys \cup {All, Unknown} /\ calls[s].ask \in Asks
  BY <1>2 DEF Requests, Asks
<1>4. \A ops : s \in In(calls, ops) <=> op \in ops BY <1>1 DEF In
<1> QED BY <1>1, <1>2, <1>3, <1>4 DEF Ok

LEMMA IdleGood == ~Watched(Idle) /\ \A d : Good(d, Idle)
BY DEF Watched, Good

LEMMA PagesKeep ==
  ASSUME IInv, NEW s \in Slots, DeliverPartition(s) \/ DeliverRefresh(s) \/ DeliverTick(s),
         UNCHANGED viewVars
  PROVE  IInv'
<1>1. UNCHANGED <<prefix, searchVars, busy, selected, deleteKey, deleteUserHash, mode, meta, sinceSearch>>
  BY DEF viewVars, dialogVars, searchVars
<1>2. ASSUME UNCHANGED db PROVE SearchInv'
  <2>1. prefix \in Prefixes \cup {All} /\ busy \in BOOLEAN /\ selected \in Keys \cup {NoKey}
        /\ deleteKey \in Keys \cup {NoKey} /\ deleteUserHash \in Users \cup {NoKey} /\ SearchInv
    BY DEF IInv, SearchInv, ViewTypes
  <2> QED BY <2>1, <1>1, <1>2, SearchStays
<1>3. /\ loading \in BOOLEAN /\ loadingMore \in BOOLEAN /\ active \in Prefixes \cup {All}
      /\ stats \in (SUBSET Prefixes) \cup {Unknown} /\ ListInv
  BY DEF IInv, ListInv, ListTypes
<1>4. CASE DeliverPartition(s)
  <2>1. /\ Answered(s, "partition") /\ loading' = FALSE
        /\ UNCHANGED <<db, stats, active, loadingMore>>
    BY <1>4 DEF DeliverPartition, metaVars
  <2>2. ~Watched(calls[s]) BY <2>1, AnsweredIs DEF Watched, Forms
  <2>3. CASE Ok(s)
    <3>1. Replace(s, calls[s].lo, calls[s].hi) /\ calls' = Outdated([calls EXCEPT ![s] = Idle])
      BY <1>4, <2>3 DEF DeliverPartition, Done
    <3>2. /\ calls[s] # Idle /\ calls[s].op = "partition" /\ AskOK(calls[s])
          /\ AnsOK(db, calls[s]) /\ calls[s].ans # Pending /\ calls[s].ans # Failed
      BY <2>1, <2>3, AnsweredIs
    <3>3. /\ calls[s].ans \in Pages /\ calls[s].lo \in Keys /\ calls[s].hi \in Keys
          /\ PageIs(db, calls[s].ans, calls[s].lo, calls[s].hi, calls[s].since)
      BY <3>2 DEF AnsOK, AskOK
    <3>4. ListInv' BY <2>1, <3>1, <3>2, <3>3, ReplaceIs
    <3>5. CallsOK' /\ WaitInv' BY <1>1, <2>1, <2>2, <3>1, IdleGood, PutAnewKeeps
    <3> QED BY <1>2, <2>1, <3>4, <3>5 DEF IInv
  <2>4. CASE ~Ok(s)
    <3>1. calls' = [calls EXCEPT ![s] = Idle] /\ UNCHANGED listVars
      BY <1>4, <2>4 DEF DeliverPartition, Done
    <3>2. ListInv' BY <1>3, <2>1, <3>1, ListStays
    <3>3. UNCHANGED <<hasMore, nextKey, touched>> BY <3>1 DEF listVars
    <3>4. CallsOK' /\ WaitInv' BY <1>1, <2>1, <2>2, <3>1, <3>3, IdleGood, PutKeeps
    <3> QED BY <1>2, <2>1, <3>2, <3>4 DEF IInv
  <2> QED BY <2>3, <2>4
<1>5. CASE DeliverRefresh(s)
  <2> DEFINE c == [Call("counts") EXCEPT !.ask = calls[s].ask, !.was = calls[s].was]
  <2>1. Answered(s, "refresh") /\ UNCHANGED <<db, stats, active, loading, loadingMore>>
    BY <1>5 DEF DeliverRefresh
  <2>2. /\ calls[s] # Idle /\ calls[s].op = "refresh" /\ AskOK(calls[s]) /\ calls[s].ask \in Asks
        /\ calls[s].was \in Metas \cup Keys \cup {All, Unknown}
        /\ AnsOK(db, calls[s]) /\ calls[s].ans # Pending /\ (Ok(s) <=> calls[s].ans # Failed)
    BY <2>1, AnsweredIs
  <2>3. ~Watched(calls[s]) BY <2>2 DEF Watched, Forms
  <2>4. calls[s].ask = "update" => calls[s].was \in Keys BY <2>2 DEF AskOK
  <2>5. Fresh(c) /\ c.op = "counts" BY <2>2, <2>4, WriteRequests
  <2>6. /\ Ok(s) => Replace(s, 0, LastKey) /\ calls' = Outdated([calls EXCEPT ![s] = c])
        /\ ~Ok(s) => calls' = [calls EXCEPT ![s] = c] /\ UNCHANGED listVars
    BY <1>5 DEF DeliverRefresh
  <2> HIDE DEF c
  <2>7. c # Idle /\ Good(db, c) /\ ~Watched(c) /\ c.op \in Loads
    BY <2>5, FreshGood DEF Watched, Forms, Loads
  <2>8. CASE Ok(s)
    <3>1. /\ calls[s].ans \in Pages /\ PageIs(db, calls[s].ans, 0, LastKey, calls[s].since)
      BY <2>2, <2>8 DEF AnsOK
    <3>2. 0 \in Keys /\ LastKey \in Keys BY KeysAre
    <3>3. ListInv' BY <1>3, <2>1, <2>2, <2>6, <2>8, <3>1, <3>2, ReplaceIs
    <3>4. CallsOK' /\ WaitInv' BY <1>1, <2>1, <2>3, <2>6, <2>7, <2>8, PutAnewKeeps
    <3> QED BY <1>2, <2>1, <3>3, <3>4 DEF IInv
  <2>9. CASE ~Ok(s)
    <3>1. ListInv' BY <1>3, <2>1, <2>6, <2>9, ListStays
    <3>2. UNCHANGED <<hasMore, nextKey, touched>> BY <2>6, <2>9 DEF listVars
    <3>3. CallsOK' /\ WaitInv' BY <1>1, <2>1, <2>3, <2>6, <2>7, <2>9, <3>2, PutKeeps
    <3> QED BY <1>2, <2>1, <3>1, <3>3 DEF IInv
  <2> QED BY <2>8, <2>9
<1>6. CASE DeliverTick(s)
  <2>1. /\ Answered(s, "tick") /\ calls' = [calls EXCEPT ![s] = Idle] /\ stats' \in {stats, Unknown}
        /\ UNCHANGED <<db, listVars, active, loading, loadingMore>>
    BY <1>6 DEF DeliverTick, FetchedStats, Done
  <2>2. ~Watched(calls[s]) /\ s \notin In(calls, Loads)
    BY <2>1, AnsweredIs DEF Watched, Forms, Loads
  <2>3. ListInv' BY <1>3, <2>1, ListStays
  <2>4. UNCHANGED <<hasMore, nextKey, touched>> BY <2>1 DEF listVars
  <2>5. CallsOK' /\ WaitInv' BY <1>1, <2>1, <2>2, <2>4, IdleGood, PutKeeps
  <2> QED BY <1>2, <2>1, <2>3, <2>5 DEF IInv
<1> QED BY <1>4, <1>5, <1>6

(* What the view does when an answer is in. *)
LEMMA CountsKeep ==
  ASSUME IInv, NEW s \in Slots, EndOfRefresh(s) \/ FirstCounts(s) PROVE IInv'
<1> DEFINE c == [Call("link") EXCEPT !.lo = calls[s].was, !.hi = calls[s].was]
           e == IF calls[s].ask = "update" THEN c ELSE Idle
<1>1. Answered(s, "counts") /\ AfterWrite(s) BY DEF EndOfRefresh, FirstCounts
<1>2. /\ calls[s] # Idle /\ calls[s].op = "counts" /\ AskOK(calls[s])
      /\ AnsOK(db, calls[s]) /\ calls[s].ans # Pending /\ (Ok(s) <=> calls[s].ans # Failed)
  BY <1>1, AnsweredIs
<1>3. Ok(s) => calls[s].ans.prefixes \subseteq Prefixes
  <2>1. Ok(s) => calls[s].ans \in Counts BY <1>2 DEF AnsOK
  <2> QED BY <2>1 DEF Counts
<1>4. ~Watched(calls[s]) BY <1>2 DEF Watched, Forms
<1>5. Ended(s) = [calls EXCEPT ![s] = e] BY DEF Ended, Done
<1>6. Good(db, e) /\ ~Watched(e)
  <2>1. CASE calls[s].ask = "update"
    <3>1. calls[s].was \in Keys BY <1>2, <2>1 DEF AskOK
    <3>2. Fresh(c) /\ c.op = "link" BY <3>1, LoadRequests
    <3> HIDE DEF c
    <3>3. Good(db, c) /\ ~Watched(c) BY <3>2, FreshGood DEF Watched, Forms
    <3> QED BY <2>1, <3>3
  <2>2. CASE calls[s].ask # "update" BY <2>2, IdleGood
  <2> QED BY <2>1, <2>2
<1> HIDE DEF c
<1>7. /\ loading \in BOOLEAN /\ loadingMore \in BOOLEAN /\ active \in Prefixes \cup {All}
      /\ stats \in (SUBSET Prefixes) \cup {Unknown} /\ records \in Seq(Records) /\ ListInv
  BY DEF IInv, ListInv, ListTypes
<1>8. ASSUME UNCHANGED <<db, searchVars, busy>>, prefix' \in Prefixes \cup {All} PROVE SearchInv'
  <2>1. /\ busy \in BOOLEAN /\ selected \in Keys \cup {NoKey}
        /\ deleteKey \in Keys \cup {NoKey} /\ deleteUserHash \in Users \cup {NoKey} /\ SearchInv
    BY DEF IInv, SearchInv, ViewTypes
  <2>2. selected' \in {selected, NoKey} /\ deleteKey' \in {deleteKey, NoKey}
        /\ deleteUserHash' \in {deleteUserHash, NoKey}
    BY <1>1 DEF AfterWrite
  <2> QED BY <2>1, <2>2, <1>8, SearchStays
<1>9. CASE EndOfRefresh(s)
  <2> HIDE DEF e
  <2>1. /\ loading' = FALSE /\ calls' = [calls EXCEPT ![s] = e]
        /\ stats' = (IF Ok(s) THEN calls[s].ans.prefixes ELSE Unknown)
        /\ UNCHANGED <<db, listVars, active, loadingMore, prefix, searchVars, busy>>
    BY <1>5, <1>9 DEF EndOfRefresh, DeliverCounts, FetchedStats
  <2>2. stats' \in (SUBSET Prefixes) \cup {Unknown} BY <2>1, <1>3
  <2>3. ListInv' BY <2>1, <2>2, <1>7, ListStays
  <2>4. prefix \in Prefixes \cup {All} BY DEF IInv, SearchInv, ViewTypes
  <2>5. SearchInv' BY <2>1, <2>4, <1>8
  <2>6. UNCHANGED <<hasMore, nextKey, touched, mode, meta, sinceSearch>>
    BY <2>1 DEF listVars, searchVars
  <2>7. CallsOK' /\ WaitInv' BY <2>1, <2>6, <1>4, <1>6, PutKeeps
  <2> QED BY <2>3, <2>5, <2>7 DEF IInv
<1>10. CASE FirstCounts(s)
  <2> DEFINE first == IF 1 \in Offered(s) THEN 1
                      ELSE CHOOSE p \in Offered(s) : \A q \in Offered(s) : p <= q
             load == [Call("partition") EXCEPT !.lo = First(first), !.hi = Last(first)]
  <2>1. /\ IsFirst(s) /\ prefix' = first /\ active' = first
        /\ stats' = calls[s].ans.prefixes /\ loading' = TRUE
        /\ UNCHANGED <<db, listVars, loadingMore, searchVars, busy>>
    BY <1>10 DEF FirstCounts
  <2>2. PICK t \in Slots : /\ IF calls[s].ask = "update" THEN calls[t] = Idle ELSE t = s
                           /\ calls' = [Ended(s) EXCEPT ![t] = load]
    BY <1>10 DEF FirstCounts
  <2>3. first \in Prefixes
    <3>1. Ok(s) /\ Offered(s) # {} BY <2>1 DEF IsFirst
    <3>2. Offered(s) \subseteq Prefixes
      <4>1. \A i \in DOMAIN records : records[i].key \in Keys
        <5>1. \A i \in DOMAIN records : records[i] \in Records BY <1>7
        <5> QED BY <5>1 DEF Records
      <4>2. {PrefixOf(k) : k \in RecordKeys(records)} \subseteq Prefixes
        BY <4>1, PartsOfKey DEF RecordKeys
      <4> QED BY <3>1, <4>2, <1>3, <1>7 DEF Offered, Partitions
    <3>3. Prefixes \subseteq Nat BY KeyFacts DEF Prefixes
    <3>4. \E p \in Offered(s) : \A q \in Offered(s) : p <= q BY <3>1, <3>2, <3>3, LeastExists
    <3> QED BY <3>2, <3>4
  <2> HIDE DEF first
  <2>4. Fresh(load) /\ load.op = "partition" BY <2>3, LoadRequests
  <2> HIDE DEF load, e
  <2>5. load # Idle /\ Good(db, load) /\ ~Watched(load) BY <2>4, FreshGood DEF Watched, Forms
  <2>6. AllOK(calls, db) /\ DOMAIN calls = Slots BY DEF IInv, CallsOK, AllOK
  <2>7. PICK ds : ds = [calls EXCEPT ![s] = e] OBVIOUS
  <2>8. AllOK(ds, db) /\ DOMAIN ds = Slots /\ Quiet(calls, ds, {})
    BY <2>6, <2>7, <1>4, <1>6, PutOK, QuietPut
  <2>9. calls' = [ds EXCEPT ![t] = load] BY <2>2, <2>7, <1>5
  <2>10. ~Watched(ds[t])
    <3>1. CASE calls[s].ask = "update"
      <4>1. calls[t] = Idle /\ t # s BY <2>2, <3>1, <1>2
      <4>2. ds[t] = Idle BY <4>1, <2>6, <2>7
      <4> QED BY <4>2, IdleGood
    <3>2. CASE calls[s].ask # "update"
      <4>1. ds[t] = e BY <2>2, <2>6, <2>7, <3>2
      <4> QED BY <4>1, <1>6
    <3> QED BY <3>1, <3>2
  <2>11. CallsOK' BY <2>1, <2>5, <2>8, <2>9, PutOK DEF CallsOK
  <2>12. Quiet(ds, calls', {}) BY <2>5, <2>8, <2>9, <2>10, QuietPut
  <2>13. Quiet(calls, calls', {}) BY <2>8, <2>12, QuietTwice
  <2>14. UNCHANGED <<hasMore, nextKey, touched, mode, meta, sinceSearch>>
    BY <2>1 DEF listVars, searchVars
  <2>15. MoreOK' /\ FormsOK' /\ WaitingOK' BY <2>1, <2>13, <2>14, QuietKeeps DEF IInv
  <2>16. LoadingOK'
    <3>1. calls'[t] = load BY <2>8, <2>9
    <3>2. t \in In(calls', Loads) BY <3>1, <2>4, <2>5 DEF In, Loads
    <3> QED BY <3>2 DEF LoadingOK
  <2>17. ListInv'
    <3>1. stats' \in (SUBSET Prefixes) \cup {Unknown} BY <2>1, <1>3 DEF IsFirst
    <3> QED BY <2>1, <2>3, <3>1, <1>7, ListStays
  <2>18. SearchInv' BY <2>1, <2>3, <1>8
  <2> QED BY <2>11, <2>15, <2>16, <2>17, <2>18 DEF IInv, WaitInv
<1> QED BY <1>9, <1>10

LEMMA WritesKeep ==
  ASSUME IInv, NEW s \in Slots, RemoveAnswered(s) \/ LinkAnswered(s) PROVE IInv'
<1>1. /\ loading \in BOOLEAN /\ loadingMore \in BOOLEAN /\ active \in Prefixes \cup {All}
      /\ stats \in (SUBSET Prefixes) \cup {Unknown} /\ ListInv
  BY DEF IInv, ListInv, ListTypes
<1>2. /\ prefix \in Prefixes \cup {All} /\ busy \in BOOLEAN /\ selected \in Keys \cup {NoKey}
      /\ deleteKey \in Keys \cup {NoKey} /\ deleteUserHash \in Users \cup {NoKey} /\ SearchInv
  BY DEF IInv, SearchInv, ViewTypes
<1>3. CASE RemoveAnswered(s)
  <2> DEFINE c == [Call("refresh") EXCEPT !.ask = calls[s].ask, !.was = calls[s].lo]
  <2>1. PICK op \in Writes : Answered(s, op) BY <1>3 DEF RemoveAnswered, DeliverWrite
  <2>2. UNCHANGED <<db, listVars, stats, active, loadingMore, prefix, searchVars, busy, selected>>
    BY <1>3 DEF RemoveAnswered, DeliverWrite, metaVars
  <2>3. deleteKey' \in {deleteKey, NoKey} /\ deleteUserHash' \in {deleteUserHash, NoKey}
    BY <1>3 DEF RemoveAnswered
  <2>4. SearchInv' BY <2>2, <2>3, <1>2, SearchStays
  <2>5. UNCHANGED <<hasMore, nextKey, touched, mode, meta, sinceSearch>>
    BY <2>2 DEF listVars, searchVars
  <2>6. /\ calls[s] # Idle /\ calls[s].op = op /\ AskOK(calls[s]) /\ calls[s].ask \in Asks
        /\ \A ops : s \in In(calls, ops) <=> op \in ops
    BY <2>1, AnsweredIs
  <2>7. ~Watched(calls[s]) /\ s \notin In(calls, Loads)
    BY <2>1, <2>6 DEF Watched, Forms, Loads, Writes
  <2>8. calls[s].lo \in Keys BY <2>1, <2>6 DEF AskOK
  <2>9. Fresh(c) /\ c.op = "refresh" BY <2>6, <2>8, WriteRequests
  <2>10. \/ calls' = [calls EXCEPT ![s] = c] /\ loading' = TRUE
         \/ calls' = [calls EXCEPT ![s] = Idle] /\ loading' = loading
    BY <1>3 DEF RemoveAnswered, DeliverWrite, Done
  <2> HIDE DEF c
  <2>11. c # Idle /\ Good(db, c) /\ ~Watched(c) /\ c.op \in Loads
    BY <2>9, FreshGood DEF Watched, Forms, Loads
  <2>12. ListInv' BY <2>2, <2>10, <1>1, ListStays
  <2>13. CASE calls' = [calls EXCEPT ![s] = c]
    <3>1. CallsOK' /\ WaitInv' BY <2>2, <2>5, <2>7, <2>11, <2>13, PutKeeps
    <3> QED BY <2>4, <2>12, <3>1 DEF IInv
  <2>14. CASE calls' = [calls EXCEPT ![s] = Idle] /\ loading' = loading
    <3>1. CallsOK' /\ WaitInv' BY <2>2, <2>5, <2>7, <2>14, IdleGood, PutKeeps
    <3> QED BY <2>4, <2>12, <3>1 DEF IInv
  <2> QED BY <2>10, <2>13, <2>14
<1>4. CASE LinkAnswered(s)
  <2>1. /\ Answered(s, "link") /\ calls' = [calls EXCEPT ![s] = Idle]
        /\ UNCHANGED <<db, listVars, metaVars, flagVars>>
        /\ selected' = (IF Ok(s) THEN calls[s].lo ELSE selected)
        /\ UNCHANGED <<prefix, searchVars, busy, deleteKey, deleteUserHash>>
    BY <1>4 DEF LinkAnswered, DeliverRead, Done, dialogVars
  <2>2. UNCHANGED <<stats, active, loading, loadingMore, hasMore, nextKey, touched, mode, meta, sinceSearch>>
    BY <2>1 DEF metaVars, flagVars, listVars, searchVars
  <2>3. /\ calls[s].op = "link" /\ AskOK(calls[s])
        /\ \A ops : s \in In(calls, ops) <=> "link" \in ops
    BY <2>1, AnsweredIs
  <2>4. calls[s].lo \in Keys BY <2>3 DEF AskOK
  <2>5. ~Watched(calls[s]) /\ s \notin In(calls, Loads) BY <2>3 DEF Watched, Forms, Loads
  <2>6. ListInv' BY <2>1, <2>2, <1>1, ListStays
  <2>7. SearchInv' BY <2>1, <2>4, <1>2, SearchStays
  <2>8. CallsOK' /\ WaitInv' BY <2>1, <2>2, <2>5, IdleGood, PutKeeps
  <2> QED BY <2>6, <2>7, <2>8 DEF IInv
<1> QED BY <1>3, <1>4

(* Keys are compared as numbers. *)
LEMMA KeyOrder ==
  \A a, b, c \in Keys : a <= a /\ (a <= b /\ b <= c => a <= c)
<1>1. Keys \subseteq Int BY KeysAre
<1> QED BY <1>1

(* A slot that is given back. *)
LEMMA GivenBack ==
  ASSUME IInv, NEW s \in Slots, calls' = [calls EXCEPT ![s] = Idle], db' = db
  PROVE  /\ CallsOK' /\ \A t \in Slots : t # s => calls'[t] = calls[t]
         /\ \A ops : In(calls', ops) = In(calls, ops) \ {s}
<1>1. AllOK(calls, db) /\ DOMAIN calls = Slots BY DEF IInv, CallsOK, AllOK
<1>2. CallsOK' BY <1>1, IdleGood, PutOK DEF CallsOK
<1>3. \A t \in Slots : calls'[t] = IF t = s THEN Idle ELSE calls[t] BY <1>1
<1>4. ASSUME NEW ops PROVE In(calls', ops) = In(calls, ops) \ {s} BY <1>3 DEF In
<1> QED BY <1>2, <1>3, <1>4

(* The answer of a form, whatever it does to the results. *)
LEMMA FormEnds ==
  ASSUME IInv, NEW s \in In(calls, Forms), calls' = [calls EXCEPT ![s] = Idle], busy' = FALSE,
         UNCHANGED <<db, listVars, metaVars, flagVars>>, SearchInv'
  PROVE  IInv'
<1>1. /\ loading \in BOOLEAN /\ loadingMore \in BOOLEAN /\ active \in Prefixes \cup {All}
      /\ stats \in (SUBSET Prefixes) \cup {Unknown} /\ ListInv
  BY DEF IInv, ListInv, ListTypes
<1>2. UNCHANGED <<stats, active, loading, loadingMore, hasMore, nextKey, touched>>
  BY DEF metaVars, flagVars, listVars
<1>3. ListInv' BY <1>1, <1>2, ListStays
<1>4. s \in Slots /\ calls[s].op \in Forms BY DEF In
<1>5. /\ CallsOK' /\ \A t \in Slots : t # s => calls'[t] = calls[t]
      /\ \A ops : In(calls', ops) = In(calls, ops) \ {s}
  BY <1>4, GivenBack
<1>6. In(calls', {"more"}) = In(calls, {"more"}) /\ In(calls', Loads) = In(calls, Loads)
  BY <1>4, <1>5 DEF In, Forms, Loads
<1>7. In(calls', Forms) = {} BY <1>5 DEF IInv, WaitInv, FormsOK
<1>8. In(calls', {"search"}) = {} BY <1>7 DEF In, Forms
<1>9. MoreOK'
  <2>1. \A t \in In(calls, {"more"}) : calls'[t] = calls[t] BY <1>4, <1>5 DEF In, Forms
  <2> QED BY <2>1, <1>2, <1>6 DEF IInv, WaitInv, MoreOK
<1>10. FormsOK' BY <1>7, <1>8 DEF FormsOK
<1>11. WaitingOK' /\ LoadingOK' BY <1>2, <1>6 DEF IInv, WaitInv, WaitingOK, LoadingOK
<1> QED BY <1>3, <1>5, <1>9, <1>10, <1>11 DEF IInv, WaitInv

LEMMA AnswersKeep ==
  ASSUME IInv, NEW s \in Slots, RangeAnswered(s) \/ LookupAnswered(s) PROVE IInv'
<1>1. /\ prefix \in Prefixes \cup {All} /\ selected \in Keys \cup {NoKey}
      /\ deleteKey \in Keys \cup {NoKey} /\ deleteUserHash \in Users \cup {NoKey} /\ SearchInv
  BY DEF IInv, SearchInv, ViewTypes
<1>2. CASE RangeAnswered(s)
  <2>1. /\ Answered(s, "range") /\ calls' = [calls EXCEPT ![s] = Idle] /\ busy' = FALSE
        /\ UNCHANGED <<db, listVars, metaVars, flagVars>>
        /\ UNCHANGED <<prefix, selected, deleteKey, deleteUserHash>>
    BY <1>2 DEF RangeAnswered, DeliverRead, Done, dialogVars
  <2>2. /\ calls[s].op = "range" /\ AnsOK(db, calls[s]) /\ calls[s].ans # Pending
        /\ (Ok(s) <=> calls[s].ans # Failed) /\ s \in In(calls, Forms)
    BY <2>1, AnsweredIs DEF Forms
  <2>3. SearchInv'
    <3>1. CASE Ok(s)
      <4>1. /\ mode' = TRUE /\ results' = calls[s].ans.records /\ meta' = NoMeta
            /\ UNCHANGED <<swept, sinceSearch>>
        BY <1>2, <3>1 DEF RangeAnswered
      <4>2. calls[s].ans.records \in Seq(Records) BY <2>2, <3>1 DEF AnsOK, Pages
      <4>3. ViewTypes' BY <4>1, <4>2, <2>1 DEF IInv, SearchInv, ViewTypes
      <4> QED BY <4>1, <4>3 DEF SearchInv, ResultsOK, BannerHonest
    <3>2. CASE ~Ok(s)
      <4>1. UNCHANGED searchVars BY <1>2, <3>2 DEF RangeAnswered
      <4> QED BY <4>1, <1>1, <2>1, SearchStays
    <3> QED BY <3>1, <3>2
  <2> QED BY <2>1, <2>2, <2>3, FormEnds
<1>3. CASE LookupAnswered(s)
  <2>1. /\ Answered(s, "lookup") /\ calls' = [calls EXCEPT ![s] = Idle] /\ busy' = FALSE
        /\ UNCHANGED <<db, listVars, metaVars, flagVars>>
        /\ UNCHANGED <<searchVars, deleteKey, deleteUserHash>>
    BY <1>3 DEF LookupAnswered, DeliverRead, Done, dialogVars
  <2>2. calls[s].op = "lookup" /\ AskOK(calls[s]) /\ s \in In(calls, Forms)
    BY <2>1, AnsweredIs DEF Forms
  <2>3. calls[s].lo \in Keys /\ PrefixOf(calls[s].lo) \in Prefixes
    BY <2>2, PartsOfKey DEF AskOK
  <2>4. prefix' \in {prefix, PrefixOf(calls[s].lo)} /\ selected' \in {selected, calls[s].lo}
    <3>1. CASE Ok(s) BY <1>3, <3>1 DEF LookupAnswered
    <3>2. CASE ~Ok(s) BY <1>3, <3>2 DEF LookupAnswered
    <3> QED BY <3>1, <3>2
  <2>5. SearchInv' BY <2>1, <2>3, <2>4, <1>1, SearchStays
  <2> QED BY <2>1, <2>2, <2>5, FormEnds
<1> QED BY <1>2, <1>3

(* What a search found: the chunk continues the banner it was asked from, if
   that is still there. *)
LEMMA SearchKeeps ==
  ASSUME IInv, NEW s \in Slots, SearchAnswered(s) PROVE IInv'
<1> DEFINE page == calls[s].ans
           c == calls[s]
<1>1. /\ Answered(s, "search") /\ calls' = [calls EXCEPT ![s] = Idle] /\ busy' = FALSE
      /\ UNCHANGED <<db, listVars, metaVars, flagVars>>
      /\ UNCHANGED <<prefix, selected, deleteKey, deleteUserHash>>
  BY DEF SearchAnswered, DeliverRead, Done, dialogVars
<1>2. /\ c # Idle /\ c \in Requests /\ c.op = "search" /\ AskOK(c)
      /\ AnsOK(db, c) /\ c.ans # Pending /\ (Ok(s) <=> c.ans # Failed) /\ c.since \subseteq Keys
      /\ s \in In(calls, Forms) /\ s \in In(calls, {"search"})
  BY <1>1, AnsweredIs DEF Forms
<1>3. /\ prefix \in Prefixes \cup {All} /\ selected \in Keys \cup {NoKey}
      /\ deleteKey \in Keys \cup {NoKey} /\ deleteUserHash \in Users \cup {NoKey} /\ SearchInv
      /\ mode \in BOOLEAN /\ swept \in BOOLEAN /\ sinceSearch \subseteq Keys
      /\ results \in Seq(Records) \cup {NoList}
  BY DEF IInv, SearchInv, ViewTypes
<1>4. CASE ~Ok(s)
  <2>1. UNCHANGED searchVars BY <1>4 DEF SearchAnswered
  <2>2. SearchInv' BY <2>1, <1>1, <1>3, SearchStays
  <2> QED BY <2>2, <1>1, <1>2, FormEnds
<1>5. CASE Ok(s)
  <2>1. page \in Pages /\ SearchOK(db, c) BY <1>2, <1>5 DEF AnsOK
  <2>2. /\ page.records \in Seq(Records) /\ page.scanned \in Nat /\ page.hasMore \in BOOLEAN
        /\ page.nextKey \in Keys /\ page.indexed \in BOOLEAN
    BY <2>1 DEF Pages
  <2>3. c.prefix \in Prefixes \cup {All} /\ c.prefix # 0 BY <1>2 DEF Requests, AskOK
  <2>4. /\ page.indexed => c.lo = All /\ ~page.hasMore
        /\ ~page.indexed => HitsOf(db, page.records, page.hasMore, page.nextKey, SearchedFrom(c),
                                   Last(c.prefix), c.since)
        /\ page.hasMore => page.nextKey <= Last(c.prefix)
    BY <2>1 DEF SearchOK, ChunkIs
  <2>5. page.hasMore => SearchedFrom(c) <= page.nextKey BY <2>2, <2>4 DEF HitsOf, Starts
  <2>6. First(c.prefix) \in Keys /\ Last(c.prefix) \in Keys BY <2>3, EndsAre
  <2>7. ASSUME NEW m, NEW count \in Nat, NEW scanned \in Nat, m = Meta(s, count, scanned),
               First(c.prefix) <= SearchedFrom(c), SearchedFrom(c) \in Keys
        PROVE  /\ MetaOK(m) /\ m # NoMeta /\ m.count = count /\ m.prefix = c.prefix
               /\ m.hasMore = page.hasMore /\ m.nextKey = page.nextKey
    <3>1. /\ m.count = count /\ m.scanned = scanned /\ m.prefix = c.prefix
          /\ m.hasMore = page.hasMore /\ m.nextKey = page.nextKey
      BY <2>7 DEF Meta
    <3>2. m \in Metas BY <2>2, <2>3, <2>7 DEF Meta, Metas
    <3>3. page.hasMore => First(c.prefix) <= page.nextKey
      BY <2>2, <2>5, <2>6, <2>7, KeyOrder
    <3> QED BY <3>1, <3>2, <3>3, <2>3, <2>4, ExplorerAssumption DEF MetaOK
  <2>8. CASE ~Continues(c)
    <3>1. /\ mode' = TRUE /\ results' = page.records
          /\ meta' = Meta(s, Len(page.records), page.scanned)
          /\ swept' = ~page.indexed /\ sinceSearch' = c.since
      BY <1>5, <2>8 DEF SearchAnswered, Found, Continues
    <3>2. SearchedFrom(c) = First(c.prefix) BY <1>2, <2>8 DEF AskOK, SearchedFrom
    <3>3. Len(page.records) \in Nat /\ First(c.prefix) <= SearchedFrom(c)
      <4>1. Len(page.records) \in Nat BY <2>2
      <4>2. First(c.prefix) <= First(c.prefix) BY <2>6, KeyOrder
      <4> QED BY <4>1, <4>2, <3>2
    <3>4. /\ MetaOK(meta') /\ meta' # NoMeta /\ meta'.count = Len(page.records)
          /\ meta'.prefix = c.prefix /\ meta'.hasMore = page.hasMore /\ meta'.nextKey = page.nextKey
      BY <2>2, <2>6, <2>7, <3>1, <3>2, <3>3
    <3>5. page.records # NoList BY <2>2, ExplorerAssumption
    <3> HIDE DEF page, c
    <3>6. ViewTypes'
      BY <1>1, <1>2, <1>3, <2>2, <3>1, <3>4 DEF ViewTypes, MetaOK, c
    <3>7. BannerHonest' BY <3>1, <3>4, <3>5 DEF BannerHonest
    <3>8. ASSUME swept' PROVE HitsOf(db', results', meta'.hasMore, meta'.nextKey, First(meta'.prefix),
                                     Last(meta'.prefix), sinceSearch')
      BY <1>1, <2>4, <3>1, <3>2, <3>4, <3>8
    <3>9. ResultsOK' BY <3>4, <3>7, <3>8 DEF ResultsOK
    <3>10. SearchInv' BY <3>6, <3>9 DEF SearchInv
    <3> QED BY <3>10, <1>1, <1>2, FormEnds
  <2>9. CASE Continues(c)
    <3> DEFINE was == c.was
               old == IF results = NoList THEN <<>> ELSE results
    <3>1. /\ results' = old \o page.records
          /\ meta' = Meta(s, was.count + Len(page.records), was.scanned + page.scanned)
          /\ UNCHANGED <<mode, swept, sinceSearch>>
      BY <1>5, <2>9 DEF SearchAnswered, Found, Continues
    <3>2. MetaOK(was) /\ was.hasMore /\ c.lo = was.nextKey /\ c.prefix = was.prefix
      BY <1>2, <2>9 DEF AskOK
    <3>3. was \in Metas /\ was.nextKey \in Keys /\ was.count \in Nat /\ was.scanned \in Nat
          /\ First(was.prefix) <= was.nextKey
      BY <3>2 DEF MetaOK, Metas
    <3>4. SearchedFrom(c) = was.nextKey /\ ~page.indexed
      <4>1. was.nextKey # All BY <3>3, ServerAssumption
      <4> QED BY <4>1, <3>2, <2>4 DEF SearchedFrom
    <3>5. old \in Seq(Records) BY <1>3
    <3>6. was.count + Len(page.records) \in Nat /\ was.scanned + page.scanned \in Nat
      <4>1. Len(page.records) \in Nat /\ page.scanned \in Nat BY <2>2
      <4>2. \A m, n \in Nat : m + n \in Nat OBVIOUS
      <4> QED BY <4>1, <4>2, <3>3
    <3>7. /\ MetaOK(meta') /\ meta' # NoMeta /\ meta'.count = was.count + Len(page.records)
          /\ meta'.prefix = c.prefix /\ meta'.hasMore = page.hasMore /\ meta'.nextKey = page.nextKey
      BY <2>7, <3>1, <3>2, <3>3, <3>4, <3>6
    <3>8. mode => meta = was /\ c.since \subseteq sinceSearch
      BY <1>2, <2>9 DEF IInv, WaitInv, FormsOK
    <3>9. results' \in Seq(Records) /\ Len(results') = Len(old) + Len(page.records)
      BY <2>2, <3>1, <3>5, Appended
    <3>10. mode => meta # NoMeta /\ results # NoList /\ was.count = Len(results)
      BY <3>3, <3>8, ExplorerAssumption DEF IInv, SearchInv, ResultsOK, BannerHonest
    <3> HIDE DEF page, c
    <3>11. ViewTypes' BY <1>1, <1>3, <3>1, <3>7, <3>9 DEF ViewTypes, MetaOK
    <3>12. BannerHonest'
      <4>1. results' # NoList BY <3>9, ExplorerAssumption
      <4> QED BY <4>1, <3>1, <3>7, <3>9, <3>10 DEF BannerHonest
    <3>13. ASSUME mode', swept'
           PROVE  HitsOf(db', results', meta'.hasMore, meta'.nextKey, First(meta'.prefix),
                         Last(meta'.prefix), sinceSearch')
      <4>1. mode /\ swept /\ meta = was /\ meta # NoMeta BY <3>1, <3>8, <3>10, <3>13
      <4>2. HitsOf(db, results, was.hasMore, was.nextKey, First(c.prefix), Last(c.prefix), sinceSearch)
        BY <4>1, <3>2, <1>3 DEF SearchInv, ResultsOK
      <4>3. HitsOf(db, page.records, page.hasMore, page.nextKey, was.nextKey, Last(c.prefix), c.since)
        BY <2>4, <3>4
      <4>4. results \in Seq(Records) /\ old = results BY <1>3, <3>10, <4>1
      <4>5. HitsOf(db, results \o page.records, page.hasMore, page.nextKey, First(c.prefix),
                   Last(c.prefix), sinceSearch)
        <5>1. c.since \subseteq sinceSearch BY <4>1, <3>8
        <5>2. was.nextKey \in Keys /\ was.hasMore = TRUE BY <3>2, <3>3 DEF Metas
        <5> HIDE DEF was, old
        <5>3. PICK recs, new, more, next, mid, open, lo, hi :
                /\ recs = results /\ new = page.records /\ more = page.hasMore /\ next = page.nextKey
                /\ mid = was.nextKey /\ open = was.hasMore /\ lo = First(c.prefix) /\ hi = Last(c.prefix)
          OBVIOUS
        <5>4. recs \in Seq(Records) /\ new \in Seq(Records) BY <5>3, <4>4, <2>2
        <5>5. more \in BOOLEAN /\ next \in Keys /\ mid \in Keys /\ open = TRUE BY <5>2, <5>3, <2>2
        <5>6. lo \in Keys /\ hi \in Keys BY <5>3, <2>6
        <5>7. HitsOf(db, recs, open, mid, lo, hi, sinceSearch) BY <5>3, <4>2
        <5>8. HitsOf(db, new, more, next, mid, hi, c.since) BY <5>3, <4>3
        <5>9. HitsOf(db, recs \o new, more, next, lo, hi, sinceSearch)
          BY SMTT(30), ZenonT(20), <5>1, <5>4, <5>5, <5>6, <5>7, <5>8, HitsGrow
        <5> QED BY <5>3, <5>9
      <4> QED BY <4>4, <4>5, <1>1, <3>1, <3>7
    <3>14. ResultsOK' BY <3>7, <3>12, <3>13 DEF ResultsOK
    <3>15. SearchInv' BY <3>11, <3>14 DEF SearchInv
    <3> QED BY <3>15, <1>1, <1>2, FormEnds
  <2> QED BY <2>8, <2>9
<1> QED BY <1>4, <1>5

(* The answer of loadMore. *)
LEMMA MoreEnds ==
  ASSUME IInv, NEW s \in Slots, DeliverMore(s), UNCHANGED viewVars PROVE IInv'
<1> DEFINE page == calls[s].ans
<1>1. /\ Answered(s, "more") /\ loadingMore' = FALSE /\ calls' = [calls EXCEPT ![s] = Idle]
      /\ Ok(s) => Extend(s)
      /\ ~Ok(s) => UNCHANGED listVars
      /\ UNCHANGED <<db, stats, active, loading>>
  BY DEF DeliverMore, Done, metaVars
<1>2. /\ calls[s].op = "more" /\ AskOK(calls[s]) /\ AnsOK(db, calls[s])
      /\ calls[s].ans # Pending /\ (Ok(s) <=> calls[s].ans # Failed)
      /\ s \in In(calls, {"more"}) /\ s \notin In(calls, Forms) /\ s \notin In(calls, Loads)
  BY <1>1, AnsweredIs DEF Forms, Loads
<1>3. UNCHANGED <<prefix, searchVars, busy, selected, deleteKey, deleteUserHash, mode, meta, sinceSearch>>
  BY DEF viewVars, dialogVars, searchVars
<1>4. SearchInv'
  <2>1. prefix \in Prefixes \cup {All} /\ busy \in BOOLEAN /\ selected \in Keys \cup {NoKey}
        /\ deleteKey \in Keys \cup {NoKey} /\ deleteUserHash \in Users \cup {NoKey} /\ SearchInv
    BY DEF IInv, SearchInv, ViewTypes
  <2> QED BY <2>1, <1>1, <1>3, SearchStays
<1>5. ListInv'
  <2>1. /\ loading \in BOOLEAN /\ active \in Prefixes \cup {All} /\ from \in Keys /\ nextKey \in Keys
        /\ stats \in (SUBSET Prefixes) \cup {Unknown} /\ records \in Seq(Records) /\ ListInv
    BY DEF IInv, ListInv, ListTypes
  <2>2. CASE ~Ok(s) BY <1>1, <2>1, <2>2, ListStays
  <2>3. CASE Ok(s)
    <3>1. /\ records' = records \o page.records /\ hasMore' = page.hasMore /\ nextKey' = page.nextKey
          /\ clean' = (clean /\ calls[s].fresh) /\ upto' = calls[s].hi
          /\ UNCHANGED <<from, touched>>
      BY <1>1, <2>3 DEF Extend
    <3>2. /\ page \in Pages /\ calls[s].lo \in Keys /\ calls[s].hi \in Keys
          /\ PageIs(db, page, calls[s].lo, calls[s].hi, calls[s].since)
      BY <1>2, <2>3 DEF AnsOK, AskOK
    <3>3. /\ page.records \in Seq(Records) /\ page.hasMore \in BOOLEAN /\ page.nextKey \in Keys
      BY <3>2 DEF Pages
    <3>4. ListOf(db, page.records, page.hasMore, page.nextKey, calls[s].lo, calls[s].hi, calls[s].since)
      BY <3>2 DEF PageIs
    <3> HIDE DEF page
    <3>5. ListTypes'
      <4>1. records' \in Seq(Records) BY <2>1, <3>1, <3>3, Appended
      <4>2. clean' \in BOOLEAN BY <3>1
      <4> QED BY <4>1, <4>2, <1>1, <2>1, <3>1, <3>2, <3>3 DEF ListInv, ListTypes
    <3>6. ASSUME clean' PROVE ListOf(db', records', hasMore', nextKey', from', upto', touched')
      <4>1. clean /\ calls[s].fresh BY <3>1, <3>6
      <4>2. hasMore = TRUE /\ calls[s].lo = nextKey /\ calls[s].since \subseteq touched
        <5>1. hasMore /\ calls[s].lo = nextKey /\ calls[s].since \subseteq touched
          BY <4>1, <1>2 DEF IInv, WaitInv, MoreOK
        <5> QED BY <5>1, <2>1 DEF ListInv, ListTypes
      <4>3. ListOf(db, records, hasMore, nextKey, from, upto, touched)
        BY <4>1, <2>1 DEF ListInv, ListOK
      <4>4. PICK old, open, lo, old_hi, S, new, more, next, mid, hi, T :
              /\ old = records /\ open = hasMore /\ lo = from /\ old_hi = upto /\ S = touched
              /\ new = page.records /\ more = page.hasMore /\ next = page.nextKey
              /\ mid = calls[s].lo /\ hi = calls[s].hi /\ T = calls[s].since
        OBVIOUS
      <4>5. new \in Seq(Records) /\ more \in BOOLEAN /\ next \in Keys /\ mid \in Keys /\ hi \in Keys
        BY <4>4, <3>2, <3>3
      <4>6. old \in Seq(Records) /\ open = TRUE /\ lo \in Keys /\ T \subseteq S BY <4>2, <4>4, <2>1
      <4>7. ListOf(db, new, more, next, mid, hi, T) BY <4>4, <3>4
      <4>8. ListOf(db, old, open, mid, lo, old_hi, S) BY <4>2, <4>3, <4>4
      <4>9. ListOf(db, old \o new, more, next, lo, hi, S)
        BY <4>5, <4>6, <4>7, <4>8, ListGrows, SMTT(15), ZenonT(20)
      <4> QED BY <4>4, <4>9, <1>1, <3>1
    <3>7. ListOK' BY <3>6 DEF ListOK
    <3> QED BY <3>5, <3>7 DEF ListInv
  <2> QED BY <2>2, <2>3
<1>6. /\ CallsOK' /\ \A t \in Slots : t # s => calls'[t] = calls[t]
      /\ \A ops : In(calls', ops) = In(calls, ops) \ {s}
  BY <1>1, GivenBack
<1>7. In(calls', {"more"}) = {} BY <1>2, <1>6 DEF IInv, WaitInv, MoreOK
<1>8. In(calls', Forms) = In(calls, Forms) /\ In(calls', Loads) = In(calls, Loads)
      /\ In(calls', {"search"}) = In(calls, {"search"})
  BY <1>2, <1>6 DEF In, Forms
<1>9. MoreOK' BY <1>7 DEF MoreOK
<1>10. FormsOK'
  <2>1. \A t \in In(calls, {"search"}) : calls'[t] = calls[t] BY <1>2, <1>6 DEF In, Forms
  <2> QED BY <2>1, <1>3, <1>8 DEF IInv, WaitInv, FormsOK
<1>11. WaitingOK' /\ LoadingOK' BY <1>1, <1>3, <1>8 DEF IInv, WaitInv, WaitingOK, LoadingOK
<1> QED BY <1>4, <1>5, <1>6, <1>9, <1>10, <1>11 DEF IInv, WaitInv

----------------------------------------------------------------------------
(* Every step keeps the invariant. *)
LEMMA StepKeeps == IInv /\ [Next]_vars => IInv'
<1>1. SUFFICES ASSUME IInv, [Next]_vars PROVE IInv' OBVIOUS
<1>2. CASE UNCHANGED vars BY <1>1, <1>2, LooksKeep
<1>3. CASE User
  <2>1. CASE Refresh \/ ConfirmDelete \/ ConfirmCascade BY <1>1, <2>1, AsksKeep
  <2>2. CASE LoadMore BY <1>1, <2>2, MoreKeeps
  <2>3. CASE SearchText \/ ContinueScan BY <1>1, <2>3, FormsKeep
  <2>4. CASE ClearResults \/ OpenDelete \/ OpenDeleteUser \/ CloseDialogs
    BY <1>1, <2>4, LooksKeep
  <2>5. CASE \E v \in OtherValues \ {NoValue} : SaveEdit(v) \/ \E k \in Keys : SaveNew(k, v)
    BY <1>1, <2>5, AsksKeep
  <2>6. CASE \E p \in Prefixes \cup {All} : PickPrefix(p) \/ (p # All /\ ChoosePartition(p))
    <3>1. PICK p \in Prefixes \cup {All} : PickPrefix(p) \/ (p # All /\ ChoosePartition(p)) BY <2>6
    <3>2. CASE PickPrefix(p) BY <1>1, <3>2, LooksKeep
    <3>3. CASE p # All /\ ChoosePartition(p)
      <4>1. p \in Prefixes /\ ChoosePartition(p) BY <3>3
      <4> QED BY <4>1, <1>1, AsksKeep
    <3> QED BY <3>1, <3>2, <3>3
  <2>7. CASE \E k \in Keys \cup {NoKey} : Select(k) BY <1>1, <2>7, LooksKeep
  <2>8. CASE \E k \in Keys : LookupKey(k) BY <1>1, <2>8, FormsKeep
  <2>9. CASE \E r \in Ranges : ScanRange(r[1], r[2]) BY <1>1, <2>9, FormsKeep
  <2> QED BY <1>3, <2>1, <2>2, <2>3, <2>4, <2>5, <2>6, <2>7, <2>8, <2>9 DEF User
<1>4. CASE Timer BY <1>1, <1>4, AsksKeep
<1>5. CASE Other BY <1>1, <1>5, OtherKeeps
<1>6. ASSUME NEW s \in Slots, Serve(s) PROVE IInv' BY <1>1, <1>6, ServeKeeps
<1>7. ASSUME NEW s \in Slots, Deliver(s) PROVE IInv'
  <2>1. CASE Unwatched(s)
    <3>1. UNCHANGED viewVars BY <2>1 DEF Unwatched
    <3>2. CASE DeliverPartition(s) \/ DeliverRefresh(s) \/ DeliverTick(s)
      BY <1>1, <3>1, <3>2, PagesKeep
    <3>3. CASE DeliverMore(s) BY <1>1, <3>1, <3>3, MoreEnds
    <3> QED BY <2>1, <3>2, <3>3 DEF Unwatched
  <2>2. CASE EndOfRefresh(s) \/ FirstCounts(s) BY <1>1, <2>2, CountsKeep
  <2>3. CASE RemoveAnswered(s) \/ LinkAnswered(s) BY <1>1, <2>3, WritesKeep
  <2>4. CASE SearchAnswered(s) BY <1>1, <2>4, SearchKeeps
  <2>5. CASE RangeAnswered(s) \/ LookupAnswered(s) BY <1>1, <2>5, AnswersKeep
  <2> QED BY <1>7, <2>1, <2>2, <2>3, <2>4, <2>5 DEF Deliver
<1> QED BY <1>1, <1>2, <1>3, <1>4, <1>5, <1>6, <1>7 DEF Next

(* The Explorer keeps its invariant, whatever the user does, in whatever order
   the answers come and whoever writes meanwhile. *)
THEOREM InvariantHolds == Spec => []IInv
<1>1. Init => IInv BY InitIs
<1>2. IInv /\ [Next]_vars => IInv' BY StepKeeps
<1> QED BY <1>1, <1>2, PTL DEF Spec

(* loading, loadingMore and busy: each has a request under way whose answer, or
   whose loss, takes it down. *)
THEOREM SpinnersAlwaysSettle == Spec => []SpinnersSettle
<1>1. IInv => SpinnersSettle
  <2>1. /\ InFlight({"refresh", "counts", "partition"}) = In(calls, Loads)
        /\ InFlight({"more"}) = In(calls, {"more"})
        /\ InFlight({"search", "range", "lookup"}) = In(calls, Forms)
    BY DEF InFlight, In, Loads, Forms
  <2> QED BY <2>1 DEF IInv, WaitInv, WaitingOK, LoadingOK, SpinnersSettle
<1> QED BY <1>1, InvariantHolds, PTL

(* The pages of loadMore fit together: of the keys nobody wrote meanwhile, the
   list shows those it has come to once, in order, as the database has them. *)
THEOREM PagesFitTogether == Spec => []PagedComplete
<1>1. IInv => PagedComplete
  <2>1. SUFFICES ASSUME IInv, clean
                 PROVE  /\ \A i, j \in DOMAIN records : i < j => records[i].key < records[j].key
                        /\ \A i \in DOMAIN records :
                             records[i].key \in Untouched => db[records[i].key] = records[i].value
                        /\ \A k \in Untouched : db[k] # NoValue /\ from <= k /\ k < Frontier =>
                             \E i \in DOMAIN records : records[i].key = k
    BY DEF PagedComplete
  <2>2. ListOf(db, records, hasMore, nextKey, from, upto, touched)
    BY <2>1 DEF IInv, ListInv, ListOK
  <2>3. \A i, j \in DOMAIN records : i < j => records[i].key < records[j].key
    BY <2>2 DEF ListOf, Ascending
  <2>4. \A i \in DOMAIN records :
          records[i].key \in Untouched => db[records[i].key] = records[i].value
    BY <2>2 DEF ListOf, Faithful, Untouched
  <2>5. \A k \in Untouched : db[k] # NoValue /\ from <= k /\ k < Frontier =>
          \E i \in DOMAIN records : records[i].key = k
    <3>1. Frontier = Reached(hasMore, nextKey, upto) BY DEF Frontier, Reached
    <3> QED BY <2>2, <3>1 DEF ListOf, Complete, Untouched, Shows
  <2> QED BY <2>3, <2>4, <2>5
<1> QED BY <1>1, InvariantHolds, PTL

(* The banner counts the results under it, whatever was clicked while a chunk
   was being scanned. *)
THEOREM BannerAlwaysHonest == Spec => []BannerHonest
<1>1. IInv => BannerHonest BY DEF IInv, SearchInv, ResultsOK
<1> QED BY <1>1, InvariantHolds, PTL

(* A search that scans misses no match, and shows nothing else, on the way from
   chunk to chunk. *)
THEOREM SearchMissesNothing == Spec => []SearchCovers
<1>1. IInv => SearchCovers
  <2>1. SUFFICES ASSUME IInv, mode, meta # NoMeta, swept, NEW k \in Keys \ sinceSearch,
                        First(meta.prefix) <= k, k < ScannedTo
                 PROVE  db[k] \in Hits <=> \E i \in DOMAIN results : results[i].key = k
    BY DEF SearchCovers
  <2>2. HitsOf(db, results, meta.hasMore, meta.nextKey, First(meta.prefix), Last(meta.prefix),
               sinceSearch)
    BY <2>1 DEF IInv, SearchInv, ResultsOK
  <2>3. ScannedTo = Reached(meta.hasMore, meta.nextKey, Last(meta.prefix)) BY DEF ScannedTo, Reached
  <2> QED BY <2>1, <2>2, <2>3 DEF HitsOf, Selects, Shows
<1> QED BY <1>1, InvariantHolds, PTL
==============================================================================
