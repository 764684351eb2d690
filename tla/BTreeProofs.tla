---------------------------- MODULE BTreeProofs ------------------------------
(* The B+ tree, for any keys, sizes of nodes and loads that BTreeAssumption allows.

   A tree says little about itself: a page is a page.  What makes it one is kept in
   a ghost g: which pages are in use, how far each is from the leaves and which
   interval of keys it is for.  Shape says what that means for the pages; Filed, what
   the leaves hold; both hold between the steps of a call, too, while the right half
   of a split is known to no router yet. *)
EXTENDS BTree, FiniteSetTheorems, SequenceTheorems, WellFoundedInduction, TLAPS

(* What the nodes are. *)
Maps    == UNION {[S -> Rids \cup {LoadRid}] : S \in {T \in SUBSET Nat : IsFiniteSet(T)}}
Leaves  == [rids : Maps, next : Nat]
Routers == [child0 : Nat, entries : Seq([key : Nat, child : Nat])]
Nodes   == Leaves \cup Routers

(* The children of a router, from 0 on, and where the keys of each begin and end when
   those of the router begin at a and end at b; an end of 0 is none. *)
Child(n, j) == IF j = 0 THEN n.child0 ELSE n.entries[j].child
Slots(n) == 0..Len(n.entries)
KeyAt(n, j, a) == IF j = 0 THEN a ELSE n.entries[j].key
EndAt(n, j, b) == IF j = Len(n.entries) THEN b ELSE n.entries[j + 1].key
Within(k, a, b) == a <= k /\ (b = 0 \/ k < b)

(* What is kept about a tree: the pages in use, how far each is above the leaves,
   the keys it is for (from lo on, below hi), how far a leaf is from the end of its
   chain.  When left is not 0 a page has just been split into left and right, and no
   router knows of right yet. *)
Ghosts == [L : SUBSET Nat, level : [Nat -> Nat], lo : [Nat -> Nat], hi : [Nat -> Nat],
           pos : [Nat -> Nat], left : Nat, right : Nat]
Covers(g, p, k) == Within(k, g.lo[p], g.hi[p])
Before(g, p, q) == g.hi[p] # 0 /\ g.hi[p] <= g.lo[q]
Known(g) == [p \in Nat |-> IF p = g.left THEN g.hi[g.right] ELSE g.hi[p]]

Good(n, g, l, a, b, end) ==
  \A j \in Slots(n) :
    /\ Child(n, j) \in g.L /\ g.level[Child(n, j)] + 1 = l
    /\ g.lo[Child(n, j)] = KeyAt(n, j, a) /\ end[Child(n, j)] = EndAt(n, j, b)
    /\ j # 0 => n.entries[j].key # 0

Typed(ns, g) ==
  /\ g \in Ghosts /\ ns \in Seq(Nodes) /\ g.L \subseteq DOMAIN ns
  /\ \A p \in DOMAIN ns : IsLeaf(ns[p]) <=> g.level[p] = 0
  /\ \A p \in DOMAIN ns : g.level[p] > 0 => p \in g.L /\ Len(ns[p].entries) <= MaxInternalKeys
Rooted(root, g) ==
  /\ root \in g.L /\ g.lo[root] = 0 /\ Known(g)[root] = 0
  /\ \A p \in g.L : g.level[p] <= g.level[root]
Apart(g) ==
  /\ \A p \in g.L : g.hi[p] = 0 \/ g.lo[p] < g.hi[p]
  /\ \A p, q \in g.L : g.level[p] = g.level[q] /\ p # q => Before(g, p, q) \/ Before(g, q, p)
Routed(ns, g) ==
  \A p \in g.L : g.level[p] > 0 => Good(ns[p], g, g.level[p], g.lo[p], g.hi[p], Known(g))
Chained(ns, g) ==
  /\ \A p \in g.L : g.level[p] = 0 =>
       /\ ns[p].next = 0 <=> g.hi[p] = 0
       /\ ns[p].next # 0 => ns[p].next \in g.L /\ g.lo[ns[p].next] = g.hi[p]
  /\ \A p \in DOMAIN ns : g.level[p] = 0 /\ ns[p].next # 0 =>
       /\ ns[p].next \in DOMAIN ns /\ g.level[ns[p].next] = 0
       /\ g.pos[ns[p].next] < g.pos[p]
Halved(g) ==
  IF g.left = 0 THEN g.right = 0
  ELSE /\ g.left \in g.L /\ g.right \in g.L /\ g.left # g.right
       /\ g.level[g.left] = g.level[g.right]
       /\ g.hi[g.left] = g.lo[g.right] /\ g.hi[g.left] # 0
Shape(ns, root, g) ==
  /\ Typed(ns, g) /\ Rooted(root, g) /\ Apart(g)
  /\ Routed(ns, g) /\ Chained(ns, g) /\ Halved(g)

(* The leaves hold what W says, but for the keys in D. *)
Filed(ns, root, g, W, D) ==
  /\ \A p \in g.L : g.level[p] = 0 =>
       /\ \A k \in DOMAIN ns[p].rids :
            Covers(g, p, k) /\ (k \in D \/ (k \in DOMAIN W /\ W[k] = ns[p].rids[k]))
       /\ DOMAIN ns[p].rids = {} => p = root /\ g.left = 0
  /\ \A k \in DOMAIN W \ D : \E p \in g.L : g.level[p] = 0 /\ k \in DOMAIN ns[p].rids

-----------------------------------------------------------------------------
(* Numbers and sequences. *)

(* A set of numbers that is not empty has a least one. *)
LEMMA LeastExists ==
  ASSUME NEW S, S \subseteq Nat, S # {} PROVE \E n \in S : \A m \in S : n <= m
<1> DEFINE Less == {pair \in Nat \X Nat : pair[1] < pair[2]}
<1>1. IsWellFoundedOn(Less, Nat) BY NatLessThanWellFounded DEF OpToRel
<1>2. PICK n \in S : \A m \in S : ~(<<m, n>> \in Less) BY <1>1, WFMin
<1>3. \A m \in S : ~(m < n) BY <1>2
<1> QED BY <1>2, <1>3

(* A set of numbers below a bound that is not empty has a greatest one. *)
LEMMA GreatestExists ==
  ASSUME NEW b \in Nat, NEW S, S \subseteq 0..b, S # {}
  PROVE  \E n \in S : \A m \in S : m <= n
<1> DEFINE T == {d \in 0..b : b - d \in S}
<1>1. T \subseteq Nat OBVIOUS
<1>2. PICK s \in S : s \in 0..b OBVIOUS
<1>3. b - s \in T BY <1>2
<1>4. PICK d \in T : \A m \in T : d <= m
  <2> HIDE DEF T
  <2> QED BY <1>1, <1>3, LeastExists
<1>5. b - d \in S /\ d \in 0..b OBVIOUS
<1>6. ASSUME NEW m \in S PROVE m <= b - d
  <2>1. m \in 0..b /\ b - m \in 0..b /\ b - (b - m) = m OBVIOUS
  <2>2. b - m \in T BY <2>1
  <2> HIDE DEF T
  <2> QED BY <1>4, <1>5, <2>1, <2>2
<1> QED BY <1>5, <1>6

(* What InsertAt returns. *)
LEMMA InsertAtIs ==
  ASSUME NEW S, NEW s \in Seq(S), NEW i \in 1..(Len(s) + 1), NEW e \in S
  PROVE  /\ InsertAt(s, i, e) \in Seq(S) /\ Len(InsertAt(s, i, e)) = Len(s) + 1
         /\ \A j \in 1..(Len(s) + 1) :
              InsertAt(s, i, e)[j] = IF j < i THEN s[j] ELSE IF j = i THEN e ELSE s[j - 1]
<1> DEFINE a == SubSeq(s, 1, i - 1)
           b == SubSeq(s, i, Len(s))
           r == (a \o <<e>>) \o b
<1>0. Len(s) \in Nat /\ s \in [1..Len(s) -> S] /\ i \in Int /\ i - 1 \in Int BY LenProperties
<1>1. a \in Seq(S) /\ Len(a) = i - 1 /\ \A j \in 1..(i - 1) : a[j] = s[j]
  <2>1. \A j \in 1..(i - 1) : s[j] \in S BY <1>0
  <2> QED BY <1>0, <2>1, SubSeqProperties
<1>2. b \in Seq(S) /\ Len(b) = Len(s) - i + 1 /\ \A j \in 1..(Len(s) - i + 1) : b[j] = s[i + j - 1]
  <2>1. \A j \in i..Len(s) : s[j] \in S BY <1>0
  <2> QED BY <1>0, <2>1, SubSeqProperties
<1>3. <<e>> \in Seq(S) /\ Len(<<e>>) = 1 /\ <<e>>[1] = e OBVIOUS
<1> HIDE DEF a, b
<1>4. /\ a \o <<e>> \in Seq(S) /\ Len(a \o <<e>>) = i
      /\ \A j \in 1..i : (a \o <<e>>)[j] = IF j <= i - 1 THEN a[j] ELSE <<e>>[j - (i - 1)]
  BY <1>0, <1>1, <1>3, ConcatProperties
<1>5. /\ r \in Seq(S) /\ Len(r) = i + Len(b)
      /\ \A j \in 1..(i + Len(b)) : r[j] = IF j <= i THEN (a \o <<e>>)[j] ELSE b[j - i]
  BY <1>2, <1>4, ConcatProperties
<1>6. r = InsertAt(s, i, e) BY DEF r, a, b, InsertAt
<1>7. ASSUME NEW j \in 1..(Len(s) + 1)
      PROVE  r[j] = IF j < i THEN s[j] ELSE IF j = i THEN e ELSE s[j - 1]
  <2>0. j \in 1..(i + Len(b)) BY <1>0, <1>2
  <2>1. CASE j < i BY <1>0, <1>1, <1>4, <1>5, <2>0, <2>1
  <2>2. CASE j = i BY <1>0, <1>3, <1>4, <1>5, <2>0, <2>2
  <2>3. CASE j > i
    <3>1. r[j] = b[j - i] /\ j - i \in 1..(Len(s) - i + 1) BY <1>0, <1>2, <1>5, <2>0, <2>3
    <3>2. b[j - i] = s[i + (j - i) - 1] /\ i + (j - i) - 1 = j - 1 BY <1>0, <1>2, <3>1
    <3>3. ~(j < i) /\ j # i BY <1>0, <2>3
    <3> HIDE DEF r
    <3> QED BY <3>1, <3>2, <3>3
  <2> HIDE DEF r
  <2>4. j < i \/ j = i \/ j > i BY <1>0
  <2> QED BY <2>1, <2>2, <2>3, <2>4
<1>8. Len(r) = Len(s) + 1 BY <1>0, <1>2, <1>5
<1> HIDE DEF r
<1> QED BY <1>5, <1>6, <1>7, <1>8

(* What RemoveAt returns. *)
LEMMA RemoveAtIs ==
  ASSUME NEW S, NEW s \in Seq(S), NEW i \in 1..Len(s)
  PROVE  /\ RemoveAt(s, i) \in Seq(S) /\ Len(RemoveAt(s, i)) = Len(s) - 1
         /\ \A j \in 1..(Len(s) - 1) : RemoveAt(s, i)[j] = IF j < i THEN s[j] ELSE s[j + 1]
<1> DEFINE a == SubSeq(s, 1, i - 1)
           b == SubSeq(s, i + 1, Len(s))
           r == a \o b
<1>0. Len(s) \in Nat /\ s \in [1..Len(s) -> S] /\ i \in Int /\ i - 1 \in Int BY LenProperties
<1>1. a \in Seq(S) /\ Len(a) = i - 1 /\ \A j \in 1..(i - 1) : a[j] = s[j]
  <2>1. \A j \in 1..(i - 1) : s[j] \in S BY <1>0
  <2> QED BY <1>0, <2>1, SubSeqProperties
<1>2. b \in Seq(S) /\ Len(b) = Len(s) - i /\ \A j \in 1..(Len(s) - i) : b[j] = s[i + j]
  <2>1. \A j \in (i + 1)..Len(s) : s[j] \in S BY <1>0
  <2>2. i + 1 \in Int /\ Len(s) \in Int BY <1>0
  <2>3. /\ b \in Seq(S) /\ Len(b) = (IF i + 1 <= Len(s) THEN Len(s) - (i + 1) + 1 ELSE 0)
        /\ \A j \in 1..(Len(s) - (i + 1) + 1) : b[j] = s[(i + 1) + j - 1]
    BY <2>1, <2>2, SubSeqProperties
  <2> HIDE DEF b
  <2>4. Len(b) = Len(s) - i
    <3>0. \A l \in Nat : \A x \in 1..l : l - (x + 1) + 1 = l - x /\ (x + 1 <= l \/ l - x = 0)
      OBVIOUS
    <3>1. Len(s) - (i + 1) + 1 = Len(s) - i BY <1>0, <3>0
    <3>2. i + 1 <= Len(s) \/ Len(s) - i = 0 BY <1>0, <3>0
    <3>3. i + 1 <= Len(s) => Len(b) = Len(s) - i BY <2>3, <3>1
    <3>4. ~(i + 1 <= Len(s)) => Len(b) = 0 BY <2>3
    <3> QED BY <3>2, <3>3, <3>4
  <2>5. ASSUME NEW j \in 1..(Len(s) - i) PROVE b[j] = s[i + j]
    <3>1. j \in 1..(Len(s) - (i + 1) + 1) /\ (i + 1) + j - 1 = i + j BY <1>0
    <3> QED BY <2>3, <3>1
  <2> QED BY <2>3, <2>4, <2>5
<1> HIDE DEF a, b
<1>5. /\ r \in Seq(S) /\ Len(r) = Len(a) + Len(b)
      /\ \A j \in 1..(Len(a) + Len(b)) : r[j] = IF j <= Len(a) THEN a[j] ELSE b[j - Len(a)]
  BY <1>1, <1>2, ConcatProperties
<1>6. r = RemoveAt(s, i) BY DEF r, a, b, RemoveAt
<1>7. ASSUME NEW j \in 1..(Len(s) - 1) PROVE r[j] = IF j < i THEN s[j] ELSE s[j + 1]
  <2>1. CASE j < i BY <1>0, <1>1, <1>2, <1>5, <2>1
  <2>2. CASE j >= i
    <3>1. r[j] = b[j - (i - 1)] /\ j - (i - 1) \in 1..(Len(s) - i) BY <1>0, <1>1, <1>2, <1>5, <2>2
    <3>2. b[j - (i - 1)] = s[i + (j - (i - 1))] /\ i + (j - (i - 1)) = j + 1 BY <1>0, <1>2, <3>1
    <3>3. ~(j < i) BY <1>0, <2>2
    <3> HIDE DEF r
    <3> QED BY <3>1, <3>2, <3>3
  <2> HIDE DEF r
  <2>3. j < i \/ j >= i BY <1>0
  <2> QED BY <2>1, <2>2, <2>3
<1>8. Len(r) = Len(s) - 1 BY <1>0, <1>1, <1>2, <1>5
<1> HIDE DEF r
<1> QED BY <1>5, <1>6, <1>7, <1>8

-----------------------------------------------------------------------------
(* Routers.  The entries up to a key are the first ones. *)

(* The fields of a router. *)
LEMMA RouterHas ==
  ASSUME NEW n \in Routers
  PROVE  /\ n.child0 \in Nat /\ n.entries \in Seq([key : Nat, child : Nat]) /\ Len(n.entries) \in Nat
         /\ DOMAIN n.entries = 1..Len(n.entries)
         /\ \A j \in 1..Len(n.entries) : n.entries[j].key \in Nat /\ n.entries[j].child \in Nat
         /\ n = Router(n.child0, n.entries) /\ ~IsLeaf(n)
<1>1. n.child0 \in Nat /\ n.entries \in Seq([key : Nat, child : Nat]) /\ n = Router(n.child0, n.entries)
  BY DEF Routers, Router
<1>2. Len(n.entries) \in Nat /\ n.entries \in [1..Len(n.entries) -> [key : Nat, child : Nat]]
      /\ DOMAIN n.entries = 1..Len(n.entries)
  BY <1>1, LenProperties
<1>3. ~IsLeaf(n) BY DEF Routers, IsLeaf
<1> QED BY <1>1, <1>2, <1>3

(* The fields of a leaf: its entries are finitely many. *)
LEMMA LeafHas ==
  ASSUME NEW n \in Leaves
  PROVE  /\ n.rids \in Maps /\ n.next \in Nat /\ n = Leaf(n.rids, n.next) /\ IsLeaf(n)
         /\ DOMAIN n.rids \subseteq Nat /\ IsFiniteSet(DOMAIN n.rids)
         /\ n.rids \in [DOMAIN n.rids -> Rids \cup {LoadRid}]
<1>1. n.rids \in Maps /\ n.next \in Nat /\ n = Leaf(n.rids, n.next) /\ IsLeaf(n)
  BY DEF Leaves, Leaf, IsLeaf
<1>2. PICK S \in {T \in SUBSET Nat : IsFiniteSet(T)} : n.rids \in [S -> Rids \cup {LoadRid}]
  BY <1>1 DEF Maps
<1>3. DOMAIN n.rids = S BY <1>2
<1> QED BY <1>1, <1>2, <1>3

(* A node is a leaf or a router, and IsLeaf tells which. *)
LEMMA NodeKind == ASSUME NEW n \in Nodes
  PROVE (IsLeaf(n) => n \in Leaves) /\ (~IsLeaf(n) => n \in Routers)
BY RouterHas, LeafHas DEF Nodes

(* A function from finitely many keys to places may be the entries of a leaf. *)
LEMMA MapIs ==
  ASSUME NEW S \in SUBSET Nat, IsFiniteSet(S), NEW f \in [S -> Rids \cup {LoadRid}]
  PROVE  f \in Maps /\ DOMAIN f = S
BY DEF Maps

-----------------------------------------------------------------------------
(* Good routers.  Where the keys of a child begin grows from child to child. *)

(* The types of the pages and of what is kept about them. *)
LEMMA TypesOf ==
  ASSUME NEW ns, NEW g, Typed(ns, g)
  PROVE  /\ DOMAIN ns = 1..Len(ns) /\ Len(ns) \in Nat /\ g.L \subseteq 1..Len(ns)
         /\ g \in Ghosts /\ g.L \subseteq Nat /\ g.left \in Nat /\ g.right \in Nat
         /\ \A p \in Nat : g.level[p] \in Nat /\ g.lo[p] \in Nat /\ g.hi[p] \in Nat /\ g.pos[p] \in Nat
         /\ \A p \in Nat : Known(g)[p] = (IF p = g.left THEN g.hi[g.right] ELSE g.hi[p])
         /\ \A p \in Nat : Known(g)[p] \in Nat
<1>1. DOMAIN ns = 1..Len(ns) /\ Len(ns) \in Nat /\ g \in Ghosts /\ g.L \subseteq 1..Len(ns)
  BY LenProperties DEF Typed
<1>2. /\ g.L \subseteq Nat /\ g.left \in Nat /\ g.right \in Nat
      /\ \A p \in Nat : g.level[p] \in Nat /\ g.lo[p] \in Nat /\ g.hi[p] \in Nat /\ g.pos[p] \in Nat
  BY <1>1 DEF Ghosts
<1>3. \A p \in Nat : Known(g)[p] = (IF p = g.left THEN g.hi[g.right] ELSE g.hi[p]) BY DEF Known
<1> QED BY <1>1, <1>2, <1>3

(* A page above the leaves is a router in use, and not too long. *)
LEMMA RouterOf ==
  ASSUME NEW ns, NEW g, Typed(ns, g), NEW p \in DOMAIN ns, g.level[p] > 0
  PROVE  ns[p] \in Routers /\ p \in g.L /\ Len(ns[p].entries) <= MaxInternalKeys
<1>1. ns \in Seq(Nodes) /\ ns[p] \in Nodes BY ElementOfSeq, TypesOf DEF Typed
<1>2. g.level[p] # 0 BY TypesOf
<1>3. ~IsLeaf(ns[p]) BY <1>2 DEF Typed
<1>4. p \in g.L /\ Len(ns[p].entries) <= MaxInternalKeys BY DEF Typed
<1> QED BY <1>1, <1>3, <1>4, NodeKind

(* A page of level 0 is a leaf. *)
LEMMA LeafOf ==
  ASSUME NEW ns, NEW g, Typed(ns, g), NEW p \in DOMAIN ns, g.level[p] = 0
  PROVE  ns[p] \in Leaves
<1>1. ns \in Seq(Nodes) /\ ns[p] \in Nodes BY ElementOfSeq, TypesOf DEF Typed
<1> QED BY <1>1, NodeKind DEF Typed

(* The intervals of the children of a router lie one behind the other. *)
LEMMA SlotsGrow ==
  ASSUME NEW n \in Routers, NEW a \in Nat, NEW b \in Nat,
         \A j \in 1..Len(n.entries) : n.entries[j].key # 0,
         \A j \in Slots(n) : EndAt(n, j, b) = 0 \/ KeyAt(n, j, a) < EndAt(n, j, b)
  PROVE  /\ \A j \in Slots(n) : KeyAt(n, j, a) \in Nat /\ EndAt(n, j, b) \in Nat
         /\ \A i, j \in Slots(n) : i < j =>
              /\ KeyAt(n, i, a) < KeyAt(n, j, a)
              /\ EndAt(n, i, b) # 0 /\ EndAt(n, i, b) <= KeyAt(n, j, a)
<1> DEFINE m == Len(n.entries)
           Ka(j) == KeyAt(n, j, a)
           S == {j \in 1..m : \E i \in 0..(j - 1) : ~(Ka(i) < Ka(j))}
<1>0. m \in Nat /\ Slots(n) = 0..m /\ \A j \in 1..m : n.entries[j].key \in Nat
  BY RouterHas DEF Slots
<1>1. \A j \in 0..m : Ka(j) \in Nat
  <2> SUFFICES ASSUME NEW j \in 0..m PROVE KeyAt(n, j, a) \in Nat OBVIOUS
  <2>1. j = 0 \/ j \in 1..m BY <1>0
  <2> QED BY <1>0, <2>1 DEF KeyAt
<1>2. ASSUME NEW j \in 0..m PROVE EndAt(n, j, b) \in Nat
  <2>1. j = m \/ j + 1 \in 1..m BY <1>0
  <2> QED BY <1>0, <2>1 DEF EndAt
<1>3. ASSUME NEW j \in 0..m, j # m
      PROVE  j + 1 \in 1..m /\ EndAt(n, j, b) = Ka(j + 1) /\ Ka(j + 1) # 0 /\ Ka(j) < Ka(j + 1)
  <2>1. j + 1 \in 1..m /\ j + 1 # 0 BY <1>0, <1>3
  <2>2. EndAt(n, j, b) = n.entries[j + 1].key /\ Ka(j + 1) = n.entries[j + 1].key
    BY <1>3, <2>1 DEF EndAt, KeyAt
  <2>3. n.entries[j + 1].key # 0 BY <2>1
  <2>4. EndAt(n, j, b) = 0 \/ KeyAt(n, j, a) < EndAt(n, j, b) BY <1>0
  <2> QED BY <2>1, <2>2, <2>3, <2>4
<1> HIDE DEF Ka
<1>4. S = {}
  <2> SUFFICES ASSUME S # {} PROVE FALSE OBVIOUS
  <2>1. S \subseteq Nat OBVIOUS
  <2>2. PICK j \in S : \A k \in S : j <= k
    <3> HIDE DEF S
    <3> QED BY <2>1, LeastExists
  <2>3. j \in 1..m BY <2>2
  <2>4. PICK i \in 0..(j - 1) : ~(Ka(i) < Ka(j)) BY <2>2
  <2>5. j - 1 \in 0..m /\ j - 1 # m /\ (j - 1) + 1 = j BY <1>0, <2>3
  <2>6. Ka(j - 1) < Ka(j) BY <1>3, <2>5
  <2>7. i # j - 1 BY <2>4, <2>6
  <2>8. j - 1 \in 1..m /\ i \in 0..((j - 1) - 1) BY <1>0, <2>3, <2>4, <2>7
  <2>9. j - 1 \notin S BY <2>2, <2>3
  <2>10. Ka(i) < Ka(j - 1) BY <2>8, <2>9
  <2>11. Ka(i) \in Nat /\ Ka(j - 1) \in Nat /\ Ka(j) \in Nat BY <1>1, <1>0, <2>3, <2>4, <2>8
  <2> QED BY <2>4, <2>6, <2>10, <2>11
<1>5. ASSUME NEW i \in 0..m, NEW j \in 0..m, i < j PROVE Ka(i) < Ka(j)
  <2>1. j \in 1..m /\ i \in 0..(j - 1) BY <1>0, <1>5
  <2> QED BY <1>4, <2>1
<1>6. ASSUME NEW i \in 0..m, NEW j \in 0..m, i < j
      PROVE  EndAt(n, i, b) # 0 /\ EndAt(n, i, b) <= Ka(j)
  <2>1. i # m /\ i + 1 \in 0..m /\ (i + 1 = j \/ i + 1 < j) BY <1>0, <1>6
  <2>2. EndAt(n, i, b) = Ka(i + 1) /\ Ka(i + 1) # 0 BY <1>3, <2>1
  <2>3. i + 1 = j \/ Ka(i + 1) < Ka(j) BY <1>5, <2>1
  <2> QED BY <1>1, <2>1, <2>2, <2>3
<1> QED BY <1>0, <1>1, <1>2, <1>5, <1>6 DEF Ka

(* The keys, children and bounds of a router that is changed. *)

(* So do those of a router of a tree. *)
LEMMA BoundsGrow ==
  ASSUME NEW ns, NEW root, NEW g, Shape(ns, root, g), NEW p \in g.L, g.level[p] > 0
  PROVE  LET n == ns[p]
         IN  /\ n \in Routers /\ Good(n, g, g.level[p], g.lo[p], g.hi[p], Known(g))
             /\ \A j \in Slots(n) :
                  /\ Child(n, j) \in g.L /\ Child(n, j) \in Nat
                  /\ KeyAt(n, j, g.lo[p]) \in Nat /\ EndAt(n, j, g.hi[p]) \in Nat
                  /\ EndAt(n, j, g.hi[p]) = 0 \/ KeyAt(n, j, g.lo[p]) < EndAt(n, j, g.hi[p])
             /\ \A i, j \in Slots(n) : i < j =>
                  /\ KeyAt(n, i, g.lo[p]) < KeyAt(n, j, g.lo[p])
                  /\ EndAt(n, i, g.hi[p]) # 0 /\ EndAt(n, i, g.hi[p]) <= KeyAt(n, j, g.lo[p])
             /\ \A j \in 1..Len(n.entries) : n.entries[j].key # 0
<1> DEFINE n == ns[p]
           a == g.lo[p]
           b == g.hi[p]
<1>1. Typed(ns, g) /\ Apart(g) /\ Halved(g) /\ Routed(ns, g) BY DEF Shape
<1>2. p \in DOMAIN ns /\ p \in Nat /\ g.L \subseteq Nat /\ a \in Nat /\ b \in Nat BY <1>1, TypesOf
<1>3. n \in Routers BY <1>1, <1>2, RouterOf
<1>4. Good(n, g, g.level[p], a, b, Known(g)) BY <1>1 DEF Routed
<1>5. ASSUME NEW c \in g.L PROVE Known(g)[c] = 0 \/ g.lo[c] < Known(g)[c]
  <2>1. c \in Nat /\ Known(g)[c] = (IF c = g.left THEN g.hi[g.right] ELSE g.hi[c]) BY <1>2, <1>1, TypesOf
  <2>2. CASE c # g.left BY <1>1, <2>1, <2>2 DEF Apart
  <2>3. CASE c = g.left
    <3>1. 0 \notin g.L BY <1>1, TypesOf
    <3>2. /\ g.left \in g.L /\ g.right \in g.L /\ g.hi[g.left] = g.lo[g.right] /\ g.hi[g.left] # 0
      BY <1>1, <2>3, <3>1 DEF Halved
    <3>3. g.hi[g.right] = 0 \/ g.lo[g.right] < g.hi[g.right] BY <1>1, <3>2 DEF Apart
    <3>4. g.hi[g.left] = 0 \/ g.lo[g.left] < g.hi[g.left] BY <1>1, <3>2 DEF Apart
    <3>5. g.lo[g.left] \in Nat /\ g.lo[g.right] \in Nat /\ g.hi[g.right] \in Nat
      BY <1>1, <1>2, <3>2, TypesOf
    <3> QED BY <2>1, <2>3, <3>2, <3>3, <3>4, <3>5
  <2> QED BY <2>2, <2>3
<1>6. ASSUME NEW j \in Slots(n)
      PROVE  /\ Child(n, j) \in g.L /\ Child(n, j) \in Nat
             /\ EndAt(n, j, b) = 0 \/ KeyAt(n, j, a) < EndAt(n, j, b)
  BY <1>2, <1>4, <1>5 DEF Good
<1>7. \A j \in 1..Len(n.entries) : n.entries[j].key # 0
  <2>1. \A j \in 1..Len(n.entries) : j \in Slots(n) /\ j # 0 BY <1>3, RouterHas DEF Slots
  <2> QED BY <1>4, <2>1 DEF Good
<1> HIDE DEF n, a, b
<1>8. /\ \A j \in Slots(n) : KeyAt(n, j, a) \in Nat /\ EndAt(n, j, b) \in Nat
      /\ \A i, j \in Slots(n) : i < j =>
           /\ KeyAt(n, i, a) < KeyAt(n, j, a)
           /\ EndAt(n, i, b) # 0 /\ EndAt(n, i, b) <= KeyAt(n, j, a)
  BY <1>2, <1>3, <1>6, <1>7, SlotsGrow
<1> QED BY <1>3, <1>4, <1>6, <1>7, <1>8 DEF n, a, b

(* The functions of a router.  The entries up to a key are the first ones. *)

Ascending(n) ==
  \A i, j \in 1..Len(n.entries) : i < j => n.entries[i].key < n.entries[j].key

(* The keys of a router of a tree are in ascending order. *)
LEMMA Ascends ==
  ASSUME NEW ns, NEW root, NEW g, Shape(ns, root, g), NEW p \in g.L, g.level[p] > 0
  PROVE  Ascending(ns[p])
<1> DEFINE n == ns[p]
<1>1. n \in Routers /\ \A i, j \in Slots(n) : i < j => KeyAt(n, i, g.lo[p]) < KeyAt(n, j, g.lo[p])
  BY BoundsGrow
<1>2. Len(n.entries) \in Nat BY <1>1, RouterHas
<1> HIDE DEF n
<1>3. ASSUME NEW i \in 1..Len(n.entries), NEW j \in 1..Len(n.entries), i < j
      PROVE  n.entries[i].key < n.entries[j].key
  <2>1. i \in Slots(n) /\ j \in Slots(n) /\ i # 0 /\ j # 0 BY <1>2 DEF Slots
  <2>2. KeyAt(n, i, g.lo[p]) < KeyAt(n, j, g.lo[p]) BY <1>1, <1>3, <2>1
  <2> QED BY <2>1, <2>2 DEF KeyAt
<1> QED BY <1>3 DEF Ascending, n

(* A set of which exactly the first j numbers are members has j members. *)
LEMMA FirstOnes ==
  ASSUME NEW m \in Nat, NEW j \in 0..m, NEW A, A \subseteq 1..m,
         \A i \in 1..m : i \in A <=> i <= j
  PROVE  A = 1..j /\ Cardinality(A) = j
<1>1. A = 1..j
  <2>1. \A i \in 1..j : i \in 1..m /\ i <= j OBVIOUS
  <2>2. \A i \in A : i \in 1..m /\ i <= j OBVIOUS
  <2>3. \A i \in 1..m : i <= j => i \in 1..j OBVIOUS
  <2> QED BY <2>1, <2>2, <2>3
<1>2. Cardinality(1..j) = j BY FS_Interval
<1> QED BY <1>1, <1>2

(* InternalNode.Lookup, which counts the keys up to k, finds the child between whose
   keys k is. *)
LEMMA LookupIs ==
  ASSUME NEW n \in Routers, Ascending(n), NEW k \in Nat, NEW j \in Slots(n),
         j # 0 => n.entries[j].key <= k, j # Len(n.entries) => k < n.entries[j + 1].key
  PROVE  Lookup(n, k) = Child(n, j)
<1> DEFINE m == Len(n.entries)
           A == {i \in DOMAIN n.entries : n.entries[i].key <= k}
<1>0. m \in Nat /\ DOMAIN n.entries = 1..m /\ (\A i \in 1..m : n.entries[i].key \in Nat) /\ j \in 0..m
  BY RouterHas DEF Slots
<1>1. ASSUME NEW i \in 1..m, i <= j PROVE i \in A
  <2>1. j \in 1..m /\ j # 0 /\ (i = j \/ i < j) BY <1>0, <1>1
  <2>2. i = j \/ n.entries[i].key < n.entries[j].key BY <2>1 DEF Ascending
  <2> QED BY <1>0, <2>1, <2>2
<1>2. ASSUME NEW i \in 1..m, ~(i <= j) PROVE i \notin A
  <2>1. j + 1 \in 1..m /\ j # m /\ (i = j + 1 \/ j + 1 < i) BY <1>0, <1>2
  <2>2. i = j + 1 \/ n.entries[j + 1].key < n.entries[i].key BY <2>1 DEF Ascending
  <2> QED BY <1>0, <2>1, <2>2
<1>3. A \subseteq 1..m BY <1>0
<1>4. Cardinality(A) = j
  <2> HIDE DEF A, m
  <2> QED BY <1>0, <1>1, <1>2, <1>3, FirstOnes
<1> QED BY <1>4 DEF Lookup, Child

(* Every key is between two keys of a router, or beside all of them. *)
LEMMA SomeSlot ==
  ASSUME NEW n \in Routers, NEW k \in Nat
  PROVE  \E j \in Slots(n) : /\ j # 0 => n.entries[j].key <= k
                             /\ j # Len(n.entries) => k < n.entries[j + 1].key
<1> DEFINE m == Len(n.entries)
           S == {j \in 1..m : n.entries[j].key <= k}
<1>0. m \in Nat /\ \A j \in 1..m : n.entries[j].key \in Nat BY RouterHas
<1>1. CASE S = {}
  <2>1. 0 \in Slots(n) BY <1>0 DEF Slots
  <2>2. m # 0 => k < n.entries[0 + 1].key
    <3> SUFFICES ASSUME m # 0 PROVE k < n.entries[1].key OBVIOUS
    <3>1. 1 \in 1..m BY <1>0
    <3> QED BY <1>0, <1>1, <3>1
  <2> QED BY <1>0, <2>1, <2>2
<1>2. CASE S # {}
  <2>1. S \subseteq 0..m BY <1>0
  <2>2. PICK j \in S : \A i \in S : i <= j
    <3> HIDE DEF S
    <3> QED BY <1>0, <1>2, <2>1, GreatestExists
  <2>3. j \in Slots(n) /\ n.entries[j].key <= k BY <1>0 DEF Slots
  <2>4. ASSUME j # m PROVE k < n.entries[j + 1].key
    <3>1. j + 1 \in 1..m /\ j + 1 \notin S BY <1>0, <2>2, <2>4
    <3>2. ~(n.entries[j + 1].key <= k) BY <3>1
    <3> QED BY <1>0, <3>1, <3>2
  <2> QED BY <2>3, <2>4
<1> QED BY <1>1, <1>2

(* A child and a sequence of entries make a router. *)
LEMMA RouterFrom ==
  ASSUME NEW c \in Nat, NEW es \in Seq([key : Nat, child : Nat])
  PROVE  Router(c, es) \in Routers
BY DEF Router, Routers

(* r is n with an entry after its j-th. *)
Added(r, n, k, c, j) ==
  /\ r \in Routers /\ r.child0 = n.child0 /\ Len(r.entries) = Len(n.entries) + 1
  /\ \A i \in 1..(Len(n.entries) + 1) : r.entries[i] =
       IF i <= j THEN n.entries[i] ELSE IF i = j + 1 THEN Entry(k, c) ELSE n.entries[i - 1]

(* InternalNode.Insert puts the entry between its neighbours. *)
LEMMA AddEntryIs ==
  ASSUME NEW n \in Routers, Ascending(n), NEW k \in Nat, NEW c \in Nat, NEW j \in Slots(n),
         j # 0 => n.entries[j].key < k, j # Len(n.entries) => k < n.entries[j + 1].key
  PROVE  Added(AddEntry(n, k, c), n, k, c, j)
<1> DEFINE m == Len(n.entries)
           A == {i \in DOMAIN n.entries : n.entries[i].key < k}
           es == InsertAt(n.entries, j + 1, Entry(k, c))
<1>0. /\ m \in Nat /\ DOMAIN n.entries = 1..m /\ (\A i \in 1..m : n.entries[i].key \in Nat) /\ j \in 0..m
      /\ n.child0 \in Nat /\ n.entries \in Seq([key : Nat, child : Nat]) /\ n = Router(n.child0, n.entries)
  BY RouterHas DEF Slots
<1>1. ASSUME NEW i \in 1..m, i <= j PROVE i \in A
  <2>1. j \in 1..m /\ j # 0 /\ (i = j \/ i < j) BY <1>0, <1>1
  <2>2. i = j \/ n.entries[i].key < n.entries[j].key BY <2>1 DEF Ascending
  <2> QED BY SMTT(30), ZenonT(20), <1>0, <2>1, <2>2
<1>2. ASSUME NEW i \in 1..m, ~(i <= j) PROVE i \notin A
  <2>1. j + 1 \in 1..m /\ j # m /\ (i = j + 1 \/ j + 1 < i) BY <1>0, <1>2
  <2>2. i = j + 1 \/ n.entries[j + 1].key < n.entries[i].key BY <2>1 DEF Ascending
  <2> QED BY SMTT(30), ZenonT(20), <1>0, <2>1, <2>2
<1>3. A \subseteq 1..m BY <1>0
<1>4. Cardinality(A) = j
  <2> HIDE DEF A, m
  <2> QED BY <1>0, <1>1, <1>2, <1>3, FirstOnes
<1>5. AddEntry(n, k, c) = [n EXCEPT !.entries = es] BY <1>4 DEF AddEntry
<1>6. [n EXCEPT !.entries = es] = Router(n.child0, es) BY <1>0 DEF Router
<1>7. Entry(k, c) \in [key : Nat, child : Nat] /\ j + 1 \in 1..(m + 1) BY <1>0 DEF Entry
<1>8. /\ es \in Seq([key : Nat, child : Nat]) /\ Len(es) = m + 1
      /\ \A i \in 1..(m + 1) : es[i] =
           IF i < j + 1 THEN n.entries[i] ELSE IF i = j + 1 THEN Entry(k, c) ELSE n.entries[i - 1]
  <2> DEFINE R == [key : Nat, child : Nat]
             s == n.entries
             e == Entry(k, c)
             x == j + 1
  <2>1. s \in Seq(R) /\ e \in R /\ x \in 1..(Len(s) + 1) BY <1>0, <1>7
  <2> HIDE DEF R, s, e, x
  <2>2. /\ InsertAt(s, x, e) \in Seq(R) /\ Len(InsertAt(s, x, e)) = Len(s) + 1
        /\ \A i \in 1..(Len(s) + 1) :
             InsertAt(s, x, e)[i] = IF i < x THEN s[i] ELSE IF i = x THEN e ELSE s[i - 1]
    BY <2>1, InsertAtIs
  <2> QED BY <2>2 DEF R, s, e, x
<1> HIDE DEF es
<1>9. Router(n.child0, es) \in Routers BY <1>0, <1>8, RouterFrom
<1>10. Router(n.child0, es).child0 = n.child0 /\ Router(n.child0, es).entries = es BY DEF Router
<1>11. \A i \in 1..(m + 1) : i < j + 1 <=> i <= j BY <1>0
<1> QED BY <1>5, <1>6, <1>8, <1>9, <1>10, <1>11 DEF Added

(* The children and the bounds of a router that has an entry more. *)
LEMMA AddSlots ==
  ASSUME NEW n \in Routers, NEW r, NEW k, NEW c, NEW j \in Slots(n), Added(r, n, k, c, j)
  PROVE  /\ r \in Routers /\ Len(r.entries) = Len(n.entries) + 1 /\ Slots(r) = 0..(Len(n.entries) + 1)
         /\ \A i \in 0..(Len(n.entries) + 1) :
              /\ Child(r, i) = IF i <= j THEN Child(n, i) ELSE IF i = j + 1 THEN c ELSE Child(n, i - 1)
              /\ \A a : KeyAt(r, i, a) =
                   IF i <= j THEN KeyAt(n, i, a) ELSE IF i = j + 1 THEN k ELSE KeyAt(n, i - 1, a)
              /\ \A b : EndAt(r, i, b) =
                   IF i < j THEN EndAt(n, i, b) ELSE IF i = j THEN k ELSE EndAt(n, i - 1, b)
<1> SUFFICES ASSUME NEW i \in 0..(Len(n.entries) + 1), NEW a, NEW b
             PROVE  /\ r \in Routers /\ Len(r.entries) = Len(n.entries) + 1
                    /\ Slots(r) = 0..(Len(n.entries) + 1)
                    /\ Child(r, i) = IF i <= j THEN Child(n, i) ELSE IF i = j + 1 THEN c ELSE Child(n, i - 1)
                    /\ KeyAt(r, i, a) = IF i <= j THEN KeyAt(n, i, a)
                                        ELSE IF i = j + 1 THEN k ELSE KeyAt(n, i - 1, a)
                    /\ EndAt(r, i, b) = IF i < j THEN EndAt(n, i, b)
                                        ELSE IF i = j THEN k ELSE EndAt(n, i - 1, b)
  <2>1. 0 \in 0..(Len(n.entries) + 1) BY RouterHas
  <2> QED BY <2>1
<1> DEFINE m == Len(n.entries)
<1>0. m \in Nat /\ j \in 0..m BY RouterHas DEF Slots
<1>1. /\ r \in Routers /\ r.child0 = n.child0 /\ Len(r.entries) = m + 1
      /\ \A l \in 1..(m + 1) : r.entries[l] =
           IF l <= j THEN n.entries[l] ELSE IF l = j + 1 THEN Entry(k, c) ELSE n.entries[l - 1]
  BY DEF Added
<1> HIDE DEF m
<1>2. i \in 0..(m + 1) BY DEF m
<1>3. /\ Child(r, i) = IF i <= j THEN Child(n, i) ELSE IF i = j + 1 THEN c ELSE Child(n, i - 1)
      /\ KeyAt(r, i, a) = IF i <= j THEN KeyAt(n, i, a) ELSE IF i = j + 1 THEN k ELSE KeyAt(n, i - 1, a)
  <2>1. CASE i = 0 BY <1>0, <1>1, <2>1 DEF Child, KeyAt
  <2>2. CASE i # 0 /\ i <= j
    <3>1. r.entries[i] = n.entries[i] BY <1>0, <1>1, <1>2, <2>2
    <3> QED BY <2>2, <3>1 DEF Child, KeyAt
  <2>3. CASE i = j + 1
    <3>1. r.entries[i] = Entry(k, c) /\ ~(i <= j) /\ i # 0 BY <1>0, <1>1, <1>2, <2>3
    <3> QED BY <2>3, <3>1 DEF Child, KeyAt, Entry
  <2>4. CASE i > j + 1
    <3>1. r.entries[i] = n.entries[i - 1] /\ ~(i <= j) /\ i # j + 1 /\ i # 0 /\ i - 1 # 0
      BY <1>0, <1>1, <1>2, <2>4
    <3> QED BY <3>1 DEF Child, KeyAt
  <2> QED BY <1>0, <1>2, <2>1, <2>2, <2>3, <2>4
<1>4. EndAt(r, i, b) = IF i < j THEN EndAt(n, i, b) ELSE IF i = j THEN k ELSE EndAt(n, i - 1, b)
  <2>1. CASE i < j
    <3>1. i + 1 \in 1..(m + 1) /\ i + 1 <= j /\ i # m + 1 /\ i # m BY <1>0, <1>2, <2>1
    <3>2. r.entries[i + 1] = n.entries[i + 1] BY <1>1, <3>1
    <3> QED BY <1>1, <2>1, <3>1, <3>2 DEF EndAt, m
  <2>2. CASE i = j
    <3>1. i + 1 \in 1..(m + 1) /\ ~(i + 1 <= j) /\ i + 1 = j + 1 /\ i # m + 1 /\ ~(i < j)
      BY <1>0, <1>2, <2>2
    <3>2. r.entries[i + 1] = Entry(k, c) BY <1>1, <3>1
    <3> QED BY <1>1, <2>2, <3>1, <3>2 DEF EndAt, Entry
  <2>3. CASE i > j /\ i # m + 1
    <3>1. i + 1 \in 1..(m + 1) /\ ~(i + 1 <= j) /\ i + 1 # j + 1 /\ ~(i < j) /\ i # j /\ i - 1 # m
          /\ (i + 1) - 1 = i /\ (i - 1) + 1 = i
      BY <1>0, <1>2, <2>3
    <3>2. r.entries[i + 1] = n.entries[(i - 1) + 1] BY <1>1, <3>1
    <3> QED BY <1>1, <2>3, <3>1, <3>2 DEF EndAt, m
  <2>4. CASE i = m + 1
    <3>1. ~(i < j) /\ i # j /\ i - 1 = m BY <1>0, <2>4
    <3> QED BY <1>1, <2>4, <3>1 DEF EndAt, m
  <2>5. i < j \/ i = j \/ i > j BY <1>0, <1>2
  <2> QED BY <2>1, <2>2, <2>3, <2>4, <2>5
<1> QED BY <1>1, <1>3, <1>4 DEF m, Slots

(* A router with other entries keeps its first child. *)
LEMMA WithEntries ==
  ASSUME NEW n \in Routers, NEW es PROVE [n EXCEPT !.entries = es] = Router(n.child0, es)
<1>1. n = Router(n.child0, n.entries) BY RouterHas
<1> QED BY <1>1 DEF Router

(* The children and the bounds of the lower half of a router that is split. *)
LowerPart(r, n, h, i, a, b) ==
  /\ r \in Routers /\ Len(r.entries) = h /\ Slots(r) = 0..h /\ i \in Slots(n)
  /\ Child(r, i) = Child(n, i) /\ KeyAt(r, i, a) = KeyAt(n, i, a)
  /\ EndAt(r, i, n.entries[h + 1].key) = EndAt(n, i, b)
  /\ \A l \in 1..h : r.entries[l] = n.entries[l]

(* The lower half keeps its children and their bounds. *)
LEMMA LowerSlots ==
  ASSUME NEW n \in Routers, NEW h \in Nat, h < Len(n.entries), NEW a, NEW b, NEW i \in 0..h,
         NEW r, r = [n EXCEPT !.entries = SubSeq(@, 1, h)]
  PROVE  LowerPart(r, n, h, i, a, b)
<1> DEFINE R == [key : Nat, child : Nat]
           s == n.entries
           es == SubSeq(s, 1, h)
<1>r. r = [n EXCEPT !.entries = es] OBVIOUS
<1>0. /\ s \in Seq(R) /\ Len(s) \in Nat /\ n.child0 \in Nat /\ n = Router(n.child0, s)
      /\ \A l \in 1..Len(s) : s[l] \in R
  <2>1. s \in Seq(R) /\ Len(s) \in Nat /\ n.child0 \in Nat /\ n = Router(n.child0, s) BY RouterHas
  <2> HIDE DEF s, R
  <2>2. \A l \in 1..Len(s) : s[l] \in R BY <2>1, ElementOfSeq
  <2> QED BY <2>1, <2>2
<1>1. es \in Seq(R) /\ Len(es) = h /\ \A l \in 1..h : es[l] = s[l]
  <2> HIDE DEF s, R
  <2>1. \A l \in 1..h : s[l] \in R BY <1>0 DEF s
  <2>2. 1 \in Int /\ h \in Int /\ h - 1 + 1 = h /\ (1 <= h \/ h = 0) OBVIOUS
  <2>3. /\ es \in Seq(R) /\ Len(es) = (IF 1 <= h THEN h - 1 + 1 ELSE 0)
        /\ \A l \in 1..(h - 1 + 1) : es[l] = s[1 + l - 1]
    BY <2>1, <2>2, SubSeqProperties
  <2>4. \A l \in 1..h : 1 + l - 1 = l OBVIOUS
  <2> HIDE DEF es
  <2> QED BY <2>2, <2>3, <2>4
<1> HIDE DEF es
<1>2. r = Router(n.child0, es) BY <1>r, WithEntries
<1>3. r \in Routers /\ r.child0 = n.child0 /\ r.entries = es
  <2>1. Router(n.child0, es) \in Routers BY <1>0, <1>1, RouterFrom
  <2>2. Router(n.child0, es).child0 = n.child0 /\ Router(n.child0, es).entries = es BY DEF Router
  <2> QED BY <1>2, <2>1, <2>2
<1>4. i \in Slots(n) /\ Slots(r) = 0..h BY <1>0, <1>1, <1>3 DEF Slots, s
<1>5. Child(r, i) = Child(n, i) /\ KeyAt(r, i, a) = KeyAt(n, i, a)
  <2>1. i # 0 => es[i] = n.entries[i] BY <1>1 DEF s
  <2> QED BY <1>3, <2>1 DEF Child, KeyAt
<1>6. EndAt(r, i, n.entries[h + 1].key) = EndAt(n, i, b)
  <2>1. CASE i = h
    <3>1. i # Len(n.entries) BY <1>0, <2>1 DEF s
    <3> QED BY <1>1, <1>3, <2>1, <3>1 DEF EndAt
  <2>2. CASE i # h
    <3>1. i # Len(n.entries) /\ i + 1 \in 1..h BY <1>0, <2>2 DEF s
    <3>2. es[i + 1] = n.entries[i + 1] BY <1>1, <3>1 DEF s
    <3> QED BY <1>1, <1>3, <2>2, <3>1, <3>2 DEF EndAt
  <2> QED BY <2>1, <2>2
<1> QED BY <1>1, <1>3, <1>4, <1>5, <1>6 DEF LowerPart, s

(* The children and the bounds of the upper half, which begins behind the promoted
   key. *)
UpperPart(r, n, h, i, a, b) ==
  /\ r \in Routers /\ Len(r.entries) = Len(n.entries) - (h + 1)
  /\ Slots(r) = 0..(Len(n.entries) - (h + 1))
  /\ i + h + 1 \in Slots(n) /\ Child(r, i) = Child(n, i + h + 1)
  /\ KeyAt(r, i, n.entries[h + 1].key) = KeyAt(n, i + h + 1, a)
  /\ EndAt(r, i, b) = EndAt(n, i + h + 1, b)
  /\ \A l \in 1..(Len(n.entries) - (h + 1)) : r.entries[l] = n.entries[l + h + 1]

(* The upper half keeps its children and their bounds. *)
LEMMA UpperSlots ==
  ASSUME NEW n \in Routers, NEW h \in Nat, h < Len(n.entries),
         NEW a, NEW b, NEW i \in 0..(Len(n.entries) - (h + 1)),
         NEW r, r = Router(n.entries[h + 1].child, SubSeq(n.entries, h + 2, Len(n.entries)))
  PROVE  UpperPart(r, n, h, i, a, b)
<1> DEFINE R == [key : Nat, child : Nat]
           s == n.entries
           m == Len(n.entries)
           es == SubSeq(s, h + 2, m)
<1>r. r = Router(s[h + 1].child, es) OBVIOUS
<1>0. s \in Seq(R) /\ m \in Nat /\ (\A l \in 1..m : s[l] \in R) /\ s[h + 1].child \in Nat
  <2>1. s \in Seq(R) /\ m \in Nat BY RouterHas
  <2>2. \A l \in 1..m : s[l] \in R
    <3> HIDE DEF R
    <3> QED BY <2>1, ElementOfSeq
  <2>3. h + 1 \in 1..m BY <2>1
  <2> QED BY <2>1, <2>2, <2>3, RouterHas
<1> HIDE DEF m
<1>a. h < m BY DEF m
<1>1. es \in Seq(R) /\ Len(es) = m - (h + 1) /\ \A l \in 1..(m - (h + 1)) : es[l] = s[l + h + 1]
  <2> HIDE DEF s, R
  <2>1. \A l \in (h + 2)..m : s[l] \in R BY <1>0
  <2>2. h + 2 \in Int /\ m \in Int /\ m - (h + 2) + 1 = m - (h + 1)
        /\ (h + 2 <= m \/ m - (h + 1) = 0)
    BY <1>0, <1>a
  <2>3. /\ es \in Seq(R) /\ Len(es) = (IF h + 2 <= m THEN m - (h + 2) + 1 ELSE 0)
        /\ \A l \in 1..(m - (h + 2) + 1) : es[l] = s[(h + 2) + l - 1]
    BY <2>1, <2>2, SubSeqProperties
  <2>4. \A l \in Int : (h + 2) + l - 1 = l + h + 1 OBVIOUS
  <2> HIDE DEF es
  <2>5. Len(es) = m - (h + 1) BY <2>2, <2>3
  <2>6. ASSUME NEW l \in 1..(m - (h + 1)) PROVE es[l] = s[l + h + 1]
    <3>1. l \in 1..(m - (h + 2) + 1) /\ l \in Int BY <2>2
    <3> QED BY <2>3, <2>4, <3>1
  <2> QED BY <2>3, <2>5, <2>6
<1> HIDE DEF es
<1>3. r \in Routers /\ r.child0 = s[h + 1].child /\ r.entries = es
  <2>1. r \in Routers BY <1>0, <1>1, <1>r, RouterFrom
  <2>2. r.child0 = s[h + 1].child /\ r.entries = es BY <1>r DEF Router
  <2> QED BY <2>1, <2>2
<1>s. Slots(r) = 0..(m - (h + 1)) BY <1>1, <1>3 DEF Slots
<1>b. i \in 0..(m - (h + 1)) BY DEF m
<1>i. /\ i + h + 1 \in Slots(n) /\ Child(r, i) = Child(n, i + h + 1)
      /\ KeyAt(r, i, n.entries[h + 1].key) = KeyAt(n, i + h + 1, a)
      /\ EndAt(r, i, b) = EndAt(n, i + h + 1, b)
  <2>0. i + h + 1 \in Slots(n) /\ i + h + 1 # 0 BY <1>0, <1>a, <1>b DEF Slots, m
  <2>5. Child(r, i) = Child(n, i + h + 1) /\ KeyAt(r, i, n.entries[h + 1].key) = KeyAt(n, i + h + 1, a)
    <3>1. CASE i = 0
      <4>1. i + h + 1 = h + 1 /\ h + 1 # 0 BY <3>1
      <4> QED BY <1>3, <3>1, <4>1 DEF Child, KeyAt
    <3>2. CASE i # 0
      <4>1. i \in 1..(m - (h + 1)) BY <1>0, <1>b, <2>0, <3>2
      <4>2. es[i] = n.entries[i + h + 1] BY <1>1, <4>1
      <4> QED BY <1>3, <2>0, <3>2, <4>2 DEF Child, KeyAt
    <3> QED BY <3>1, <3>2
  <2>6. EndAt(r, i, b) = EndAt(n, i + h + 1, b)
    <3>1. CASE i = m - (h + 1)
      <4>1. i + h + 1 = m BY <1>0, <1>b, <3>1
      <4> QED BY <1>1, <1>3, <3>1, <4>1 DEF EndAt, m
    <3>2. CASE i # m - (h + 1)
      <4>1. i + h + 1 # m /\ i + 1 \in 1..(m - (h + 1)) /\ (i + 1) + h + 1 = (i + h + 1) + 1
        BY <1>0, <1>b, <2>0, <3>2
      <4>2. es[i + 1] = n.entries[(i + h + 1) + 1]
        <5> DEFINE x == i + 1
        <5>1. x \in 1..(m - (h + 1)) /\ x + h + 1 = (i + h + 1) + 1 BY <4>1
        <5>2. es[x] = s[x + h + 1]
          <6> HIDE DEF x, s, m
          <6> QED BY <1>1, <5>1
        <5> QED BY <5>1, <5>2
      <4> QED BY <1>1, <1>3, <3>2, <4>1, <4>2 DEF EndAt, m
    <3> QED BY <3>1, <3>2
  <2> QED BY <2>0, <2>5, <2>6
<1> QED BY <1>1, <1>3, <1>s, <1>i DEF UpperPart, m

(* r is n without its j-th entry: what is said of slot i. *)
Dropped(r, n, j, i, a, b) ==
  /\ r \in Routers /\ Len(r.entries) = Len(n.entries) - 1
  /\ Slots(r) = 0..(Len(n.entries) - 1)
  /\ Child(r, i) = IF i < j THEN Child(n, i) ELSE Child(n, i + 1)
  /\ KeyAt(r, i, a) = IF i < j THEN KeyAt(n, i, a) ELSE KeyAt(n, i + 1, a)
  /\ EndAt(r, i, b) = IF i < j - 1 THEN EndAt(n, i, b) ELSE EndAt(n, i + 1, b)

(* InternalNode.Delete drops the entry of the key, with its child, and the child
   before it takes its bounds over. *)
LEMMA DropSlots ==
  ASSUME NEW n \in Routers, Ascending(n), NEW j \in 1..Len(n.entries), NEW k, k = n.entries[j].key,
         NEW a, NEW b, NEW i \in 0..(Len(n.entries) - 1)
  PROVE  Dropped(DropEntry(n, k), n, j, i, a, b)
<1> DEFINE R == [key : Nat, child : Nat]
           s == n.entries
           m == Len(n.entries)
           at == {l \in DOMAIN n.entries : n.entries[l].key = k}
           es == RemoveAt(s, j)
           r == DropEntry(n, k)
<1>0. /\ s \in Seq(R) /\ m \in Nat /\ DOMAIN s = 1..m /\ n.child0 \in Nat /\ n = Router(n.child0, s)
      /\ \A l \in 1..m : n.entries[l].key \in Nat
  BY RouterHas
<1>1. at = {j}
  <2>1. j \in at BY <1>0
  <2>2. ASSUME NEW l \in at PROVE l = j
    <3>1. l \in 1..m /\ n.entries[l].key = n.entries[j].key BY <1>0
    <3>2. ~(l < j) BY SMTT(30), ZenonT(20), <1>0, <3>1 DEF Ascending
    <3>3. ~(j < l) BY SMTT(30), ZenonT(20), <1>0, <3>1 DEF Ascending
    <3> QED BY <3>1, <3>2, <3>3
  <2> QED BY <2>1, <2>2
<1>2. Min(at) = j
  <2>1. \A x \in {j} : \A y \in {j} : x <= y OBVIOUS
  <2> QED BY <1>1, <2>1 DEF Min
<1>3. r = [n EXCEPT !.entries = es] BY <1>1, <1>2 DEF DropEntry
<1>4. r = Router(n.child0, es) BY <1>0, <1>3 DEF Router
<1>5. /\ es \in Seq(R) /\ Len(es) = m - 1
      /\ \A l \in 1..(m - 1) : es[l] = IF l < j THEN s[l] ELSE s[l + 1]
  <2>1. j \in 1..Len(s) BY DEF m
  <2> HIDE DEF R, s
  <2> QED BY <1>0, <2>1, RemoveAtIs DEF m, s
<1> HIDE DEF es
<1>6. r \in Routers /\ r.child0 = n.child0 /\ r.entries = es
  <2>1. Router(n.child0, es) \in Routers BY <1>0, <1>5, RouterFrom
  <2>2. Router(n.child0, es).child0 = n.child0 /\ Router(n.child0, es).entries = es BY DEF Router
  <2> QED BY <1>4, <2>1, <2>2
<1> HIDE DEF r, m
<1>7. Slots(r) = 0..(m - 1) /\ i \in 0..(m - 1) /\ j \in 1..m BY <1>5, <1>6 DEF Slots, m
<1>8. /\ Child(r, i) = IF i < j THEN Child(n, i) ELSE Child(n, i + 1)
      /\ KeyAt(r, i, a) = IF i < j THEN KeyAt(n, i, a) ELSE KeyAt(n, i + 1, a)
  <2>1. CASE i = 0
    <3>1. i < j BY <1>7, <2>1
    <3> QED BY <1>6, <2>1, <3>1 DEF Child, KeyAt
  <2>2. CASE i # 0
    <3>1. i \in 1..(m - 1) /\ i + 1 # 0 BY <1>0, <1>7, <2>2
    <3>2. es[i] = IF i < j THEN n.entries[i] ELSE n.entries[i + 1] BY <1>5, <3>1
    <3> QED BY <1>6, <2>2, <3>1, <3>2 DEF Child, KeyAt
  <2> QED BY <2>1, <2>2
<1>9. EndAt(r, i, b) = IF i < j - 1 THEN EndAt(n, i, b) ELSE EndAt(n, i + 1, b)
  <2>1. CASE i = m - 1
    <3>1. ~(i < j - 1) /\ i + 1 = m BY <1>0, <1>7, <2>1
    <3> QED BY <1>5, <1>6, <2>1, <3>1 DEF EndAt, m
  <2>2. CASE i # m - 1
    <3>1. i + 1 \in 1..(m - 1) /\ i # m /\ i + 1 # m /\ (i + 1 < j <=> i < j - 1) BY <1>0, <1>7, <2>2
    <3>2. es[i + 1] = IF i + 1 < j THEN n.entries[i + 1] ELSE n.entries[(i + 1) + 1] BY <1>5, <3>1
    <3> QED BY <1>5, <1>6, <2>2, <3>1, <3>2 DEF EndAt, m
  <2> QED BY <2>1, <2>2
<1>10. Dropped(r, n, j, i, a, b) BY <1>5, <1>6, <1>7, <1>8, <1>9 DEF m, Dropped
<1> QED BY <1>10 DEF r

(* r is n with the key k in its j-th entry: what is said of slot i. *)
Rekeyed(r, n, j, k, i, a, b) ==
  /\ r \in Routers /\ Len(r.entries) = Len(n.entries) /\ Slots(r) = Slots(n)
  /\ Child(r, i) = Child(n, i)
  /\ KeyAt(r, i, a) = IF i = j THEN k ELSE KeyAt(n, i, a)
  /\ EndAt(r, i, b) = IF i = j - 1 THEN k ELSE EndAt(n, i, b)

(* The bounds of a router in which a borrowing has set the key of a child. *)
LEMMA SetKeySlots ==
  ASSUME NEW n \in Routers, NEW j \in 1..Len(n.entries), NEW c \in Nat, NEW k \in Nat,
         n.entries[j].child = c,
         \A l \in 1..Len(n.entries) : n.entries[l].child = c => l = j,
         NEW a, NEW b, NEW i \in Slots(n)
  PROVE  Rekeyed(SetEntryKey(n, c, k), n, j, k, i, a, b)
<1> DEFINE R == [key : Nat, child : Nat]
           s == n.entries
           m == Len(n.entries)
           es == [l \in DOMAIN s |-> IF s[l].child = c THEN Entry(k, c) ELSE s[l]]
           r == SetEntryKey(n, c, k)
<1>0. /\ s \in Seq(R) /\ m \in Nat /\ DOMAIN s = 1..m /\ n.child0 \in Nat /\ n = Router(n.child0, s)
      /\ \A l \in 1..m : s[l] \in R
  <2>1. /\ s \in Seq(R) /\ m \in Nat /\ DOMAIN s = 1..m /\ n.child0 \in Nat /\ n = Router(n.child0, s)
    BY RouterHas
  <2> HIDE DEF R
  <2> QED BY <2>1, ElementOfSeq
<1>1. r = Router(n.child0, es)
  <2>1. r = [n EXCEPT !.entries = es] BY DEF SetEntryKey
  <2> HIDE DEF es, r
  <2> QED BY <2>1, WithEntries
<1>2. Entry(k, c) \in R BY DEF Entry
<1>3. es \in Seq(R) /\ Len(es) = m
  <2>1. es \in [1..m -> R] BY <1>0, <1>2
  <2> HIDE DEF es, R, m
  <2> QED BY <1>0, <2>1, SeqDef, LenProperties
<1>4. \A l \in 1..m : es[l] = IF l = j THEN Entry(k, c) ELSE s[l] BY <1>0
<1> HIDE DEF es
<1>5. r \in Routers /\ r.child0 = n.child0 /\ r.entries = es
  <2>1. Router(n.child0, es) \in Routers BY <1>0, <1>3, RouterFrom
  <2>2. Router(n.child0, es).child0 = n.child0 /\ Router(n.child0, es).entries = es BY DEF Router
  <2> QED BY <1>1, <2>1, <2>2
<1> HIDE DEF r, m
<1>6. Slots(r) = Slots(n) /\ i \in 0..m /\ j \in 1..m BY <1>3, <1>5 DEF Slots, m
<1>7. Child(r, i) = Child(n, i) /\ KeyAt(r, i, a) = IF i = j THEN k ELSE KeyAt(n, i, a)
  <2>1. CASE i = 0
    <3>1. i # j BY <1>6, <2>1
    <3> QED BY <1>5, <2>1, <3>1 DEF Child, KeyAt
  <2>2. CASE i # 0
    <3>1. i \in 1..m BY <1>0, <1>6, <2>2
    <3>2. es[i] = IF i = j THEN Entry(k, c) ELSE n.entries[i] BY <1>4, <3>1
    <3> QED BY <1>5, <2>2, <3>1, <3>2 DEF Child, KeyAt, Entry
  <2> QED BY <2>1, <2>2
<1>8. EndAt(r, i, b) = IF i = j - 1 THEN k ELSE EndAt(n, i, b)
  <2>1. CASE i = m
    <3>1. i # j - 1 BY <1>0, <1>6, <2>1
    <3> QED BY <1>3, <1>5, <2>1, <3>1 DEF EndAt, m
  <2>2. CASE i # m
    <3>0. m \in Nat /\ i \in 0..m /\ j \in 1..m BY <1>0, <1>6
    <3>1. i + 1 \in 1..m /\ (i + 1 = j <=> i = j - 1)
      <4>1. i \in Nat /\ j \in Nat /\ i <= m BY <3>0
      <4>2. i < m BY <2>2, <3>0, <4>1
      <4> QED BY <3>0, <4>1, <4>2
    <3>2. es[i + 1] = IF i + 1 = j THEN Entry(k, c) ELSE n.entries[i + 1] BY <1>4, <3>1
    <3> QED BY <1>3, <1>5, <2>2, <3>1, <3>2 DEF EndAt, m, Entry
  <2> QED BY <2>1, <2>2
<1>9. Rekeyed(r, n, j, k, i, a, b) BY <1>3, <1>5, <1>6, <1>7, <1>8 DEF m, Rekeyed
<1> QED BY <1>9 DEF r

-----------------------------------------------------------------------------
(* Pages.  No two routers share a child. *)

(* The interval of a child is within that of its router. *)
LEMMA SlotWithin ==
  ASSUME NEW ns, NEW root, NEW g, Shape(ns, root, g), NEW p \in g.L, g.level[p] > 0,
         NEW j \in Slots(ns[p])
  PROVE  /\ g.lo[p] <= KeyAt(ns[p], j, g.lo[p])
         /\ g.hi[p] = 0 \/ /\ KeyAt(ns[p], j, g.lo[p]) < g.hi[p]
                           /\ EndAt(ns[p], j, g.hi[p]) # 0 /\ EndAt(ns[p], j, g.hi[p]) <= g.hi[p]
<1> DEFINE n == ns[p]
           a == g.lo[p]
           b == g.hi[p]
           m == Len(n.entries)
<1>1. /\ n \in Routers
      /\ \A i \in Slots(n) :
           /\ KeyAt(n, i, a) \in Nat /\ EndAt(n, i, b) \in Nat
           /\ EndAt(n, i, b) = 0 \/ KeyAt(n, i, a) < EndAt(n, i, b)
      /\ \A h, i \in Slots(n) : h < i =>
           /\ KeyAt(n, h, a) < KeyAt(n, i, a)
           /\ EndAt(n, h, b) # 0 /\ EndAt(n, h, b) <= KeyAt(n, i, a)
  BY BoundsGrow
<1>2. m \in Nat /\ Slots(n) = 0..m BY <1>1, RouterHas DEF Slots
<1>3. KeyAt(n, 0, a) = a /\ EndAt(n, m, b) = b BY DEF KeyAt, EndAt
<1> HIDE DEF n, a, b, m
<1>4. j \in 0..m /\ 0 \in Slots(n) /\ m \in Slots(n) BY <1>2 DEF n
<1>5. a <= KeyAt(n, j, a)
  <2>1. j = 0 \/ KeyAt(n, 0, a) < KeyAt(n, j, a) BY <1>1, <1>2, <1>4
  <2> QED BY <1>1, <1>2, <1>3, <1>4, <2>1
<1>6. b = 0 \/ (KeyAt(n, j, a) < b /\ EndAt(n, j, b) # 0 /\ EndAt(n, j, b) <= b)
  <2>1. j = m \/ (KeyAt(n, j, a) < KeyAt(n, m, a) /\ EndAt(n, j, b) # 0 /\ EndAt(n, j, b) <= KeyAt(n, m, a))
    BY <1>1, <1>2, <1>4
  <2>2. b = 0 \/ KeyAt(n, m, a) < b BY <1>1, <1>3, <1>4
  <2>3. b \in Nat BY <1>1, <1>3, <1>4
  <2> QED BY <1>1, <1>2, <1>3, <1>4, <2>1, <2>2, <2>3
<1> QED BY <1>5, <1>6 DEF n, a, b

(* No two pages of a level are for the same key. *)
LEMMA SamePage ==
  ASSUME NEW ns, NEW root, NEW g, Shape(ns, root, g), NEW p \in g.L, NEW q \in g.L,
         g.level[p] = g.level[q], NEW k \in Nat, Covers(g, p, k), Covers(g, q, k)
  PROVE  p = q
<1> SUFFICES ASSUME p # q PROVE FALSE OBVIOUS
<1>1. Typed(ns, g) /\ Apart(g) BY DEF Shape
<1>2. /\ g.lo[p] \in Nat /\ g.lo[q] \in Nat /\ g.hi[p] \in Nat /\ g.hi[q] \in Nat BY <1>1, TypesOf
<1>3. Before(g, p, q) \/ Before(g, q, p) BY <1>1 DEF Apart
<1> QED BY <1>2, <1>3 DEF Before, Covers, Within

(* The interval of a page is not empty. *)
LEMMA CoversLo ==
  ASSUME NEW ns, NEW root, NEW g, Shape(ns, root, g), NEW p \in g.L
  PROVE  Covers(g, p, g.lo[p]) /\ g.lo[p] \in Nat
<1>1. Typed(ns, g) /\ Apart(g) BY DEF Shape
<1>2. g.lo[p] \in Nat /\ g.hi[p] \in Nat BY <1>1, TypesOf
<1> QED BY <1>1, <1>2 DEF Covers, Within, Apart

(* A page is the child of one router, and in one place of it. *)
LEMMA OneParent ==
  ASSUME NEW ns, NEW root, NEW g, Shape(ns, root, g),
         NEW p \in g.L, g.level[p] > 0, NEW i \in Slots(ns[p]),
         NEW q \in g.L, g.level[q] > 0, NEW j \in Slots(ns[q]), Child(ns[p], i) = Child(ns[q], j)
  PROVE  p = q /\ i = j
<1> DEFINE c == Child(ns[p], i)
<1>1. Good(ns[p], g, g.level[p], g.lo[p], g.hi[p], Known(g)) BY BoundsGrow
<1>2. Good(ns[q], g, g.level[q], g.lo[q], g.hi[q], Known(g)) BY BoundsGrow
<1>3. /\ c \in g.L /\ g.level[c] + 1 = g.level[p] /\ g.lo[c] = KeyAt(ns[p], i, g.lo[p])
      /\ g.level[c] + 1 = g.level[q] /\ g.lo[c] = KeyAt(ns[q], j, g.lo[q])
  BY <1>1, <1>2 DEF Good
<1>4. g.lo[c] \in Nat BY <1>3, CoversLo
<1>5. Covers(g, p, g.lo[c]) BY <1>3, SlotWithin DEF Covers, Within
<1>6. Covers(g, q, g.lo[c]) BY <1>3, SlotWithin DEF Covers, Within
<1> HIDE DEF c
<1>7. p = q BY <1>3, <1>4, <1>5, <1>6, SamePage
<1>8. ~(i < j) /\ ~(j < i)
  <2>1. \A x, y \in Slots(ns[p]) : x < y => KeyAt(ns[p], x, g.lo[p]) < KeyAt(ns[p], y, g.lo[p])
    BY BoundsGrow
  <2>2. i \in Slots(ns[p]) /\ j \in Slots(ns[p]) BY <1>7
  <2>3. KeyAt(ns[p], i, g.lo[p]) = KeyAt(ns[p], j, g.lo[p]) BY <1>3, <1>7
  <2>4. i < j => KeyAt(ns[p], i, g.lo[p]) < KeyAt(ns[p], j, g.lo[p]) BY <2>1, <2>2
  <2>5. j < i => KeyAt(ns[p], j, g.lo[p]) < KeyAt(ns[p], i, g.lo[p]) BY <2>1, <2>2
  <2>6. KeyAt(ns[p], i, g.lo[p]) \in Nat BY <1>3, <1>4
  <2> QED BY <2>3, <2>4, <2>5, <2>6
<1>9. i \in Int /\ j \in Int
  <2>1. ns[p] \in Routers /\ ns[q] \in Routers BY BoundsGrow
  <2> QED BY <2>1, RouterHas DEF Slots
<1> QED BY <1>7, <1>8, <1>9

(* The pages when one is written. *)
LEMMA PutPage ==
  ASSUME NEW ns \in Seq(Nodes), NEW p \in DOMAIN ns, NEW n \in Nodes
  PROVE  LET r == [ns EXCEPT ![p] = n]
         IN  r \in Seq(Nodes) /\ DOMAIN r = DOMAIN ns /\ Len(r) = Len(ns)
             /\ \A q \in DOMAIN ns : r[q] = IF q = p THEN n ELSE ns[q]
<1> DEFINE r == [ns EXCEPT ![p] = n]
<1>1. ns \in [1..Len(ns) -> Nodes] /\ Len(ns) \in Nat /\ DOMAIN ns = 1..Len(ns) BY LenProperties
<1>2. r \in [1..Len(ns) -> Nodes] /\ \A q \in DOMAIN ns : r[q] = IF q = p THEN n ELSE ns[q] BY <1>1
<1> HIDE DEF r
<1>3. r \in Seq(Nodes) /\ Len(r) = Len(ns) BY <1>1, <1>2, SeqDef, LenProperties
<1> QED BY <1>1, <1>2, <1>3 DEF r

(* The pages when one is allocated. *)
LEMMA AddPage ==
  ASSUME NEW ns \in Seq(Nodes), NEW n \in Nodes
  PROVE  LET r == NewPage(ns, n)
         IN  r \in Seq(Nodes) /\ DOMAIN r = 1..(Len(ns) + 1) /\ Len(r) = Len(ns) + 1
             /\ r[NewPageID(ns)] = n /\ NewPageID(ns) = Len(ns) + 1 /\ NewPageID(ns) \in Nat
             /\ NewPageID(ns) \notin DOMAIN ns /\ NewPageID(ns) # 0
             /\ DOMAIN r = DOMAIN ns \cup {NewPageID(ns)}
             /\ \A q \in DOMAIN ns : r[q] = ns[q]
<1>1. Append(ns, n) \in Seq(Nodes) /\ Len(Append(ns, n)) = Len(ns) + 1 /\ Append(ns, n)[Len(ns) + 1] = n
      /\ \A q \in 1..Len(ns) : Append(ns, n)[q] = ns[q]
  BY AppendProperties
<1>2. DOMAIN ns = 1..Len(ns) /\ Len(ns) \in Nat BY LenProperties
<1>3. DOMAIN Append(ns, n) = 1..(Len(ns) + 1) BY <1>1, LenProperties
<1>4. 1..(Len(ns) + 1) = (1..Len(ns)) \cup {Len(ns) + 1} BY <1>2
<1> QED BY <1>1, <1>2, <1>3, <1>4 DEF NewPage, NewPageID

(* A router stays good when its children stay as they are. *)
LEMMA GoodStays ==
  ASSUME NEW n, NEW g, NEW l, NEW a, NEW b, NEW end, Good(n, g, l, a, b, end),
         NEW h, NEW end2,
         \A c \in g.L : g.level[c] + 1 = l =>
           c \in h.L /\ h.level[c] = g.level[c] /\ h.lo[c] = g.lo[c] /\ end2[c] = end[c]
  PROVE  Good(n, h, l, a, b, end2)
BY DEF Good

-----------------------------------------------------------------------------
(* A router takes the right half of a child that was split. *)

(* The halves of a split that is pending lie side by side on one level. *)
LEMMA HalvesAre ==
  ASSUME NEW ns, NEW root, NEW g, Shape(ns, root, g), g.left # 0
  PROVE  /\ g.left \in g.L /\ g.right \in g.L /\ g.left # g.right /\ g.level[g.left] = g.level[g.right]
         /\ g.hi[g.left] = g.lo[g.right] /\ g.lo[g.left] < g.lo[g.right]
         /\ g.lo[g.right] \in Nat /\ g.lo[g.left] \in Nat /\ g.lo[g.right] # 0
         /\ g.hi[g.right] = 0 \/ g.lo[g.right] < g.hi[g.right]
         /\ g.left \in Nat /\ g.right \in Nat /\ Known(g)[g.left] = g.hi[g.right] /\ g.right # 0
         /\ Known(g)[g.right] = g.hi[g.right]
<1>1. Typed(ns, g) /\ Halved(g) /\ Apart(g) BY DEF Shape
<1>2. /\ g.left \in g.L /\ g.right \in g.L /\ g.left # g.right /\ g.level[g.left] = g.level[g.right]
      /\ g.hi[g.left] = g.lo[g.right] /\ g.hi[g.left] # 0
  BY <1>1 DEF Halved
<1>3. /\ g.left \in Nat /\ g.right \in Nat /\ Known(g)[g.left] = g.hi[g.right] /\ g.right # 0
      /\ Known(g)[g.right] = g.hi[g.right]
      /\ g.lo[g.right] \in Nat /\ g.lo[g.left] \in Nat
  BY <1>1, <1>2, TypesOf
<1>4. g.hi[g.right] = 0 \/ g.lo[g.right] < g.hi[g.right] BY <1>1, <1>2 DEF Apart
<1>5. g.lo[g.left] < g.lo[g.right] BY <1>1, <1>2 DEF Apart
<1> QED BY <1>2, <1>3, <1>4, <1>5

(* The router of a split page is good with the right half in its place, and by the
   true bounds. *)
LEMMA AddGood ==
  ASSUME NEW ns, NEW root, NEW g, Shape(ns, root, g), g.left # 0,
         NEW n \in Routers, Ascending(n), NEW a, NEW b,
         Good(n, g, g.level[g.left] + 1, a, b, Known(g)),
         NEW j \in Slots(n), Child(n, j) = g.left,
         \A i \in Slots(n) : Child(n, i) = g.left => i = j
  PROVE  LET r == AddEntry(n, g.lo[g.right], g.right)
         IN  /\ r \in Routers /\ Len(r.entries) = Len(n.entries) + 1
             /\ Good(r, g, g.level[g.left] + 1, a, b, g.hi)
<1> DEFINE k == g.lo[g.right]
           c == g.right
           m == Len(n.entries)
           r == AddEntry(n, k, c)
           l == g.level[g.left] + 1
<1>1. /\ g.left \in g.L /\ c \in g.L /\ g.left # c /\ g.level[g.left] = g.level[c] /\ g.hi[g.left] = k
      /\ g.lo[g.left] < k /\ k \in Nat /\ k # 0 /\ g.lo[g.left] \in Nat
      /\ g.hi[c] = 0 \/ k < g.hi[c]
      /\ c \in Nat /\ Known(g)[g.left] = g.hi[c] /\ Known(g)[c] = g.hi[c]
  BY HalvesAre
<1>2. m \in Nat /\ Slots(n) = 0..m /\ (\A i \in 1..m : n.entries[i].key \in Nat) BY RouterHas DEF Slots
<1>3. ASSUME NEW i \in Slots(n)
      PROVE  /\ Child(n, i) \in g.L /\ g.level[Child(n, i)] + 1 = l
             /\ g.lo[Child(n, i)] = KeyAt(n, i, a) /\ Known(g)[Child(n, i)] = EndAt(n, i, b)
             /\ i # 0 => n.entries[i].key # 0
  BY DEF Good
<1>4. ASSUME NEW i \in Slots(n), i # j PROVE g.hi[Child(n, i)] = EndAt(n, i, b)
  <2>1. Typed(ns, g) BY DEF Shape
  <2>2. Child(n, i) # g.left /\ Child(n, i) \in Nat BY <1>3, <1>4, <2>1, TypesOf
  <2> QED BY <1>3, <2>1, <2>2, TypesOf
<1>5. g.lo[g.left] = KeyAt(n, j, a) /\ g.hi[c] = EndAt(n, j, b) BY <1>1, <1>3
<1>6. j # 0 => n.entries[j].key < k BY <1>1, <1>5 DEF KeyAt
<1>7. j # m => k < n.entries[j + 1].key
  <2> SUFFICES ASSUME j # m PROVE k < n.entries[j + 1].key OBVIOUS
  <2>1. j + 1 \in Slots(n) /\ j + 1 # 0 BY <1>2
  <2>2. EndAt(n, j, b) = n.entries[j + 1].key /\ n.entries[j + 1].key # 0 BY <1>3, <2>1 DEF EndAt
  <2> QED BY <1>1, <1>5, <2>2
<1>a. Added(r, n, k, c, j)
  <2> HIDE DEF k, c, l
  <2> QED BY <1>1, <1>6, <1>7, AddEntryIs
<1> HIDE DEF k, c, m, r, l
<1>8. ASSUME NEW i \in 0..(m + 1)
      PROVE  /\ r \in Routers /\ Len(r.entries) = m + 1 /\ Slots(r) = 0..(m + 1)
             /\ Child(r, i) = IF i <= j THEN Child(n, i) ELSE IF i = j + 1 THEN c ELSE Child(n, i - 1)
             /\ KeyAt(r, i, a) = IF i <= j THEN KeyAt(n, i, a) ELSE IF i = j + 1 THEN k ELSE KeyAt(n, i - 1, a)
             /\ EndAt(r, i, b) = IF i < j THEN EndAt(n, i, b) ELSE IF i = j THEN k ELSE EndAt(n, i - 1, b)
  BY <1>a, AddSlots DEF m
<1>9. ASSUME NEW i \in 0..(m + 1)
      PROVE  /\ Child(r, i) \in g.L /\ g.level[Child(r, i)] + 1 = l
             /\ g.lo[Child(r, i)] = KeyAt(r, i, a) /\ g.hi[Child(r, i)] = EndAt(r, i, b)
             /\ i # 0 => r.entries[i].key # 0
  <2>0. j \in 0..m BY <1>2
  <2>k. i # 0 => r.entries[i].key = KeyAt(r, i, a) BY DEF KeyAt
  <2>1. CASE i < j
    <3>1. i \in Slots(n) /\ i <= j /\ i # j BY <1>2, <2>0, <2>1
    <3>2. i # 0 => n.entries[i].key = KeyAt(n, i, a) BY DEF KeyAt
    <3> QED BY <1>3, <1>4, <1>8, <2>k, <2>1, <3>1, <3>2
  <2>2. CASE i = j
    <3>1. i \in Slots(n) /\ i <= j /\ ~(i < j) BY <1>2, <2>0, <2>2
    <3>2. i # 0 => n.entries[i].key = KeyAt(n, i, a) BY DEF KeyAt
    <3> QED BY <1>1, <1>3, <1>8, <2>k, <2>2, <3>1, <3>2
  <2>3. CASE i = j + 1
    <3>1. ~(i <= j) /\ ~(i < j) /\ i # j /\ i - 1 = j BY <2>0, <2>3
    <3>2. Child(r, i) = c /\ KeyAt(r, i, a) = k /\ EndAt(r, i, b) = EndAt(n, j, b) BY <1>8, <2>3, <3>1
    <3>3. g.lo[c] = k /\ g.level[c] + 1 = l BY <1>1 DEF l, k, c
    <3> QED BY <1>1, <1>5, <2>k, <3>2, <3>3
  <2>4. CASE i > j + 1
    <3>1. ~(i <= j) /\ ~(i < j) /\ i # j /\ i # j + 1 /\ i - 1 \in Slots(n) /\ i - 1 # j /\ i - 1 # 0
      BY <1>2, <2>0, <2>4
    <3>2. n.entries[i - 1].key = KeyAt(n, i - 1, a) BY <3>1 DEF KeyAt
    <3> QED BY <1>3, <1>4, <1>8, <2>k, <3>1, <3>2
  <2> QED BY <1>2, <2>0, <2>1, <2>2, <2>3, <2>4
<1>10. 0 \in 0..(m + 1) BY <1>2
<1>11. r \in Routers /\ Len(r.entries) = m + 1 /\ Slots(r) = 0..(m + 1) BY <1>8, <1>10
<1>12. Good(r, g, l, a, b, g.hi) BY <1>9, <1>11 DEF Good
<1> QED BY <1>11, <1>12 DEF r, m, l, k, c

(* Those that are not over the split page are good by the true bounds as they are. *)
LEMMA PlainGood ==
  ASSUME NEW ns, NEW root, NEW g, Shape(ns, root, g), NEW n, NEW l, NEW a, NEW b,
         Good(n, g, l, a, b, Known(g)), \A j \in Slots(n) : Child(n, j) # g.left
  PROVE  Good(n, g, l, a, b, g.hi)
<1>1. Typed(ns, g) BY DEF Shape
<1>2. \A c \in g.L : c # g.left => Known(g)[c] = g.hi[c] BY <1>1, TypesOf
<1> QED BY <1>2 DEF Good

(* The j-th child of p is the one that was split. *)
OverSplit(ns, g, p, j) ==
  g.left # 0 /\ p \in g.L /\ g.level[p] > 0 /\ j \in Slots(ns[p]) /\ Child(ns[p], j) = g.left

OnlyOver(ns, g, p, j) ==
  /\ \A q \in g.L : g.level[q] > 0 /\ q # p => \A i \in Slots(ns[q]) : Child(ns[q], i) # g.left
  /\ \A i \in Slots(ns[p]) : Child(ns[p], i) = g.left => i = j

(* Only one router is over the split page, and then the root is not it. *)
LEMMA NotLeft ==
  ASSUME NEW ns, NEW root, NEW g, Shape(ns, root, g), NEW p, NEW j, OverSplit(ns, g, p, j)
  PROVE  /\ OnlyOver(ns, g, p, j)
         /\ root # g.left /\ g.level[g.left] + 1 = g.level[p] /\ Known(g)[root] = g.hi[root] /\ g.hi[root] = 0
<1> USE DEF OverSplit
<1>1. Typed(ns, g) /\ Rooted(root, g) BY DEF Shape
<1>2. g.level[g.left] + 1 = g.level[p]
  <2>1. Good(ns[p], g, g.level[p], g.lo[p], g.hi[p], Known(g)) BY BoundsGrow
  <2> QED BY <2>1 DEF Good
<1>3. root \in g.L /\ g.level[p] <= g.level[root] /\ Known(g)[root] = 0 BY <1>1 DEF Rooted
<1>4. /\ g.level[p] \in Nat /\ g.level[root] \in Nat
      /\ Known(g)[root] = (IF root = g.left THEN g.hi[g.right] ELSE g.hi[root])
  BY <1>1, <1>3, TypesOf
<1>5. root # g.left
  <2>1. g.left \in Nat BY HalvesAre
  <2>2. g.level[g.left] \in Nat BY <1>1, <2>1, TypesOf
  <2> QED BY <1>2, <1>3, <1>4, <2>2
<1>6. ASSUME NEW q \in g.L, g.level[q] > 0, NEW i \in Slots(ns[q]), Child(ns[q], i) = g.left
      PROVE  q = p /\ i = j
  <2>1. Child(ns[q], i) = Child(ns[p], j) BY <1>6
  <2> QED BY <1>6, <2>1, OneParent
<1>7. OnlyOver(ns, g, p, j) BY <1>6 DEF OnlyOver
<1> QED BY <1>2, <1>3, <1>4, <1>5, <1>7

(* A router with room takes the right half, and no split is pending any more. *)
LEMMA AddKeeps ==
  ASSUME BTreeAssumption, NEW ns, NEW root, NEW g, Shape(ns, root, g),
         NEW p, NEW j, OverSplit(ns, g, p, j), Len(ns[p].entries) < MaxInternalKeys
  PROVE  Shape([ns EXCEPT ![p] = AddEntry(ns[p], g.lo[g.right], g.right)], root,
               [L |-> g.L, level |-> g.level, lo |-> g.lo, hi |-> g.hi, pos |-> g.pos,
                left |-> 0, right |-> 0])
<1> DEFINE n == ns[p]
           r == AddEntry(n, g.lo[g.right], g.right)
           ns2 == [ns EXCEPT ![p] = r]
           g2 == [L |-> g.L, level |-> g.level, lo |-> g.lo, hi |-> g.hi, pos |-> g.pos,
                  left |-> 0, right |-> 0]
<1>1. /\ Typed(ns, g) /\ Rooted(root, g) /\ Apart(g) /\ Routed(ns, g) /\ Chained(ns, g) BY DEF Shape
<1>o. g.left # 0 /\ p \in g.L /\ g.level[p] > 0 /\ j \in Slots(ns[p]) /\ Child(ns[p], j) = g.left
  BY DEF OverSplit
<1>2. /\ p \in DOMAIN ns /\ DOMAIN ns \subseteq Nat /\ ns \in Seq(Nodes) /\ g \in Ghosts
      /\ g.L \subseteq Nat /\ 0 \notin g.L
  BY <1>1, <1>o, TypesOf DEF Typed
<1>3. n \in Routers /\ Ascending(n) /\ Good(n, g, g.level[p], g.lo[p], g.hi[p], Known(g)) BY <1>o, BoundsGrow, Ascends
<1>4. /\ \A q \in g.L : g.level[q] > 0 /\ q # p => \A i \in Slots(ns[q]) : Child(ns[q], i) # g.left
      /\ \A i \in Slots(n) : Child(n, i) = g.left => i = j
      /\ g.level[g.left] + 1 = g.level[p] /\ g.hi[root] = 0
  <2> HIDE DEF r, ns2, g2
  <2>1. OnlyOver(ns, g, p, j) /\ g.level[g.left] + 1 = g.level[p] /\ g.hi[root] = 0 BY NotLeft
  <2> QED BY <2>1 DEF OnlyOver, n
<1>5. r \in Routers /\ Len(r.entries) = Len(n.entries) + 1 /\ Good(r, g, g.level[p], g.lo[p], g.hi[p], g.hi)
  <2>1. Good(n, g, g.level[g.left] + 1, g.lo[p], g.hi[p], Known(g)) BY <1>3, <1>4
  <2>2. j \in Slots(n) /\ Child(n, j) = g.left BY <1>o
  <2> HIDE DEF n
  <2>3. /\ r \in Routers /\ Len(r.entries) = Len(n.entries) + 1
        /\ Good(r, g, g.level[g.left] + 1, g.lo[p], g.hi[p], g.hi)
    BY <1>3, <1>4, <1>o, <2>1, <2>2, AddGood
  <2> QED BY <1>4, <2>3
<1>6. Len(r.entries) <= MaxInternalKeys /\ r \in Nodes /\ ~IsLeaf(r)
  <2>1. Len(n.entries) \in Nat BY <1>3, RouterHas
  <2>2. Len(r.entries) <= MaxInternalKeys BY <1>5, <2>1, BTreeAssumption DEF BTreeAssumption
  <2>3. ~IsLeaf(r) BY <1>5, RouterHas
  <2> QED BY <1>5, <2>2, <2>3 DEF Nodes
<1> HIDE DEF r
<1>7. /\ ns2 \in Seq(Nodes) /\ DOMAIN ns2 = DOMAIN ns
      /\ \A q \in DOMAIN ns : ns2[q] = IF q = p THEN r ELSE ns[q]
  BY <1>2, <1>6, PutPage
<1>8. /\ g2.L = g.L /\ g2.level = g.level /\ g2.lo = g.lo /\ g2.hi = g.hi /\ g2.pos = g.pos
      /\ g2.left = 0 /\ g2.right = 0 /\ g2 \in Ghosts
  BY <1>2 DEF Ghosts
<1> HIDE DEF ns2, g2
<1>9. Known(g2) = g.hi
  <2>1. Known(g2) = [x \in Nat |-> g.hi[x]] BY <1>8 DEF Known
  <2> QED BY <1>2, <2>1 DEF Ghosts
<1>10. Typed(ns2, g2)
  <2>1. g.L \subseteq DOMAIN ns BY <1>1 DEF Typed
  <2>2. ASSUME NEW q \in DOMAIN ns
        PROVE  /\ IsLeaf(ns2[q]) <=> g.level[q] = 0
               /\ g.level[q] > 0 => q \in g.L /\ Len(ns2[q].entries) <= MaxInternalKeys
    <3>1. g.level[p] # 0 /\ p \in g.L BY <1>2, <1>1, <1>o, TypesOf
    <3> QED BY <1>1, <1>6, <1>7, <3>1 DEF Typed
  <2> QED BY <1>7, <1>8, <2>1, <2>2 DEF Typed
<1>11. Rooted(root, g2) BY <1>1, <1>4, <1>8, <1>9 DEF Rooted
<1>12. Apart(g2) BY <1>1, <1>8 DEF Apart, Before
<1>13. Routed(ns2, g2)
  <2> SUFFICES ASSUME NEW q \in g.L, g.level[q] > 0
               PROVE  Good(ns2[q], g2, g.level[q], g.lo[q], g.hi[q], g.hi)
    BY <1>8, <1>9 DEF Routed
  <2>0. q \in DOMAIN ns BY <1>1 DEF Typed
  <2>1. CASE q = p BY <1>5, <1>7, <1>8, <2>0, <2>1 DEF Good
  <2>2. CASE q # p
    <3>1. Good(ns[q], g, g.level[q], g.lo[q], g.hi[q], Known(g)) BY <1>1 DEF Routed
    <3>2. \A i \in Slots(ns[q]) : Child(ns[q], i) # g.left BY <1>4, <2>2
    <3>3. Good(ns[q], g, g.level[q], g.lo[q], g.hi[q], g.hi) BY <3>1, <3>2, PlainGood
    <3> QED BY <1>7, <1>8, <2>0, <2>2, <3>3 DEF Good
  <2> QED BY <2>1, <2>2
<1>14. Chained(ns2, g2)
  <2>1. \A q \in DOMAIN ns : g.level[q] = 0 => ns2[q] = ns[q]
    <3>1. g.level[p] # 0 BY <1>2, <1>1, <1>o, TypesOf
    <3> QED BY <1>7, <3>1
  <2>2. g.L \subseteq DOMAIN ns BY <1>1 DEF Typed
  <2> QED BY <1>1, <1>7, <1>8, <2>1, <2>2 DEF Chained
<1>15. Halved(g2) BY <1>8 DEF Halved
<1>16. Shape(ns2, root, g2) BY <1>10, <1>11, <1>12, <1>13, <1>14, <1>15 DEF Shape
<1> QED BY <1>16 DEF ns2, g2, r

-----------------------------------------------------------------------------
(* A page p is cut in two at the key k; the new page is q. *)

Cut(g, p, q, k) ==
  [L |-> g.L \cup {q}, level |-> [g.level EXCEPT ![q] = g.level[p]],
   lo |-> [g.lo EXCEPT ![q] = k], hi |-> [g.hi EXCEPT ![p] = k, ![q] = g.hi[p]],
   pos |-> [x \in Nat |-> IF x = q THEN 2 * g.pos[p] ELSE 2 * g.pos[x] + 1],
   left |-> p, right |-> q]

(* What is kept when a page is cut. *)
LEMMA CutIs ==
  ASSUME NEW ns, NEW root, NEW g, Shape(ns, root, g), NEW p \in g.L,
         NEW q \in Nat, q \notin DOMAIN ns, q # 0, NEW k \in Nat
  PROVE  LET g2 == Cut(g, p, q, k)
         IN  /\ g2 \in Ghosts /\ g2.L = g.L \cup {q} /\ g2.left = p /\ g2.right = q /\ p # q
             /\ \A x \in Nat : g2.level[x] = IF x = q THEN g.level[p] ELSE g.level[x]
             /\ \A x \in Nat : g2.lo[x] = IF x = q THEN k ELSE g.lo[x]
             /\ \A x \in Nat : g2.hi[x] = IF x = q THEN g.hi[p] ELSE IF x = p THEN k ELSE g.hi[x]
             /\ \A x \in Nat : g2.pos[x] = IF x = q THEN 2 * g.pos[p] ELSE 2 * g.pos[x] + 1
             /\ \A x \in Nat : Known(g2)[x] = IF x = q THEN g.hi[p] ELSE g.hi[x]
             /\ \A x \in g.L : x \in Nat /\ x # q /\ x \in DOMAIN ns
<1> DEFINE g2 == Cut(g, p, q, k)
<1>1. Typed(ns, g) BY DEF Shape
<1>2. /\ g \in Ghosts /\ g.L \subseteq DOMAIN ns /\ g.L \subseteq Nat /\ p \in Nat
      /\ \A x \in Nat : g.level[x] \in Nat /\ g.lo[x] \in Nat /\ g.hi[x] \in Nat /\ g.pos[x] \in Nat
  <2>1. g \in Ghosts /\ g.L \subseteq DOMAIN ns BY <1>1 DEF Typed
  <2>2. g.L \subseteq Nat
        /\ \A x \in Nat : g.level[x] \in Nat /\ g.lo[x] \in Nat /\ g.hi[x] \in Nat /\ g.pos[x] \in Nat
    BY <1>1, TypesOf
  <2> QED BY <2>1, <2>2
<1>3. /\ g.level \in [Nat -> Nat] /\ g.lo \in [Nat -> Nat] /\ g.hi \in [Nat -> Nat]
      /\ g.L \in SUBSET Nat
  BY <1>2 DEF Ghosts
<1>4. p # q BY <1>2
<1>5. /\ [g.level EXCEPT ![q] = g.level[p]] \in [Nat -> Nat]
      /\ [g.lo EXCEPT ![q] = k] \in [Nat -> Nat]
      /\ [g.hi EXCEPT ![p] = k, ![q] = g.hi[p]] \in [Nat -> Nat]
      /\ g.L \cup {q} \in SUBSET Nat
  BY <1>2, <1>3
<1>6. [x \in Nat |-> IF x = q THEN 2 * g.pos[p] ELSE 2 * g.pos[x] + 1] \in [Nat -> Nat] BY <1>2
<1>7. g2 \in Ghosts BY <1>2, <1>5, <1>6 DEF Ghosts, Cut
<1>8. /\ g2.L = g.L \cup {q} /\ g2.left = p /\ g2.right = q
      /\ g2.level = [g.level EXCEPT ![q] = g.level[p]] /\ g2.lo = [g.lo EXCEPT ![q] = k]
      /\ g2.hi = [g.hi EXCEPT ![p] = k, ![q] = g.hi[p]]
      /\ g2.pos = [x \in Nat |-> IF x = q THEN 2 * g.pos[p] ELSE 2 * g.pos[x] + 1]
  BY DEF Cut
<1> HIDE DEF g2
<1>9. /\ \A x \in Nat : g2.level[x] = IF x = q THEN g.level[p] ELSE g.level[x]
      /\ \A x \in Nat : g2.lo[x] = IF x = q THEN k ELSE g.lo[x]
  BY <1>3, <1>8
<1>10. \A x \in Nat : g2.hi[x] = IF x = q THEN g.hi[p] ELSE IF x = p THEN k ELSE g.hi[x]
  BY <1>2, <1>3, <1>4, <1>8
<1>11. \A x \in Nat : g2.pos[x] = IF x = q THEN 2 * g.pos[p] ELSE 2 * g.pos[x] + 1 BY <1>8
<1>12. \A x \in Nat : Known(g2)[x] = IF x = q THEN g.hi[p] ELSE g.hi[x]
  <2>1. \A x \in Nat : Known(g2)[x] = IF x = p THEN g2.hi[q] ELSE g2.hi[x] BY <1>8 DEF Known
  <2> QED BY <1>2, <1>4, <1>10, <2>1
<1>13. \A x \in g.L : x \in Nat /\ x # q /\ x \in DOMAIN ns BY <1>2
<1> QED BY <1>4, <1>7, <1>8, <1>9, <1>10, <1>11, <1>12, <1>13 DEF g2

(* A cut leaves the intervals of a level apart, and every router good by what it
   knows. *)
LEMMA CutKeeps ==
  ASSUME NEW ns, NEW root, NEW g, Shape(ns, root, g), NEW p \in g.L,
         NEW q \in Nat, q \notin DOMAIN ns, q # 0, NEW k \in Nat,
         g.lo[p] < k, g.hi[p] = 0 \/ k < g.hi[p], g.hi[root] = 0
  PROVE  LET g2 == Cut(g, p, q, k)
         IN  /\ Rooted(root, g2) /\ Apart(g2) /\ Halved(g2)
             /\ \A n, h, a, b : Good(n, g, h, a, b, g.hi) => Good(n, g2, h, a, b, Known(g2))
<1> DEFINE g2 == Cut(g, p, q, k)
           l == g.level[p]
<1>1. /\ Typed(ns, g) /\ Rooted(root, g) /\ Apart(g) BY DEF Shape
<1>2. /\ p \in Nat /\ \A x \in Nat : g.level[x] \in Nat /\ g.lo[x] \in Nat /\ g.hi[x] \in Nat /\ g.pos[x] \in Nat
  BY <1>1, TypesOf
<1>8. /\ g2.L = g.L \cup {q} /\ g2.left = p /\ g2.right = q /\ p # q
      /\ \A x \in Nat : g2.level[x] = IF x = q THEN l ELSE g.level[x]
      /\ \A x \in Nat : g2.lo[x] = IF x = q THEN k ELSE g.lo[x]
      /\ \A x \in Nat : g2.hi[x] = IF x = q THEN g.hi[p] ELSE IF x = p THEN k ELSE g.hi[x]
      /\ \A x \in Nat : Known(g2)[x] = IF x = q THEN g.hi[p] ELSE g.hi[x]
      /\ \A x \in g.L : x \in Nat /\ x # q
  BY CutIs
<1>3. k # 0 BY <1>2
<1> HIDE DEF g2, l
<1>13. Rooted(root, g2)
  <2>1. root \in g.L /\ g.lo[root] = 0 /\ \A x \in g.L : g.level[x] <= g.level[root] BY <1>1 DEF Rooted
  <2>2. Known(g2)[root] = 0 BY <1>8, <2>1
  <2>3. ASSUME NEW x \in g2.L PROVE g2.level[x] <= g2.level[root] BY <1>8, <2>1 DEF l
  <2> QED BY <1>8, <2>1, <2>2, <2>3 DEF Rooted
<1>14. Apart(g2)
  <2>1. ASSUME NEW x \in g2.L PROVE g2.hi[x] = 0 \/ g2.lo[x] < g2.hi[x]
    <3>1. x = q \/ (x \in g.L /\ x # q /\ x \in Nat) BY <1>8, <1>8
    <3>2. x # q => (g.hi[x] = 0 \/ g.lo[x] < g.hi[x]) BY <1>1, <3>1 DEF Apart
    <3> QED BY <1>3, <1>8, <3>1, <3>2
  <2>2. ASSUME NEW x \in g.L, NEW y \in g.L, g.level[x] = g.level[y], x # y, Before(g, x, y)
        PROVE  Before(g2, x, y)
    <3>1. CASE x = p
      <4>1. g.hi[p] # 0 /\ g.hi[p] <= g.lo[y] BY <2>2, <3>1 DEF Before
      <4>2. g2.hi[p] = k /\ g2.lo[y] = g.lo[y] /\ g.lo[y] \in Nat BY <1>2, <1>8
      <4> QED BY <1>2, <1>3, <3>1, <4>1, <4>2 DEF Before
    <3>2. CASE x # p BY <1>8, <1>8, <2>2, <3>2 DEF Before
    <3> QED BY <3>1, <3>2
  <2>3. ASSUME NEW x \in g.L, g.level[x] = l PROVE Before(g2, x, q) \/ Before(g2, q, x)
    <3>1. CASE x = p BY <1>2, <1>3, <1>8, <3>1 DEF Before
    <3>2. CASE x # p /\ Before(g, x, p)
      <4>1. g.hi[x] # 0 /\ g.hi[x] <= g.lo[p] /\ g.hi[x] \in Nat /\ g.lo[p] \in Nat
        BY <1>2, <1>8, <3>2 DEF Before
      <4>2. g2.hi[x] = g.hi[x] /\ g2.lo[q] = k BY <1>8, <3>2
      <4> QED BY <1>3, <4>1, <4>2 DEF Before
    <3>3. CASE x # p /\ Before(g, p, x)
      <4>1. g2.hi[q] = g.hi[p] /\ g2.lo[x] = g.lo[x] BY <1>8
      <4> QED BY <3>3, <4>1 DEF Before
    <3>4. x = p \/ Before(g, x, p) \/ Before(g, p, x) BY <1>1, <2>3 DEF Apart, l
    <3> QED BY <3>1, <3>2, <3>3, <3>4
  <2>4. ASSUME NEW x \in g2.L, NEW y \in g2.L, g2.level[x] = g2.level[y], x # y
        PROVE  Before(g2, x, y) \/ Before(g2, y, x)
    <3>1. CASE x = q
      <4>1. y \in g.L /\ g.level[y] = l BY <1>8, <2>4, <3>1
      <4> QED BY <2>3, <3>1, <4>1
    <3>2. CASE y = q
      <4>1. x \in g.L /\ g.level[x] = l BY <1>8, <2>4, <3>2
      <4> QED BY <2>3, <3>2, <4>1
    <3>3. CASE x # q /\ y # q
      <4>1. x \in g.L /\ y \in g.L /\ g.level[x] = g.level[y] BY <1>8, <1>8, <2>4, <3>3
      <4>2. Before(g, x, y) \/ Before(g, y, x) BY <1>1, <2>4, <4>1 DEF Apart
      <4> QED BY <2>2, <2>4, <4>1, <4>2
    <3> QED BY <3>1, <3>2, <3>3
  <2> QED BY <2>1, <2>4 DEF Apart
<1>15. ASSUME NEW n, NEW h, NEW a, NEW b, Good(n, g, h, a, b, g.hi)
       PROVE  Good(n, g2, h, a, b, Known(g2))
  <2>1. \A c \in g.L : c \in g2.L /\ g2.level[c] = g.level[c] /\ g2.lo[c] = g.lo[c] /\ Known(g2)[c] = g.hi[c]
    BY <1>8, <1>8
  <2> QED BY <1>15, <2>1 DEF Good
<1>18. Halved(g2)
  <2>1. g2.hi[p] = k /\ g2.lo[q] = k /\ g2.level[p] = g2.level[q] BY <1>2, <1>8 DEF l
  <2>2. p # 0
    <3>1. p \in DOMAIN ns /\ 0 \notin DOMAIN ns BY <1>1, TypesOf DEF Typed
    <3> QED BY <3>1
  <2> QED BY <1>3, <1>8, <2>1, <2>2 DEF Halved
<1>19. \A n, h, a, b : Good(n, g, h, a, b, g.hi) => Good(n, g2, h, a, b, Known(g2)) BY <1>15
<1> QED BY <1>13, <1>14, <1>18, <1>19 DEF g2


(* A full router is split and one of its halves takes the right half of its child. *)

(* The lower half of a good router is good up to the promoted key. *)
LEMMA LowerGood ==
  ASSUME NEW n \in Routers, Ascending(n), NEW h \in Nat, h < Len(n.entries),
         NEW g, NEW l, NEW a, NEW b, NEW end, Good(n, g, l, a, b, end)
  PROVE  LET r == [n EXCEPT !.entries = SubSeq(@, 1, h)]
         IN  /\ r \in Routers /\ Len(r.entries) = h /\ Slots(r) = 0..h /\ Ascending(r)
             /\ \A i \in 0..h : i \in Slots(n) /\ Child(r, i) = Child(n, i)
             /\ Good(r, g, l, a, n.entries[h + 1].key, end)
<1> DEFINE r == [n EXCEPT !.entries = SubSeq(@, 1, h)]
<1>r. r = [n EXCEPT !.entries = SubSeq(@, 1, h)] OBVIOUS
<1> HIDE DEF r
<1>1. ASSUME NEW i \in 0..h
      PROVE  /\ r \in Routers /\ Len(r.entries) = h /\ Slots(r) = 0..h /\ i \in Slots(n)
             /\ Child(r, i) = Child(n, i) /\ KeyAt(r, i, a) = KeyAt(n, i, a)
             /\ EndAt(r, i, n.entries[h + 1].key) = EndAt(n, i, b)
             /\ \A x \in 1..h : r.entries[x] = n.entries[x]
  <2>1. LowerPart(r, n, h, i, a, b) BY <1>r, LowerSlots
  <2> QED BY <2>1 DEF LowerPart
<1>2. 0 \in 0..h OBVIOUS
<1>3. r \in Routers /\ Len(r.entries) = h /\ Slots(r) = 0..h /\ \A x \in 1..h : r.entries[x] = n.entries[x]
  BY <1>1, <1>2
<1>4. Len(n.entries) \in Nat BY RouterHas
<1>5. Ascending(r)
  <2>1. \A x \in 1..h : x \in 1..Len(n.entries) BY <1>4
  <2> QED BY <1>3, <2>1 DEF Ascending
<1>6. Good(r, g, l, a, n.entries[h + 1].key, end)
  <2> SUFFICES ASSUME NEW i \in 0..h
               PROVE  /\ Child(r, i) \in g.L /\ g.level[Child(r, i)] + 1 = l
                      /\ g.lo[Child(r, i)] = KeyAt(r, i, a)
                      /\ end[Child(r, i)] = EndAt(r, i, n.entries[h + 1].key)
                      /\ i # 0 => r.entries[i].key # 0
    BY <1>3 DEF Good
  <2>1. i # 0 => i \in 1..h OBVIOUS
  <2> QED BY <1>1, <1>3, <2>1 DEF Good
<1> QED BY <1>1, <1>3, <1>5, <1>6 DEF r

(* The upper half is good from the promoted key on. *)
LEMMA UpperGood ==
  ASSUME NEW n \in Routers, Ascending(n), NEW h \in Nat, h < Len(n.entries),
         NEW g, NEW l, NEW a, NEW b, NEW end, Good(n, g, l, a, b, end)
  PROVE  LET r == Router(n.entries[h + 1].child, SubSeq(n.entries, h + 2, Len(n.entries)))
         IN  /\ r \in Routers /\ Len(r.entries) = Len(n.entries) - (h + 1) /\ Ascending(r)
             /\ Slots(r) = 0..(Len(n.entries) - (h + 1))
             /\ \A i \in 0..(Len(n.entries) - (h + 1)) :
                  i + h + 1 \in Slots(n) /\ Child(r, i) = Child(n, i + h + 1)
             /\ Good(r, g, l, n.entries[h + 1].key, b, end)
<1> DEFINE r == Router(n.entries[h + 1].child, SubSeq(n.entries, h + 2, Len(n.entries)))
           m == Len(n.entries) - (h + 1)
<1>r. r = Router(n.entries[h + 1].child, SubSeq(n.entries, h + 2, Len(n.entries))) OBVIOUS
<1> HIDE DEF r
<1>1. ASSUME NEW i \in 0..m
      PROVE  /\ r \in Routers /\ Len(r.entries) = m /\ Slots(r) = 0..m /\ i + h + 1 \in Slots(n)
             /\ Child(r, i) = Child(n, i + h + 1)
             /\ KeyAt(r, i, n.entries[h + 1].key) = KeyAt(n, i + h + 1, a)
             /\ EndAt(r, i, b) = EndAt(n, i + h + 1, b)
             /\ \A x \in 1..m : r.entries[x] = n.entries[x + h + 1]
  <2>1. UpperPart(r, n, h, i, a, b) BY <1>r, UpperSlots
  <2> QED BY <2>1 DEF UpperPart
<1>4. Len(n.entries) \in Nat BY RouterHas
<1>2. 0 \in 0..m BY <1>4
<1>m. m \in Nat /\ m + h + 1 = Len(n.entries) BY <1>4
<1> HIDE DEF m
<1>3. r \in Routers /\ Len(r.entries) = m /\ Slots(r) = 0..m /\ \A x \in 1..m : r.entries[x] = n.entries[x + h + 1]
  BY <1>1, <1>2
<1>5. Ascending(r)
  <2>1. \A x \in 1..m : x + h + 1 \in 1..Len(n.entries) BY <1>4, <1>m
  <2>2. \A x, y \in 1..m : x < y => x + h + 1 < y + h + 1 BY <1>m
  <2> QED BY <1>3, <2>1, <2>2 DEF Ascending
<1>6. Good(r, g, l, n.entries[h + 1].key, b, end)
  <2> SUFFICES ASSUME NEW i \in 0..m
               PROVE  /\ Child(r, i) \in g.L /\ g.level[Child(r, i)] + 1 = l
                      /\ g.lo[Child(r, i)] = KeyAt(r, i, n.entries[h + 1].key)
                      /\ end[Child(r, i)] = EndAt(r, i, b)
                      /\ i # 0 => r.entries[i].key # 0
    BY <1>3 DEF Good
  <2>1. i # 0 => i \in 1..m BY <1>m
  <2>2. i + h + 1 # 0 BY <1>m
  <2> QED BY <1>1, <1>3, <2>1, <2>2 DEF Good
<1> QED BY <1>1, <1>3, <1>5, <1>6 DEF r, m

(* What becomes of parent in InsertIntoParent, and the new page beside it. *)
Halves(n, k, c) ==
  LET mid == MaxInternalKeys \div 2
      promoted == n.entries[mid + 1]
      lower == [n EXCEPT !.entries = SubSeq(@, 1, mid)]
      upper == Router(promoted.child, SubSeq(n.entries, mid + 2, MaxInternalKeys))
      inLower == k < promoted.key
  IN  [lower |-> IF inLower THEN AddEntry(lower, k, c) ELSE lower,
       upper |-> IF inLower THEN upper ELSE AddEntry(upper, k, c), key |-> promoted.key]

(* Both halves are good with the new child in one of them: the middle of
   InsertIntoParent. *)
LEMMA HalvesGood ==
  ASSUME BTreeAssumption, NEW ns, NEW root, NEW g, Shape(ns, root, g),
         NEW p, NEW j, OverSplit(ns, g, p, j), Len(ns[p].entries) = MaxInternalKeys
  PROVE  LET two == Halves(ns[p], g.lo[g.right], g.right)
         IN  /\ two.lower \in Routers /\ Len(two.lower.entries) <= MaxInternalKeys
             /\ two.upper \in Routers /\ Len(two.upper.entries) <= MaxInternalKeys
             /\ two.key \in Nat /\ two.key # 0 /\ g.lo[p] < two.key /\ (g.hi[p] = 0 \/ two.key < g.hi[p])
             /\ Good(two.lower, g, g.level[p], g.lo[p], two.key, g.hi)
             /\ Good(two.upper, g, g.level[p], two.key, g.hi[p], g.hi)
<1> DEFINE n == ns[p]
           m == MaxInternalKeys
           mid == MaxInternalKeys \div 2
           pk == n.entries[mid + 1].key
           lower == [n EXCEPT !.entries = SubSeq(@, 1, mid)]
           upper == Router(n.entries[mid + 1].child, SubSeq(n.entries, mid + 2, Len(n.entries)))
           k == g.lo[g.right]
           c == g.right
           l == g.level[p]
           a == g.lo[p]
           b == g.hi[p]
<1>o. g.left # 0 /\ p \in g.L /\ g.level[p] > 0 /\ j \in Slots(n) /\ Child(n, j) = g.left /\ Len(n.entries) = m
  BY DEF OverSplit
<1>m. m \in Nat /\ mid \in Nat /\ mid < m /\ 1 <= mid BY BTreeAssumption DEF BTreeAssumption
<1>1. n \in Routers /\ Ascending(n) /\ Good(n, g, l, a, b, Known(g)) BY <1>o, BoundsGrow, Ascends
<1>2. (\A i \in Slots(n) : Child(n, i) = g.left => i = j) /\ g.level[g.left] + 1 = l
  <2>1. OnlyOver(ns, g, p, j) /\ g.level[g.left] + 1 = g.level[p] BY NotLeft
  <2> QED BY <2>1 DEF OnlyOver
<1>3. /\ g.hi[g.left] = k /\ g.lo[g.left] < k /\ k \in Nat /\ g.lo[g.left] \in Nat
      /\ g.hi[c] = 0 \/ k < g.hi[c]
      /\ Known(g)[g.left] = g.hi[c]
  BY <1>o, HalvesAre
<1>4. /\ lower \in Routers /\ Len(lower.entries) = mid /\ Slots(lower) = 0..mid /\ Ascending(lower)
      /\ \A i \in 0..mid : i \in Slots(n) /\ Child(lower, i) = Child(n, i)
      /\ Good(lower, g, l, a, pk, Known(g))
  <2> HIDE DEF n, mid, l, a, b
  <2>1. mid < Len(n.entries) BY <1>m, <1>o
  <2> QED BY <1>1, <1>m, <2>1, LowerGood
<1>5. /\ upper \in Routers /\ Len(upper.entries) = m - (mid + 1) /\ Ascending(upper)
      /\ Slots(upper) = 0..(m - (mid + 1))
      /\ \A i \in 0..(m - (mid + 1)) : i + mid + 1 \in Slots(n) /\ Child(upper, i) = Child(n, i + mid + 1)
      /\ Good(upper, g, l, pk, b, Known(g))
  <2> HIDE DEF n, mid, l, a, b
  <2>1. mid < Len(n.entries) BY <1>m, <1>o
  <2> QED BY SMTT(30), ZenonT(20), <1>1, <1>m, <1>o, <2>1, UpperGood
<1>6. /\ mid + 1 \in Slots(n) /\ KeyAt(n, mid + 1, a) = pk /\ pk \in Nat /\ pk # 0 /\ a < pk
      /\ b = 0 \/ pk < b
  <2>1. mid + 1 \in Slots(n) /\ 0 \in Slots(n) /\ 0 < mid + 1 /\ mid + 1 # 0 BY <1>m, <1>o DEF Slots
  <2>2. KeyAt(n, mid + 1, a) = pk /\ KeyAt(n, 0, a) = a BY <2>1 DEF KeyAt
  <2>3. pk # 0 BY <1>1, <2>1 DEF Good
  <2>4. KeyAt(n, mid + 1, a) \in Nat /\ KeyAt(n, 0, a) < KeyAt(n, mid + 1, a) BY <1>o, <2>1, BoundsGrow
  <2>5. b = 0 \/ KeyAt(n, mid + 1, a) < b BY <1>o, <2>1, SlotWithin
  <2> QED BY <2>1, <2>2, <2>3, <2>4, <2>5
<1>7. Halves(n, k, c) = [lower |-> IF k < pk THEN AddEntry(lower, k, c) ELSE lower,
                         upper |-> IF k < pk THEN upper ELSE AddEntry(upper, k, c), key |-> pk]
  BY <1>o DEF Halves
<1>8. g.lo[g.left] = KeyAt(n, j, a) /\ g.hi[c] = EndAt(n, j, b) BY <1>1, <1>3, <1>o DEF Good
<1>9. Len(n.entries) = m /\ j \in 0..m BY <1>o DEF Slots
<1>b. /\ \A x \in Slots(n) : KeyAt(n, x, a) \in Nat /\ EndAt(n, x, b) \in Nat
      /\ \A x, y \in Slots(n) : x < y =>
           /\ KeyAt(n, x, a) < KeyAt(n, y, a)
           /\ EndAt(n, x, b) # 0 /\ EndAt(n, x, b) <= KeyAt(n, y, a)
  BY <1>o, BoundsGrow
<1> HIDE DEF lower, upper, n, m, mid, pk, k, c, a, b, l
<1>10. CASE k < pk
  <2>1. j <= mid
    <3> SUFFICES ASSUME mid + 1 <= j PROVE FALSE BY <1>m, <1>9
    <3>1. mid + 1 = j \/ mid + 1 < j BY <1>m, <1>9
    <3>2. mid + 1 < j => KeyAt(n, mid + 1, a) < KeyAt(n, j, a) BY <1>b, <1>6, <1>o
    <3>3. pk <= g.lo[g.left] BY <1>3, <1>6, <1>8, <3>1, <3>2
    <3> QED BY <1>3, <1>6, <1>10, <3>3
  <2>2. /\ j \in Slots(lower) /\ Child(lower, j) = g.left
        /\ \A i \in Slots(lower) : Child(lower, i) = g.left => i = j
    BY <1>2, <1>4, <1>9, <1>o, <2>1
  <2>3. /\ AddEntry(lower, k, c) \in Routers /\ Len(AddEntry(lower, k, c).entries) = mid + 1
        /\ Good(AddEntry(lower, k, c), g, l, a, pk, g.hi)
    <3>1. Good(lower, g, g.level[g.left] + 1, a, pk, Known(g)) BY <1>2, <1>4
    <3>2. /\ AddEntry(lower, g.lo[g.right], g.right) \in Routers
          /\ Len(AddEntry(lower, g.lo[g.right], g.right).entries) = Len(lower.entries) + 1
          /\ Good(AddEntry(lower, g.lo[g.right], g.right), g, g.level[g.left] + 1, a, pk, g.hi)
      BY <1>4, <1>o, <2>2, <3>1, AddGood
    <3> QED BY <1>2, <1>4, <3>2 DEF k, c
  <2>4. Good(upper, g, l, pk, b, g.hi)
    <3>1. ASSUME NEW i \in Slots(upper) PROVE Child(upper, i) # g.left
      <4>1. i \in 0..(m - (mid + 1)) BY <1>5
      <4>2. i + mid + 1 # j BY <1>m, <1>9, <2>1, <4>1
      <4> QED BY <1>2, <1>5, <4>1, <4>2
    <3> QED BY <1>5, <3>1, PlainGood
  <2>5. mid + 1 <= m /\ m - (mid + 1) <= m BY <1>m
  <2> QED BY <1>5, <1>6, <1>7, <1>10, <2>3, <2>4, <2>5 DEF n, m, k, c, a, b, l
<1>11. CASE ~(k < pk)
  <2>1. mid + 1 <= j
    <3> SUFFICES ASSUME j < mid + 1 PROVE FALSE BY <1>m, <1>9
    <3>1. EndAt(n, j, b) # 0 /\ EndAt(n, j, b) <= pk BY <1>b, <1>6, <1>o
    <3>2. EndAt(n, j, b) \in Nat BY <1>b, <1>o
    <3> QED BY <1>3, <1>6, <1>8, <1>11, <3>1, <3>2
  <2> DEFINE i0 == j - (mid + 1)
  <2>2. i0 \in 0..(m - (mid + 1)) /\ i0 + mid + 1 = j BY <1>m, <1>9, <2>1
  <2>3. /\ i0 \in Slots(upper) /\ Child(upper, i0) = g.left
        /\ \A i \in Slots(upper) : Child(upper, i) = g.left => i = i0
    <3>1. \A i \in 0..(m - (mid + 1)) : i + mid + 1 = j => i = i0 BY <1>m, <1>9
    <3> HIDE DEF i0
    <3> QED BY <1>2, <1>5, <1>o, <2>2, <3>1
  <2>4. /\ AddEntry(upper, k, c) \in Routers /\ Len(AddEntry(upper, k, c).entries) = m - (mid + 1) + 1
        /\ Good(AddEntry(upper, k, c), g, l, pk, b, g.hi)
    <3> HIDE DEF i0
    <3>1. Good(upper, g, g.level[g.left] + 1, pk, b, Known(g)) BY <1>2, <1>5
    <3>2. /\ AddEntry(upper, g.lo[g.right], g.right) \in Routers
          /\ Len(AddEntry(upper, g.lo[g.right], g.right).entries) = Len(upper.entries) + 1
          /\ Good(AddEntry(upper, g.lo[g.right], g.right), g, g.level[g.left] + 1, pk, b, g.hi)
      BY <1>5, <1>o, <2>3, <3>1, AddGood
    <3> QED BY <1>2, <1>5, <3>2 DEF k, c
  <2>5. Good(lower, g, l, a, pk, g.hi)
    <3>1. ASSUME NEW i \in Slots(lower) PROVE Child(lower, i) # g.left
      <4>1. i \in 0..mid BY <1>4
      <4>2. i # j BY <1>m, <1>9, <2>1, <4>1
      <4> QED BY <1>2, <1>4, <4>1, <4>2
    <3> QED BY <1>4, <3>1, PlainGood
  <2>6. mid <= m /\ m - (mid + 1) + 1 <= m BY <1>m
  <2> QED BY <1>4, <1>6, <1>7, <1>11, <2>4, <2>5, <2>6 DEF n, m, k, c, a, b, l
<1> QED BY <1>10, <1>11

(* A full router is split; the split that is pending is now its own. *)
LEMMA SplitKeeps ==
  ASSUME BTreeAssumption, NEW ns, NEW root, NEW g, Shape(ns, root, g),
         NEW p, NEW j, OverSplit(ns, g, p, j), Len(ns[p].entries) = MaxInternalKeys
  PROVE  LET two == Halves(ns[p], g.lo[g.right], g.right)
             q == NewPageID(ns)
         IN  Shape(NewPage([ns EXCEPT ![p] = two.lower], two.upper), root,
                   Cut(g, p, q, two.key))
<1> DEFINE two == Halves(ns[p], g.lo[g.right], g.right)
           q == NewPageID(ns)
           l == g.level[p]
           k == two.key
           ns1 == [ns EXCEPT ![p] = two.lower]
           ns2 == NewPage(ns1, two.upper)
           g2 == Cut(g, p, q, two.key)
<1>1. /\ Typed(ns, g) /\ Rooted(root, g) /\ Apart(g) /\ Routed(ns, g) /\ Chained(ns, g) BY DEF Shape
<1>o. g.left # 0 /\ p \in g.L /\ l > 0 BY DEF OverSplit
<1>2. /\ p \in DOMAIN ns /\ DOMAIN ns = 1..Len(ns) /\ Len(ns) \in Nat /\ ns \in Seq(Nodes) /\ g \in Ghosts
      /\ g.L \subseteq DOMAIN ns /\ p \in Nat /\ p # 0 /\ l \in Nat /\ g.L \subseteq Nat
      /\ \A x \in Nat : g.level[x] \in Nat /\ g.lo[x] \in Nat /\ g.hi[x] \in Nat /\ g.pos[x] \in Nat
  <2>1. /\ DOMAIN ns = 1..Len(ns) /\ Len(ns) \in Nat /\ g.L \subseteq Nat
        /\ \A x \in Nat : g.level[x] \in Nat /\ g.lo[x] \in Nat /\ g.hi[x] \in Nat /\ g.pos[x] \in Nat
    BY <1>1, TypesOf
  <2>2. ns \in Seq(Nodes) /\ g \in Ghosts /\ g.L \subseteq DOMAIN ns BY <1>1 DEF Typed
  <2>3. p \in DOMAIN ns BY <1>o, <2>2
  <2>4. p \in Nat /\ p # 0 BY <2>1, <2>3
  <2> QED BY <2>1, <2>2, <2>3, <2>4
<1>3. /\ two.lower \in Routers /\ Len(two.lower.entries) <= MaxInternalKeys
      /\ two.upper \in Routers /\ Len(two.upper.entries) <= MaxInternalKeys
      /\ k \in Nat /\ k # 0 /\ g.lo[p] < k /\ (g.hi[p] = 0 \/ k < g.hi[p])
      /\ Good(two.lower, g, l, g.lo[p], k, g.hi)
      /\ Good(two.upper, g, l, k, g.hi[p], g.hi)
  BY HalvesGood
<1>4. OnlyOver(ns, g, p, j) /\ root # g.left /\ g.hi[root] = 0 BY NotLeft
<1>5. /\ two.lower \in Nodes /\ two.upper \in Nodes /\ ~IsLeaf(two.lower) /\ ~IsLeaf(two.upper)
  BY <1>3, RouterHas DEF Nodes
<1> HIDE DEF two
<1>6. /\ ns1 \in Seq(Nodes) /\ DOMAIN ns1 = DOMAIN ns /\ Len(ns1) = Len(ns)
      /\ \A x \in DOMAIN ns : ns1[x] = IF x = p THEN two.lower ELSE ns[x]
  BY <1>2, <1>5, PutPage
<1> HIDE DEF ns1
<1>7. /\ ns2 \in Seq(Nodes) /\ DOMAIN ns2 = DOMAIN ns \cup {q} /\ q = Len(ns) + 1 /\ q \in Nat /\ q # 0
      /\ q \notin DOMAIN ns /\ q # p
      /\ ns2[q] = two.upper /\ \A x \in DOMAIN ns : ns2[x] = IF x = p THEN two.lower ELSE ns[x]
  <2>1. NewPageID(ns1) = q BY <1>6 DEF NewPageID
  <2>2. /\ ns2 \in Seq(Nodes) /\ NewPageID(ns1) \in Nat /\ NewPageID(ns1) # 0
        /\ DOMAIN ns2 = DOMAIN ns1 \cup {NewPageID(ns1)} /\ NewPageID(ns1) \notin DOMAIN ns1
        /\ ns2[NewPageID(ns1)] = two.upper /\ \A x \in DOMAIN ns1 : ns2[x] = ns1[x]
    BY <1>5, <1>6, AddPage
  <2>3. q = Len(ns) + 1 BY DEF NewPageID
  <2> HIDE DEF ns2, q
  <2> QED BY <1>2, <1>6, <2>1, <2>2, <2>3
<1> HIDE DEF q, ns2
<1>8. /\ g2 \in Ghosts /\ g2.L = g.L \cup {q}
      /\ \A x \in Nat : g2.level[x] = IF x = q THEN l ELSE g.level[x]
      /\ \A x \in Nat : g2.lo[x] = IF x = q THEN k ELSE g.lo[x]
      /\ \A x \in Nat : g2.hi[x] = IF x = q THEN g.hi[p] ELSE IF x = p THEN k ELSE g.hi[x]
      /\ \A x \in Nat : g2.pos[x] = IF x = q THEN 2 * g.pos[p] ELSE 2 * g.pos[x] + 1
      /\ \A x \in g.L : x \in Nat /\ x # q /\ x \in DOMAIN ns
  <2> HIDE DEF k, l, g2
  <2> QED BY <1>3, <1>7, <1>o, CutIs DEF k, l, g2
<1>9. /\ Rooted(root, g2) /\ Apart(g2) /\ Halved(g2)
      /\ \A n, h, a, b : Good(n, g, h, a, b, g.hi) => Good(n, g2, h, a, b, Known(g2))
  <2> HIDE DEF k, l, g2
  <2> QED BY <1>3, <1>4, <1>7, <1>o, CutKeeps DEF k, g2
<1> HIDE DEF g2, k, l
<1>12. Typed(ns2, g2)
  <2>1. g2.L \subseteq DOMAIN ns2 BY <1>2, <1>7, <1>8
  <2>2. ASSUME NEW x \in DOMAIN ns2
        PROVE  /\ IsLeaf(ns2[x]) <=> g2.level[x] = 0
               /\ g2.level[x] > 0 => x \in g2.L /\ Len(ns2[x].entries) <= MaxInternalKeys
    <3>1. CASE x = q BY <1>3, <1>5, <1>7, <1>8, <1>o, <1>2, <3>1
    <3>2. CASE x = p BY <1>3, <1>5, <1>7, <1>8, <1>o, <1>2, <3>2 DEF l
    <3>3. CASE x # p /\ x # q
      <4>1. x \in DOMAIN ns /\ x \in Nat BY <1>2, <1>7, <3>3
      <4>2. ns2[x] = ns[x] /\ g2.level[x] = g.level[x] BY <1>7, <1>8, <3>3, <4>1
      <4> QED BY <1>1, <1>8, <4>1, <4>2 DEF Typed
    <3> QED BY <3>1, <3>2, <3>3
  <2> QED BY <1>7, <1>8, <2>1, <2>2 DEF Typed
<1>16. Routed(ns2, g2)
  <2> SUFFICES ASSUME NEW x \in g2.L, g2.level[x] > 0
               PROVE  Good(ns2[x], g2, g2.level[x], g2.lo[x], g2.hi[x], Known(g2))
    BY DEF Routed
  <2>1. CASE x = q
    <3>1. Good(two.upper, g2, l, k, g.hi[p], Known(g2)) BY <1>3, <1>9
    <3> QED BY <1>7, <1>8, <2>1, <3>1
  <2>2. CASE x = p
    <3>1. Good(two.lower, g2, l, g.lo[p], k, Known(g2)) BY <1>3, <1>9
    <3> QED BY <1>2, <1>7, <1>8, <2>2, <3>1 DEF l
  <2>3. CASE x # p /\ x # q
    <3>1. x \in g.L /\ x \in Nat /\ x \in DOMAIN ns BY <1>8, <2>3
    <3>2. ns2[x] = ns[x] /\ g2.level[x] = g.level[x] /\ g2.lo[x] = g.lo[x] /\ g2.hi[x] = g.hi[x]
      BY <1>7, <1>8, <2>3, <3>1
    <3>3. Good(ns[x], g, g.level[x], g.lo[x], g.hi[x], Known(g)) BY <1>1, <3>1, <3>2 DEF Routed
    <3>4. \A i \in Slots(ns[x]) : Child(ns[x], i) # g.left BY <1>4, <2>3, <3>1, <3>2 DEF OnlyOver
    <3>5. Good(ns[x], g, g.level[x], g.lo[x], g.hi[x], g.hi) BY <3>3, <3>4, PlainGood
    <3>6. Good(ns[x], g2, g.level[x], g.lo[x], g.hi[x], Known(g2)) BY <1>9, <3>5
    <3> QED BY <3>2, <3>6
  <2> QED BY <2>1, <2>2, <2>3
<1>17. Chained(ns2, g2)
  <2>1. ASSUME NEW x \in DOMAIN ns2, g2.level[x] = 0
        PROVE  x \in DOMAIN ns /\ x \in Nat /\ x # p /\ x # q /\ g.level[x] = 0 /\ ns2[x] = ns[x]
    <3>1. x # q /\ x # p BY <1>2, <1>7, <1>8, <1>o, <2>1 DEF l
    <3>2. x \in DOMAIN ns /\ x \in Nat BY <1>2, <1>7, <3>1
    <3> QED BY <1>7, <1>8, <2>1, <3>1, <3>2
  <2>2. ASSUME NEW x \in g2.L, g2.level[x] = 0
        PROVE  /\ ns2[x].next = 0 <=> g2.hi[x] = 0
               /\ ns2[x].next # 0 => ns2[x].next \in g2.L /\ g2.lo[ns2[x].next] = g2.hi[x]
    <3>1. x \in DOMAIN ns2 BY <1>12 DEF Typed
    <3>2. /\ x \in DOMAIN ns /\ x \in Nat /\ x # p /\ x # q /\ g.level[x] = 0 /\ ns2[x] = ns[x]
          /\ x \in g.L
      BY <1>8, <2>1, <2>2, <3>1
    <3>3. /\ ns[x].next = 0 <=> g.hi[x] = 0
          /\ ns[x].next # 0 => ns[x].next \in g.L /\ g.lo[ns[x].next] = g.hi[x]
      BY <1>1, <3>2 DEF Chained
    <3>4. g2.hi[x] = g.hi[x] /\ \A y \in g.L : y \in g2.L /\ g2.lo[y] = g.lo[y] BY <1>8, <3>2
    <3> QED BY <3>2, <3>3, <3>4
  <2>3. ASSUME NEW x \in DOMAIN ns2, g2.level[x] = 0, ns2[x].next # 0
        PROVE  /\ ns2[x].next \in DOMAIN ns2 /\ g2.level[ns2[x].next] = 0
               /\ g2.pos[ns2[x].next] < g2.pos[x]
    <3>1. x \in DOMAIN ns /\ g.level[x] = 0 /\ ns2[x] = ns[x] BY <2>1, <2>3
    <3>2. /\ ns[x].next \in DOMAIN ns /\ g.level[ns[x].next] = 0 /\ g.pos[ns[x].next] < g.pos[x]
      BY <1>1, <2>3, <3>1 DEF Chained
    <3>3. ns[x].next # q /\ ns[x].next \in Nat /\ x # q /\ x \in Nat BY <1>2, <1>7, <3>1, <3>2
    <3>4. g2.pos[ns[x].next] = 2 * g.pos[ns[x].next] + 1 /\ g2.pos[x] = 2 * g.pos[x] + 1
      BY <1>8, <3>3
    <3>5. \A a, b \in Nat : a < b => 2 * a + 1 < 2 * b + 1 OBVIOUS
    <3>6. g2.pos[ns[x].next] < g2.pos[x] BY SMTT(30), ZenonT(20), <1>2, <3>2, <3>3, <3>4, <3>5
    <3>7. ns[x].next \in DOMAIN ns2 /\ g2.level[ns[x].next] = 0 BY <1>7, <1>8, <3>2, <3>3
    <3> QED BY <3>1, <3>6, <3>7
  <2> QED BY <2>2, <2>3 DEF Chained
<1>19. Shape(ns2, root, g2) BY <1>9, <1>12, <1>16, <1>17 DEF Shape
<1> QED BY <1>19 DEF ns2, ns1, g2, q, two

(* createNewRoot: the new root is over both halves of the old one. *)
LEMMA RootKeeps ==
  ASSUME BTreeAssumption, NEW ns, NEW root, NEW g, Shape(ns, root, g), g.left = root
  PROVE  LET q == NewPageID(ns)
         IN  Shape(NewPage(ns, Router(g.left, <<Entry(g.lo[g.right], g.right)>>)), q,
                   [L |-> g.L \cup {q}, level |-> [g.level EXCEPT ![q] = g.level[root] + 1],
                    lo |-> [g.lo EXCEPT ![q] = 0], hi |-> [g.hi EXCEPT ![q] = 0], pos |-> g.pos,
                    left |-> 0, right |-> 0])
<1> DEFINE q == NewPageID(ns)
           k == g.lo[g.right]
           c == g.right
           es == <<Entry(k, c)>>
           r == Router(g.left, es)
           l == g.level[root] + 1
           ns2 == NewPage(ns, r)
           g2 == [L |-> g.L \cup {q}, level |-> [g.level EXCEPT ![q] = g.level[root] + 1],
                  lo |-> [g.lo EXCEPT ![q] = 0], hi |-> [g.hi EXCEPT ![q] = 0], pos |-> g.pos,
                  left |-> 0, right |-> 0]
<1>1. /\ Typed(ns, g) /\ Rooted(root, g) /\ Apart(g) /\ Routed(ns, g) /\ Chained(ns, g) BY DEF Shape
<1>r. /\ root \in g.L /\ g.lo[root] = 0 /\ Known(g)[root] = 0
      /\ \A x \in g.L : g.level[x] <= g.level[root]
  BY <1>1 DEF Rooted
<1>2. /\ DOMAIN ns = 1..Len(ns) /\ Len(ns) \in Nat /\ ns \in Seq(Nodes) /\ g \in Ghosts
      /\ g.L \subseteq DOMAIN ns /\ l \in Nat /\ g.L \subseteq Nat /\ 0 \notin g.L
      /\ \A x \in Nat : g.level[x] \in Nat /\ g.lo[x] \in Nat /\ g.hi[x] \in Nat /\ g.pos[x] \in Nat
  BY <1>1, <1>r, TypesOf DEF Typed
<1>3. /\ g.left \in g.L /\ c \in g.L /\ g.left # c /\ g.level[g.left] = g.level[c] /\ g.hi[g.left] = k
      /\ k \in Nat /\ k # 0 /\ g.left \in Nat /\ c \in Nat /\ Known(g)[g.left] = g.hi[c] /\ g.left # 0
  BY <1>r, <1>2, HalvesAre
<1>4. g.hi[c] = 0 BY <1>3, <1>r
<1>5. /\ r \in Routers /\ Len(r.entries) = 1 /\ Slots(r) = 0..1 /\ r.child0 = g.left
      /\ r.entries[1] = Entry(k, c) /\ r \in Nodes /\ ~IsLeaf(r)
  <2>1. Entry(k, c) \in [key : Nat, child : Nat] BY <1>3 DEF Entry
  <2>2. es \in Seq([key : Nat, child : Nat]) /\ Len(es) = 1 /\ es[1] = Entry(k, c) BY <2>1
  <2> HIDE DEF es
  <2>3. r \in Routers BY <1>3, <2>2, RouterFrom
  <2>4. r.child0 = g.left /\ r.entries = es BY DEF Router
  <2> QED BY <2>2, <2>3, <2>4, RouterHas DEF Slots, Nodes
<1> HIDE DEF r
<1>7. /\ ns2 \in Seq(Nodes) /\ DOMAIN ns2 = DOMAIN ns \cup {q} /\ q \in Nat /\ q # 0
      /\ q \notin DOMAIN ns /\ ns2[q] = r /\ \A x \in DOMAIN ns : ns2[x] = ns[x]
  BY <1>2, <1>5, AddPage
<1> HIDE DEF q, ns2
<1>8. /\ g2.L = g.L \cup {q} /\ g2.pos = g.pos /\ g2.left = 0 /\ g2.right = 0
      /\ \A x \in Nat : g2.level[x] = IF x = q THEN l ELSE g.level[x]
      /\ \A x \in Nat : g2.lo[x] = IF x = q THEN 0 ELSE g.lo[x]
      /\ \A x \in Nat : g2.hi[x] = IF x = q THEN 0 ELSE g.hi[x]
  <2>1. g.level \in [Nat -> Nat] /\ g.lo \in [Nat -> Nat] /\ g.hi \in [Nat -> Nat] BY <1>2 DEF Ghosts
  <2> QED BY <1>2, <1>7, <2>1
<1>9. g2 \in Ghosts
  <2>1. /\ g.level \in [Nat -> Nat] /\ g.lo \in [Nat -> Nat] /\ g.hi \in [Nat -> Nat]
        /\ g.pos \in [Nat -> Nat] /\ g.L \in SUBSET Nat
    BY <1>2 DEF Ghosts
  <2>2. /\ [g.level EXCEPT ![q] = l] \in [Nat -> Nat]
        /\ [g.lo EXCEPT ![q] = 0] \in [Nat -> Nat]
        /\ [g.hi EXCEPT ![q] = 0] \in [Nat -> Nat]
        /\ g.L \cup {q} \in SUBSET Nat
    BY <1>2, <1>7, <2>1
  <2> QED BY <1>2, <1>7, <2>1, <2>2 DEF Ghosts
<1> HIDE DEF g2, l
<1>11. \A x \in g.L : x \in Nat /\ x # q /\ x \in DOMAIN ns BY <1>2, <1>7
<1>10. \A x \in Nat : Known(g2)[x] = g2.hi[x]
  <2>1. \A x \in Nat : Known(g2)[x] = IF x = 0 THEN g2.hi[0] ELSE g2.hi[x] BY <1>8 DEF Known
  <2> QED BY <2>1
<1>12. Typed(ns2, g2)
  <2>1. g2.L \subseteq DOMAIN ns2 BY <1>2, <1>7, <1>8
  <2>2. ASSUME NEW x \in DOMAIN ns2
        PROVE  /\ IsLeaf(ns2[x]) <=> g2.level[x] = 0
               /\ g2.level[x] > 0 => x \in g2.L /\ Len(ns2[x].entries) <= MaxInternalKeys
    <3>1. CASE x = q
      <4>1. l # 0 BY <1>2, <1>r DEF l
      <4>2. 1 <= MaxInternalKeys BY DEF BTreeAssumption
      <4>3. g2.level[q] = l /\ ns2[q] = r /\ q \in g2.L BY <1>7, <1>8
      <4> QED BY <1>5, <3>1, <4>1, <4>2, <4>3
    <3>3. CASE x # q
      <4>1. x \in DOMAIN ns /\ x \in Nat BY <1>2, <1>7, <3>3
      <4>2. ns2[x] = ns[x] /\ g2.level[x] = g.level[x] BY <1>7, <1>8, <3>3, <4>1
      <4> QED BY <1>1, <1>8, <4>1, <4>2 DEF Typed
    <3> QED BY <3>1, <3>3
  <2> QED BY <1>7, <1>9, <2>1, <2>2 DEF Typed
<1>13. Rooted(q, g2)
  <2>3. ASSUME NEW x \in g2.L PROVE g2.level[x] <= g2.level[q]
    <3>1. g2.level[q] = l /\ g.level[root] \in Nat BY <1>2, <1>7, <1>8, <1>r
    <3>2. CASE x = q BY <1>2, <3>1, <3>2
    <3>3. CASE x # q
      <4>1. x \in g.L BY <1>8, <3>3
      <4>2. g2.level[x] = g.level[x] /\ g.level[x] <= g.level[root] /\ g.level[x] \in Nat
        BY <1>2, <1>8, <1>11, <1>r, <4>1
      <4> QED BY <3>1, <4>2 DEF l
    <3> QED BY <3>2, <3>3
  <2> QED BY <1>7, <1>8, <1>10, <2>3 DEF Rooted
<1>14. Apart(g2)
  <2>1. ASSUME NEW x \in g2.L PROVE g2.hi[x] = 0 \/ g2.lo[x] < g2.hi[x]
    <3>1. x = q \/ (x \in g.L /\ x # q /\ x \in Nat) BY <1>8, <1>11
    <3>2. x # q => (g.hi[x] = 0 \/ g.lo[x] < g.hi[x]) BY <1>1, <3>1 DEF Apart
    <3> QED BY <1>7, <1>8, <3>1, <3>2
  <2>2. \A x \in g.L : g2.level[x] # g2.level[q]
    <3>1. \A x \in g.L : g2.level[x] = g.level[x] /\ g.level[x] \in Nat /\ g.level[x] <= g.level[root]
      BY <1>2, <1>8, <1>11, <1>r
    <3>2. g2.level[q] = g.level[root] + 1 /\ g.level[root] \in Nat BY <1>2, <1>7, <1>8, <1>r DEF l
    <3> QED BY <3>1, <3>2
  <2>4. ASSUME NEW x \in g2.L, NEW y \in g2.L, g2.level[x] = g2.level[y], x # y
        PROVE  Before(g2, x, y) \/ Before(g2, y, x)
    <3>1. x \in g.L /\ y \in g.L BY <1>8, <2>2, <2>4
    <3>2. g.level[x] = g.level[y] BY <1>8, <1>11, <2>4, <3>1
    <3>3. Before(g, x, y) \/ Before(g, y, x) BY <1>1, <2>4, <3>1, <3>2 DEF Apart
    <3> QED BY <1>8, <1>11, <3>1, <3>3 DEF Before
  <2> QED BY <2>1, <2>4 DEF Apart
<1>16. Routed(ns2, g2)
  <2> SUFFICES ASSUME NEW x \in g2.L, g2.level[x] > 0
               PROVE  Good(ns2[x], g2, g2.level[x], g2.lo[x], g2.hi[x], Known(g2))
    BY DEF Routed
  <2>1. CASE x = q
    <3> SUFFICES ASSUME NEW i \in 0..1
                 PROVE  /\ Child(r, i) \in g2.L /\ g2.level[Child(r, i)] + 1 = l
                        /\ g2.lo[Child(r, i)] = KeyAt(r, i, 0)
                        /\ Known(g2)[Child(r, i)] = EndAt(r, i, 0)
                        /\ i # 0 => r.entries[i].key # 0
      BY <1>5, <1>7, <1>8, <2>1 DEF Good
    <3>1. CASE i = 0
      <4>1. Child(r, i) = g.left /\ KeyAt(r, i, 0) = 0 /\ EndAt(r, i, 0) = k
        BY <1>5, <3>1 DEF Child, KeyAt, EndAt, Entry
      <4> QED BY <1>3, <1>8, <1>10, <1>11, <1>r, <3>1, <4>1 DEF l
    <3>2. CASE i = 1
      <4>1. Child(r, i) = c /\ KeyAt(r, i, 0) = k /\ EndAt(r, i, 0) = 0 /\ r.entries[i].key = k
        BY <1>5, <3>2 DEF Child, KeyAt, EndAt, Entry
      <4> QED BY <1>3, <1>4, <1>8, <1>10, <1>11, <1>r, <4>1 DEF l
    <3> QED BY <3>1, <3>2
  <2>3. CASE x # q
    <3>1. x \in g.L /\ x \in Nat /\ x \in DOMAIN ns BY <1>8, <1>11, <2>3
    <3>2. ns2[x] = ns[x] /\ g2.level[x] = g.level[x] /\ g2.lo[x] = g.lo[x] /\ g2.hi[x] = g.hi[x]
      BY <1>7, <1>8, <2>3, <3>1
    <3>3. Good(ns[x], g, g.level[x], g.lo[x], g.hi[x], Known(g)) BY <1>1, <3>1, <3>2 DEF Routed
    <3>4. \A i \in Slots(ns[x]) : Child(ns[x], i) # g.left
      <4>1. \A i \in Slots(ns[x]) : g.level[Child(ns[x], i)] + 1 = g.level[x] BY <3>3 DEF Good
      <4>2. g.level[x] <= g.level[root] /\ g.level[root] \in Nat /\ g.level[x] \in Nat BY <1>2, <1>r, <3>1
      <4> QED BY <4>1, <4>2
    <3>5. Good(ns[x], g, g.level[x], g.lo[x], g.hi[x], g.hi) BY <3>3, <3>4, PlainGood
    <3>6. \A y \in g.L : y \in g2.L /\ g2.level[y] = g.level[y] /\ g2.lo[y] = g.lo[y] /\ Known(g2)[y] = g.hi[y]
      BY <1>8, <1>10, <1>11
    <3>7. Good(ns[x], g2, g.level[x], g.lo[x], g.hi[x], Known(g2)) BY <3>5, <3>6 DEF Good
    <3> QED BY <3>2, <3>7
  <2> QED BY <2>1, <2>3
<1>17. Chained(ns2, g2)
  <2>1. ASSUME NEW x \in DOMAIN ns2, g2.level[x] = 0
        PROVE  x \in DOMAIN ns /\ x \in Nat /\ x # q /\ g.level[x] = 0 /\ ns2[x] = ns[x]
    <3>1. x # q
      <4>1. l # 0 BY <1>2, <1>r DEF l
      <4> QED BY <1>2, <1>7, <1>8, <2>1, <4>1
    <3>2. x \in DOMAIN ns /\ x \in Nat BY <1>2, <1>7, <3>1
    <3> QED BY <1>7, <1>8, <2>1, <3>1, <3>2
  <2>2. ASSUME NEW x \in g2.L, g2.level[x] = 0
        PROVE  /\ ns2[x].next = 0 <=> g2.hi[x] = 0
               /\ ns2[x].next # 0 => ns2[x].next \in g2.L /\ g2.lo[ns2[x].next] = g2.hi[x]
    <3>1. x \in DOMAIN ns2 BY <1>12 DEF Typed
    <3>2. /\ x \in DOMAIN ns /\ x \in Nat /\ x # q /\ g.level[x] = 0 /\ ns2[x] = ns[x]
          /\ x \in g.L
      BY <1>8, <2>1, <2>2, <3>1
    <3>3. /\ ns[x].next = 0 <=> g.hi[x] = 0
          /\ ns[x].next # 0 => ns[x].next \in g.L /\ g.lo[ns[x].next] = g.hi[x]
      BY <1>1, <3>2 DEF Chained
    <3>4. g2.hi[x] = g.hi[x] /\ \A y \in g.L : y \in g2.L /\ g2.lo[y] = g.lo[y] BY <1>8, <1>11, <3>2
    <3> QED BY <3>2, <3>3, <3>4
  <2>3. ASSUME NEW x \in DOMAIN ns2, g2.level[x] = 0, ns2[x].next # 0
        PROVE  /\ ns2[x].next \in DOMAIN ns2 /\ g2.level[ns2[x].next] = 0
               /\ g2.pos[ns2[x].next] < g2.pos[x]
    <3>1. x \in DOMAIN ns /\ g.level[x] = 0 /\ ns2[x] = ns[x] BY <2>1, <2>3
    <3>2. /\ ns[x].next \in DOMAIN ns /\ g.level[ns[x].next] = 0 /\ g.pos[ns[x].next] < g.pos[x]
      BY <1>1, <2>3, <3>1 DEF Chained
    <3>3. ns[x].next # q /\ ns[x].next \in Nat BY <1>2, <1>7, <3>2
    <3> QED BY <1>7, <1>8, <3>1, <3>2, <3>3
  <2> QED BY <2>2, <2>3 DEF Chained
<1>18. Halved(g2) BY <1>8 DEF Halved
<1>19. Shape(ns2, q, g2) BY <1>12, <1>13, <1>14, <1>16, <1>17, <1>18 DEF Shape
<1> QED BY <1>19 DEF ns2, g2, q, r

-----------------------------------------------------------------------------
(* Leaves. *)

(* What Min returns. *)
LEMMA MinIs ==
  ASSUME NEW S, S \subseteq Nat, S # {} PROVE Min(S) \in S /\ \A y \in S : Min(S) <= y
<1>1. \E x \in S : \A y \in S : x <= y BY LeastExists
<1> QED BY <1>1 DEF Min

(* What Max returns. *)
LEMMA MaxIs ==
  ASSUME NEW S, S \subseteq Nat, S # {}, IsFiniteSet(S) PROVE Max(S) \in S /\ \A y \in S : y <= Max(S)
<1> DEFINE Topped(T) == \E x \in T : \A y \in T : y <= x
           Bad == {n \in Nat : \E T \in SUBSET S : T # {} /\ Cardinality(T) = n /\ ~Topped(T)}
<1>1. Bad = {}
  <2> SUFFICES ASSUME Bad # {} PROVE FALSE OBVIOUS
  <2>1. Bad \subseteq Nat OBVIOUS
  <2>2. PICK n \in Bad : \A m \in Bad : n <= m
    <3> HIDE DEF Bad
    <3> QED BY <2>1, LeastExists
  <2>3. PICK T \in SUBSET S : T # {} /\ Cardinality(T) = n /\ ~Topped(T) BY <2>2
  <2>4. PICK a \in T : TRUE BY <2>3
  <2>5. IsFiniteSet(T) /\ n \in Nat BY <2>2, FS_Subset
  <2>6. Cardinality(T \ {a}) = n - 1 /\ IsFiniteSet(T \ {a}) BY <2>3, <2>5, FS_RemoveElement
  <2>7. n - 1 \in Nat BY <2>6, FS_CardinalityType
  <2>8. T \ {a} # {}
    <3> SUFFICES ASSUME T \ {a} = {} PROVE FALSE OBVIOUS
    <3>1. T = {a} OBVIOUS
    <3>2. a <= a BY <2>4
    <3> QED BY <2>3, <2>4, <3>1, <3>2
  <2>9. n - 1 \notin Bad BY <2>2, <2>5
  <2>10. Topped(T \ {a}) BY <2>6, <2>7, <2>8, <2>9
  <2>11. PICK x \in T \ {a} : \A y \in T \ {a} : y <= x BY <2>10
  <2>12. x \in Nat /\ a \in Nat OBVIOUS
  <2>13. CASE a <= x
    <3>1. \A y \in T : y <= x BY <2>11, <2>13
    <3> QED BY <2>3, <3>1
  <2>14. CASE ~(a <= x)
    <3>1. \A y \in T : y \in Nat OBVIOUS
    <3>2. \A y \in T : y <= a BY <2>11, <2>12, <2>14, <3>1
    <3> QED BY <2>3, <2>4, <3>2
  <2> QED BY <2>13, <2>14
<1>2. Cardinality(S) \in Nat BY FS_CardinalityType
<1>3. Topped(S) BY <1>1, <1>2
<1> QED BY <1>3 DEF Max

(* A leaf that is split: both halves hold something, and the keys of one are below
   those of the other. *)
LEMMA LowerIs ==
  ASSUME NEW rids \in Maps, NEW m \in Nat, m >= 1, Cardinality(DOMAIN rids) > m
  PROVE  LET lower == Lower(rids, m)
             upper == Without(rids, DOMAIN lower)
         IN  /\ lower \in Maps /\ upper \in Maps
             /\ DOMAIN lower \subseteq DOMAIN rids /\ DOMAIN upper = DOMAIN rids \ DOMAIN lower
             /\ DOMAIN lower # {} /\ DOMAIN upper # {}
             /\ \A x \in DOMAIN lower, y \in DOMAIN upper : x < y
             /\ \A x \in DOMAIN lower : lower[x] = rids[x]
             /\ \A x \in DOMAIN upper : upper[x] = rids[x]
<1> DEFINE D == DOMAIN rids
           lower == Lower(rids, m)
           upper == Without(rids, DOMAIN lower)
           Under(k) == {j \in D : j < k}
           A == {k \in D : Cardinality(Under(k)) < m}
<1>1. PICK S \in {T \in SUBSET Nat : IsFiniteSet(T)} : rids \in [S -> Rids \cup {LoadRid}] BY DEF Maps
<1>2. D = S /\ D \subseteq Nat /\ IsFiniteSet(D) BY <1>1
<1>3. lower = [x \in A |-> rids[x]] BY DEF Lower, Restrict
<1>4. DOMAIN lower = A /\ A \subseteq D BY <1>3
<1>5. upper = [x \in D \ A |-> rids[x]] BY <1>4 DEF Without, Restrict
<1>6. IsFiniteSet(A) /\ IsFiniteSet(D \ A) /\ A \in SUBSET Nat /\ D \ A \in SUBSET Nat
  BY <1>2, <1>4, FS_Subset, FS_Difference
<1>7. lower \in Maps /\ upper \in Maps
  <2>1. lower \in [A -> Rids \cup {LoadRid}] /\ upper \in [D \ A -> Rids \cup {LoadRid}]
    <3> HIDE DEF A, D
    <3> QED BY <1>1, <1>2, <1>3, <1>4, <1>5
  <2> HIDE DEF lower, upper, A, D
  <2> QED BY <1>6, <2>1 DEF Maps
<1>8. \A k \in D : Under(k) \in SUBSET D /\ IsFiniteSet(Under(k)) /\ Cardinality(Under(k)) \in Nat
  <2> SUFFICES ASSUME NEW k \in D
               PROVE  Under(k) \in SUBSET D /\ IsFiniteSet(Under(k)) /\ Cardinality(Under(k)) \in Nat
    OBVIOUS
  <2>1. Under(k) \in SUBSET D OBVIOUS
  <2> HIDE DEF Under, D
  <2> QED BY <1>2, <2>1, FS_Subset, FS_CardinalityType
<1>9. D # {}
  <2> SUFFICES ASSUME D = {} PROVE FALSE OBVIOUS
  <2>1. Cardinality(D) = 0 BY FS_EmptySet
  <2> QED BY <2>1
<1>10. A # {}
  <2>1. Min(D) \in D /\ \A y \in D : Min(D) <= y
    <3> HIDE DEF D
    <3> QED BY <1>2, <1>9, MinIs
  <2>2. Under(Min(D)) = {}
    <3> HIDE DEF D
    <3>1. ASSUME NEW y \in D PROVE ~(y < Min(D))
      <4>1. y \in Nat /\ Min(D) \in Nat /\ Min(D) <= y BY <1>2, <2>1
      <4> QED BY <4>1
    <3> QED BY <3>1
  <2>3. Cardinality(Under(Min(D))) = 0 BY <2>2, FS_EmptySet
  <2>4. Min(D) \in A
    <3> HIDE DEF D
    <3> QED BY <2>1, <2>3
  <2> QED BY <2>4
<1>11. D \ A # {}
  <2>1. Max(D) \in D /\ \A y \in D : y <= Max(D)
    <3> HIDE DEF D
    <3> QED BY <1>2, <1>9, MaxIs
  <2>2. Under(Max(D)) = D \ {Max(D)}
    <3> HIDE DEF D
    <3>1. ASSUME NEW y \in D PROVE y < Max(D) <=> y # Max(D)
      <4>1. y \in Nat /\ Max(D) \in Nat /\ y <= Max(D) BY <1>2, <2>1
      <4> QED BY <4>1
    <3> QED BY <3>1
  <2>3. Cardinality(D \ {Max(D)}) = Cardinality(D) - 1 BY <1>2, <2>1, FS_RemoveElement
  <2>4. Cardinality(D) \in Nat BY <1>2, FS_CardinalityType
  <2>5. ~(Cardinality(Under(Max(D))) < m) BY <2>2, <2>3, <2>4
  <2>6. Max(D) \notin A BY <2>5
  <2> QED BY <2>1, <2>6
<1>12. ASSUME NEW x \in A, NEW y \in D \ A PROVE x < y
  <2> SUFFICES ASSUME ~(x < y) PROVE FALSE OBVIOUS
  <2>1. x \in Nat /\ y \in Nat /\ x \in D /\ y \in D BY <1>2, <1>4
  <2>2. Under(y) \subseteq Under(x)
    <3>1. ASSUME NEW z \in D, z < y PROVE z < x
      <4>1. z \in Nat BY <1>2
      <4> HIDE DEF D, A
      <4> QED BY <2>1, <3>1, <4>1
    <3> QED BY <3>1
  <2>3. Cardinality(Under(y)) <= Cardinality(Under(x))
    <3> HIDE DEF Under
    <3> QED BY <1>8, <2>1, <2>2, FS_Subset
  <2>4. Cardinality(Under(x)) < m /\ ~(Cardinality(Under(y)) < m) BY <2>1
  <2>5. Cardinality(Under(x)) \in Nat /\ Cardinality(Under(y)) \in Nat BY <1>8, <2>1
  <2> HIDE DEF Under
  <2> QED BY <2>3, <2>4, <2>5
<1> HIDE DEF A, lower, upper
<1>13. DOMAIN upper = D \ A BY <1>5
<1>14. \A x \in A : lower[x] = rids[x] BY <1>3
<1>15. \A x \in D \ A : upper[x] = rids[x] BY <1>5
<1> QED BY <1>4, <1>7, <1>10, <1>11, <1>12, <1>13, <1>14, <1>15 DEF lower, upper

(* The entries of a leaf with one put. *)
LEMMA WithIs ==
  ASSUME NEW rids \in Maps, NEW k \in Nat, NEW rid \in Rids \cup {LoadRid}
  PROVE  /\ With(rids, k, rid) \in Maps /\ DOMAIN With(rids, k, rid) = DOMAIN rids \cup {k}
         /\ \A j \in DOMAIN rids \cup {k} : With(rids, k, rid)[j] = IF j = k THEN rid ELSE rids[j]
<1> DEFINE w == With(rids, k, rid)
           D == DOMAIN rids
<1>1. PICK S \in {T \in SUBSET Nat : IsFiniteSet(T)} : rids \in [S -> Rids \cup {LoadRid}] BY DEF Maps
<1>2. D = S /\ D \subseteq Nat /\ IsFiniteSet(D) BY <1>1
<1>3. IsFiniteSet(D \cup {k}) /\ D \cup {k} \in SUBSET Nat BY <1>2, FS_AddElement
<1>4. w = [j \in D \cup {k} |-> IF j = k THEN rid ELSE rids[j]] BY DEF With
<1>5. w \in [D \cup {k} -> Rids \cup {LoadRid}] BY <1>1, <1>2, <1>4
<1>6. w \in Maps
  <2> HIDE DEF w, D
  <2> QED BY <1>3, <1>5 DEF Maps
<1> QED BY <1>4, <1>6

(* The same in one word. *)
PutIn(w, rids, k, rid) ==
  /\ w \in Maps /\ DOMAIN w = DOMAIN rids \cup {k}
  /\ \A j \in DOMAIN rids \cup {k} : w[j] = IF j = k THEN rid ELSE rids[j]

(* With puts one record. *)
LEMMA WithPuts ==
  ASSUME NEW rids \in Maps, NEW k \in Nat, NEW rid \in Rids \cup {LoadRid}
  PROVE  PutIn(With(rids, k, rid), rids, k, rid)
BY SMTT(30), ZenonT(20), WithIs DEF PutIn

(* The entries of a leaf with some taken. *)
LEMMA WithoutIs ==
  ASSUME NEW rids \in Maps, NEW S
  PROVE  /\ Without(rids, S) \in Maps /\ DOMAIN Without(rids, S) = DOMAIN rids \ S
         /\ \A j \in DOMAIN rids \ S : Without(rids, S)[j] = rids[j]
<1> DEFINE w == Without(rids, S)
           D == DOMAIN rids
<1>1. PICK T \in {U \in SUBSET Nat : IsFiniteSet(U)} : rids \in [T -> Rids \cup {LoadRid}] BY DEF Maps
<1>2. D = T /\ D \subseteq Nat /\ IsFiniteSet(D) BY <1>1
<1>3. IsFiniteSet(D \ S) /\ D \ S \in SUBSET Nat BY <1>2, FS_Subset
<1>4. w = [j \in D \ S |-> rids[j]] BY DEF Without, Restrict
<1>5. w \in [D \ S -> Rids \cup {LoadRid}] BY <1>1, <1>2, <1>4
<1>6. w \in Maps
  <2> HIDE DEF w, D
  <2> QED BY <1>3, <1>5 DEF Maps
<1> QED BY <1>4, <1>6

(* Entries and a next page make a leaf. *)
LEMMA LeafFrom ==
  ASSUME NEW rids \in Maps, NEW next \in Nat
  PROVE  /\ Leaf(rids, next) \in Nodes /\ IsLeaf(Leaf(rids, next))
         /\ Leaf(rids, next).rids = rids /\ Leaf(rids, next).next = next
BY DEF Leaf, Leaves, Nodes, IsLeaf

(* The shape of a tree does not depend on what its leaves hold. *)
LEMMA PutKeeps ==
  ASSUME NEW ns, NEW root, NEW g, Shape(ns, root, g), NEW p \in g.L, g.level[p] = 0, NEW rids \in Maps
  PROVE  /\ Shape([ns EXCEPT ![p] = Leaf(rids, ns[p].next)], root, g)
         /\ \A x \in DOMAIN ns : [ns EXCEPT ![p] = Leaf(rids, ns[p].next)][x] =
              IF x = p THEN Leaf(rids, ns[p].next) ELSE ns[x]
         /\ DOMAIN [ns EXCEPT ![p] = Leaf(rids, ns[p].next)] = DOMAIN ns
<1> DEFINE n == Leaf(rids, ns[p].next)
           ns2 == [ns EXCEPT ![p] = n]
<1>1. /\ Typed(ns, g) /\ Rooted(root, g) /\ Apart(g) /\ Routed(ns, g) /\ Chained(ns, g) /\ Halved(g)
  BY DEF Shape
<1>2. p \in DOMAIN ns /\ ns \in Seq(Nodes) /\ g.L \subseteq DOMAIN ns BY <1>1 DEF Typed
<1>3. ns[p] \in Leaves BY <1>1, <1>2, LeafOf
<1>4. n \in Nodes /\ IsLeaf(n) /\ n.next = ns[p].next BY <1>3, LeafFrom, LeafHas
<1> HIDE DEF n
<1>5. /\ ns2 \in Seq(Nodes) /\ DOMAIN ns2 = DOMAIN ns
      /\ \A x \in DOMAIN ns : ns2[x] = IF x = p THEN n ELSE ns[x]
  BY <1>2, <1>4, PutPage
<1> HIDE DEF ns2
<1>6. Typed(ns2, g)
  <2>1. \A x \in DOMAIN ns : IsLeaf(ns2[x]) <=> g.level[x] = 0 BY <1>1, <1>4, <1>5 DEF Typed
  <2>2. ASSUME NEW x \in DOMAIN ns, g.level[x] > 0
        PROVE  x \in g.L /\ Len(ns2[x].entries) <= MaxInternalKeys
    <3>1. x # p BY <2>2
    <3> QED BY <1>1, <1>5, <2>2, <3>1 DEF Typed
  <2> QED BY <1>1, <1>5, <2>1, <2>2 DEF Typed
<1>7. Routed(ns2, g)
  <2> SUFFICES ASSUME NEW x \in g.L, g.level[x] > 0
               PROVE  Good(ns2[x], g, g.level[x], g.lo[x], g.hi[x], Known(g))
    BY DEF Routed
  <2>1. x # p /\ x \in DOMAIN ns BY <1>2
  <2> QED BY <1>1, <1>5, <2>1 DEF Routed
<1>8. Chained(ns2, g)
  <2>1. \A x \in DOMAIN ns : g.level[x] = 0 => ns2[x].next = ns[x].next BY <1>4, <1>5
  <2> QED BY <1>1, <1>2, <1>5, <2>1 DEF Chained
<1>9. Shape(ns2, root, g) BY <1>1, <1>6, <1>7, <1>8 DEF Shape
<1> QED BY <1>5, <1>9 DEF ns2, n

(* The keys of the leaves are in leaves, where the same records are. *)
Keeps(ns, g, ns2, g2) ==
  /\ \A p \in g2.L : g2.level[p] = 0 => \A k \in DOMAIN ns2[p].rids :
       /\ Covers(g2, p, k)
       /\ \E q \in g.L : g.level[q] = 0 /\ k \in DOMAIN ns[q].rids /\ ns2[p].rids[k] = ns[q].rids[k]
  /\ \A q \in g.L : g.level[q] = 0 => \A k \in DOMAIN ns[q].rids :
       \E p \in g2.L : g2.level[p] = 0 /\ k \in DOMAIN ns2[p].rids

(* What the leaves hold is said of any pages that hold the same records for the same
   keys. *)
LEMMA FiledKeeps ==
  ASSUME NEW ns, NEW root, NEW g, NEW W, NEW D, Filed(ns, root, g, W, D),
         NEW ns2, NEW root2, NEW g2, Keeps(ns, g, ns2, g2),
         \A p \in g2.L : g2.level[p] = 0 => DOMAIN ns2[p].rids # {}
  PROVE  Filed(ns2, root2, g2, W, D)
<1>1. ASSUME NEW p \in g2.L, g2.level[p] = 0, NEW k \in DOMAIN ns2[p].rids
      PROVE  Covers(g2, p, k) /\ (k \in D \/ (k \in DOMAIN W /\ W[k] = ns2[p].rids[k]))
  <2>1. Covers(g2, p, k) BY <1>1 DEF Keeps
  <2>2. PICK q \in g.L : g.level[q] = 0 /\ k \in DOMAIN ns[q].rids /\ ns2[p].rids[k] = ns[q].rids[k]
    BY <1>1 DEF Keeps
  <2>3. k \in D \/ (k \in DOMAIN W /\ W[k] = ns[q].rids[k]) BY <2>2 DEF Filed
  <2> QED BY <2>1, <2>2, <2>3
<1>2. ASSUME NEW k \in DOMAIN W \ D
      PROVE  \E p \in g2.L : g2.level[p] = 0 /\ k \in DOMAIN ns2[p].rids
  <2>1. PICK q \in g.L : g.level[q] = 0 /\ k \in DOMAIN ns[q].rids BY DEF Filed
  <2> QED BY <2>1 DEF Keeps
<1> QED BY <1>1, <1>2 DEF Filed

-----------------------------------------------------------------------------
(* A leaf is split. *)

LeafCut(ns, root, g, p, lower, upper, k, q, ns2) ==
  /\ Shape(ns2, root, Cut(g, p, q, k))
  /\ DOMAIN ns2 = DOMAIN ns \cup {q} /\ q \notin DOMAIN ns /\ q \in Nat /\ q # 0
  /\ ns2[q] = Leaf(upper, ns[p].next)
  /\ \A x \in DOMAIN ns : ns2[x] = IF x = p THEN Leaf(lower, q) ELSE ns[x]

(* A leaf is split and linked: left to right, and right to what followed. *)
LEMMA LeafSplitKeeps ==
  ASSUME NEW ns, NEW root, NEW g, Shape(ns, root, g), g.left = 0,
         NEW p \in g.L, g.level[p] = 0, NEW lower \in Maps, NEW upper \in Maps,
         NEW k \in Nat, g.lo[p] < k, g.hi[p] = 0 \/ k < g.hi[p]
  PROVE  LeafCut(ns, root, g, p, lower, upper, k, NewPageID(ns),
                 NewPage([ns EXCEPT ![p] = Leaf(lower, NewPageID(ns))], Leaf(upper, ns[p].next)))
<1> DEFINE q == NewPageID(ns)
           one == Leaf(lower, q)
           two == Leaf(upper, ns[p].next)
           ns1 == [ns EXCEPT ![p] = one]
           ns2 == NewPage(ns1, two)
           g2 == Cut(g, p, q, k)
<1>1. /\ Typed(ns, g) /\ Rooted(root, g) /\ Apart(g) /\ Routed(ns, g) /\ Chained(ns, g) /\ Halved(g)
  BY DEF Shape
<1>2. /\ p \in DOMAIN ns /\ DOMAIN ns = 1..Len(ns) /\ Len(ns) \in Nat /\ ns \in Seq(Nodes) /\ g \in Ghosts
      /\ g.L \subseteq DOMAIN ns /\ p \in Nat /\ p # 0 /\ g.L \subseteq Nat
      /\ \A x \in Nat : g.level[x] \in Nat /\ g.lo[x] \in Nat /\ g.hi[x] \in Nat /\ g.pos[x] \in Nat
  <2>1. /\ DOMAIN ns = 1..Len(ns) /\ Len(ns) \in Nat /\ g.L \subseteq Nat
        /\ \A x \in Nat : g.level[x] \in Nat /\ g.lo[x] \in Nat /\ g.hi[x] \in Nat /\ g.pos[x] \in Nat
    BY <1>1, TypesOf
  <2>2. ns \in Seq(Nodes) /\ g \in Ghosts /\ g.L \subseteq DOMAIN ns BY <1>1 DEF Typed
  <2>3. p \in DOMAIN ns BY <2>2
  <2>4. p \in Nat /\ p # 0 BY <2>1, <2>3
  <2> QED BY <2>1, <2>2, <2>3, <2>4
<1>3. q = Len(ns) + 1 /\ q \in Nat /\ q # 0 /\ q \notin DOMAIN ns /\ q # p
  <2>1. q = Len(ns) + 1 BY DEF NewPageID
  <2> HIDE DEF q
  <2> QED BY <1>2, <2>1
<1>4. \A x \in Nat : g.hi[x] = Known(g)[x]
  <2>1. g.right = 0 BY <1>1 DEF Halved
  <2>2. \A x \in Nat : Known(g)[x] = (IF x = g.left THEN g.hi[g.right] ELSE g.hi[x]) BY <1>1, TypesOf
  <2> QED BY <2>1, <2>2
<1>5. g.hi[root] = 0 BY <1>1, <1>2, <1>4 DEF Rooted
<1>p. ns[p] \in Leaves /\ ns[p].next \in Nat
  <2>1. ns[p] \in Leaves BY <1>1, <1>2, LeafOf
  <2> QED BY <2>1, LeafHas
<1>6. /\ one \in Nodes /\ two \in Nodes /\ IsLeaf(one) /\ IsLeaf(two)
      /\ one.next = q /\ two.next = ns[p].next
  <2> HIDE DEF q
  <2> QED BY <1>3, <1>p, LeafFrom
<1> HIDE DEF one, two
<1>7. /\ ns1 \in Seq(Nodes) /\ DOMAIN ns1 = DOMAIN ns /\ Len(ns1) = Len(ns)
      /\ \A x \in DOMAIN ns : ns1[x] = IF x = p THEN one ELSE ns[x]
  BY <1>2, <1>6, PutPage
<1> HIDE DEF ns1
<1>8. /\ ns2 \in Seq(Nodes) /\ DOMAIN ns2 = DOMAIN ns \cup {q}
      /\ ns2[q] = two /\ \A x \in DOMAIN ns : ns2[x] = IF x = p THEN one ELSE ns[x]
  <2>1. NewPageID(ns1) = q BY <1>7 DEF NewPageID
  <2>2. /\ ns2 \in Seq(Nodes)
        /\ DOMAIN ns2 = DOMAIN ns1 \cup {NewPageID(ns1)} /\ NewPageID(ns1) \notin DOMAIN ns1
        /\ ns2[NewPageID(ns1)] = two /\ \A x \in DOMAIN ns1 : ns2[x] = ns1[x]
    BY <1>6, <1>7, AddPage
  <2> HIDE DEF ns2, q
  <2> QED BY <1>7, <2>1, <2>2
<1> HIDE DEF q, ns2
<1>9. /\ g2 \in Ghosts /\ g2.L = g.L \cup {q}
      /\ \A x \in Nat : g2.level[x] = IF x = q THEN g.level[p] ELSE g.level[x]
      /\ \A x \in Nat : g2.lo[x] = IF x = q THEN k ELSE g.lo[x]
      /\ \A x \in Nat : g2.hi[x] = IF x = q THEN g.hi[p] ELSE IF x = p THEN k ELSE g.hi[x]
      /\ \A x \in Nat : g2.pos[x] = IF x = q THEN 2 * g.pos[p] ELSE 2 * g.pos[x] + 1
  <2> HIDE DEF g2
  <2> QED BY <1>3, CutIs DEF g2
<1>10. /\ Rooted(root, g2) /\ Apart(g2) /\ Halved(g2)
       /\ \A n, h, a, b : Good(n, g, h, a, b, g.hi) => Good(n, g2, h, a, b, Known(g2))
  <2> HIDE DEF g2
  <2> QED BY <1>3, <1>5, CutKeeps DEF g2
<1> HIDE DEF g2
<1>11. Typed(ns2, g2)
  <2>1. g2.L \subseteq DOMAIN ns2 BY <1>2, <1>8, <1>9
  <2>2. ASSUME NEW x \in DOMAIN ns2
        PROVE  /\ IsLeaf(ns2[x]) <=> g2.level[x] = 0
               /\ g2.level[x] > 0 => x \in g2.L /\ Len(ns2[x].entries) <= MaxInternalKeys
    <3>1. CASE x = q BY <1>3, <1>6, <1>8, <1>9, <3>1
    <3>2. CASE x = p BY <1>2, <1>3, <1>6, <1>8, <1>9, <3>2
    <3>3. CASE x # p /\ x # q
      <4>1. x \in DOMAIN ns /\ x \in Nat BY <1>2, <1>8, <3>3
      <4>2. ns2[x] = ns[x] /\ g2.level[x] = g.level[x] BY <1>8, <1>9, <3>3, <4>1
      <4> QED BY <1>1, <1>9, <4>1, <4>2 DEF Typed
    <3> QED BY <3>1, <3>2, <3>3
  <2> QED BY <1>8, <1>9, <2>1, <2>2 DEF Typed
<1>12. Routed(ns2, g2)
  <2> SUFFICES ASSUME NEW x \in g2.L, g2.level[x] > 0
               PROVE  Good(ns2[x], g2, g2.level[x], g2.lo[x], g2.hi[x], Known(g2))
    BY DEF Routed
  <2>1. x # q /\ x # p BY <1>2, <1>3, <1>9
  <2>2. x \in g.L /\ x \in Nat /\ x \in DOMAIN ns BY <1>2, <1>9, <2>1
  <2>3. ns2[x] = ns[x] /\ g2.level[x] = g.level[x] /\ g2.lo[x] = g.lo[x] /\ g2.hi[x] = g.hi[x]
    BY <1>8, <1>9, <2>1, <2>2
  <2>4. Good(ns[x], g, g.level[x], g.lo[x], g.hi[x], Known(g)) BY <1>1, <2>2, <2>3 DEF Routed
  <2>5. \A c \in g.L : g.hi[c] = Known(g)[c] BY <1>2, <1>4
  <2>6. Good(ns[x], g, g.level[x], g.lo[x], g.hi[x], g.hi) BY <2>4, <2>5, GoodStays
  <2>7. Good(ns[x], g2, g.level[x], g.lo[x], g.hi[x], Known(g2)) BY <1>10, <2>6
  <2> QED BY <2>3, <2>7
<1>13. ASSUME NEW x \in DOMAIN ns2, g2.level[x] = 0, x # p, x # q
       PROVE  x \in DOMAIN ns /\ x \in Nat /\ g.level[x] = 0 /\ ns2[x] = ns[x]
  <2>1. x \in DOMAIN ns /\ x \in Nat BY <1>2, <1>8, <1>13
  <2> QED BY <1>8, <1>9, <1>13, <2>1
<1>14. /\ ns[p].next = 0 <=> g.hi[p] = 0
       /\ ns[p].next # 0 => /\ ns[p].next \in g.L /\ g.lo[ns[p].next] = g.hi[p]
                            /\ ns[p].next \in DOMAIN ns /\ g.level[ns[p].next] = 0
                            /\ g.pos[ns[p].next] < g.pos[p]
  BY <1>1, <1>2 DEF Chained
<1>15. ASSUME NEW x \in g2.L, g2.level[x] = 0
       PROVE  /\ ns2[x].next = 0 <=> g2.hi[x] = 0
              /\ ns2[x].next # 0 => ns2[x].next \in g2.L /\ g2.lo[ns2[x].next] = g2.hi[x]
  <2>1. CASE x = q
    <3>1. ns2[x].next = ns[p].next /\ g2.hi[x] = g.hi[p] BY <1>3, <1>6, <1>8, <1>9, <2>1
    <3>2. ns[p].next # 0 => ns[p].next \in g2.L /\ g2.lo[ns[p].next] = g.lo[ns[p].next]
      BY <1>2, <1>3, <1>9, <1>14
    <3> QED BY <1>14, <3>1, <3>2
  <2>2. CASE x = p
    <3>1. ns2[x].next = q /\ g2.hi[x] = k BY <1>2, <1>3, <1>6, <1>8, <1>9, <2>2
    <3>2. k # 0 BY <1>2
    <3> QED BY <1>3, <1>9, <3>1, <3>2
  <2>3. CASE x # p /\ x # q
    <3>1. x \in DOMAIN ns2 BY <1>11 DEF Typed
    <3>2. x \in DOMAIN ns /\ x \in Nat /\ g.level[x] = 0 /\ ns2[x] = ns[x] /\ x \in g.L
      BY <1>9, <1>13, <1>15, <2>3, <3>1
    <3>3. /\ ns[x].next = 0 <=> g.hi[x] = 0
          /\ ns[x].next # 0 => ns[x].next \in g.L /\ g.lo[ns[x].next] = g.hi[x]
      BY <1>1, <3>2 DEF Chained
    <3>4. g2.hi[x] = g.hi[x] /\ \A y \in g.L : y \in g2.L /\ g2.lo[y] = g.lo[y]
      BY <1>2, <1>3, <1>9, <2>3, <3>2
    <3> QED BY <3>2, <3>3, <3>4
  <2> QED BY <2>1, <2>2, <2>3
<1>16. ASSUME NEW x \in DOMAIN ns2, g2.level[x] = 0, ns2[x].next # 0
       PROVE  /\ ns2[x].next \in DOMAIN ns2 /\ g2.level[ns2[x].next] = 0
              /\ g2.pos[ns2[x].next] < g2.pos[x]
  <2>0. \A a, b \in Nat : a < b => 2 * a + 1 < 2 * b + 1 /\ 2 * a + 1 < 2 * b OBVIOUS
  <2>1. CASE x = q
    <3>1. ns2[x].next = ns[p].next /\ ns[p].next # 0 BY <1>6, <1>8, <1>16, <2>1
    <3>2. ns[p].next \in Nat /\ ns[p].next # q BY <1>2, <1>3, <1>14, <3>1
    <3>3. g2.pos[ns[p].next] = 2 * g.pos[ns[p].next] + 1 /\ g2.pos[x] = 2 * g.pos[p]
      BY <1>3, <1>9, <2>1, <3>2
    <3>4. g2.pos[ns[p].next] < g2.pos[x] BY <1>2, <1>14, <2>0, <3>1, <3>2, <3>3
    <3>5. ns[p].next \in DOMAIN ns2 /\ g2.level[ns[p].next] = 0 BY <1>8, <1>9, <1>14, <3>1, <3>2
    <3> QED BY <3>1, <3>4, <3>5
  <2>2. CASE x = p
    <3>1. ns2[x].next = q BY <1>2, <1>6, <1>8, <2>2
    <3>2. g2.pos[q] = 2 * g.pos[p] /\ g2.pos[x] = 2 * g.pos[p] + 1 BY <1>2, <1>3, <1>9, <2>2
    <3>3. g2.pos[q] < g2.pos[x] BY <1>2, <3>2
    <3> QED BY <1>3, <1>8, <1>9, <3>1, <3>3
  <2>3. CASE x # p /\ x # q
    <3>1. x \in DOMAIN ns /\ x \in Nat /\ g.level[x] = 0 /\ ns2[x] = ns[x] BY <1>13, <1>16, <2>3
    <3>2. /\ ns[x].next \in DOMAIN ns /\ g.level[ns[x].next] = 0 /\ g.pos[ns[x].next] < g.pos[x]
      BY <1>1, <1>16, <3>1 DEF Chained
    <3>3. ns[x].next # q /\ ns[x].next \in Nat BY <1>2, <1>3, <3>2
    <3>4. g2.pos[ns[x].next] = 2 * g.pos[ns[x].next] + 1 /\ g2.pos[x] = 2 * g.pos[x] + 1
      BY <1>9, <2>3, <3>1, <3>3
    <3>5. g2.pos[ns[x].next] < g2.pos[x] BY SMTT(30), ZenonT(20), <1>2, <2>0, <3>1, <3>2, <3>3, <3>4
    <3>6. ns[x].next \in DOMAIN ns2 /\ g2.level[ns[x].next] = 0 BY <1>8, <1>9, <3>2, <3>3
    <3> QED BY <3>1, <3>5, <3>6
  <2> QED BY <2>1, <2>2, <2>3
<1>17. Chained(ns2, g2) BY <1>15, <1>16 DEF Chained
<1>18. Shape(ns2, root, g2) BY <1>10, <1>11, <1>12, <1>17 DEF Shape
<1>19. LeafCut(ns, root, g, p, lower, upper, k, q, ns2)
  BY <1>3, <1>8, <1>18 DEF LeafCut, g2, one, two
<1> QED BY <1>19 DEF ns2, ns1, q, one, two

-----------------------------------------------------------------------------
(* What the leaves hold when a record is put or taken, and when only routers change. *)

(* A record that is put where its key belongs is what the tree has for the key. *)
LEMMA PutFiled ==
  ASSUME NEW ns, NEW root, NEW g, Shape(ns, root, g), NEW W, NEW D, Filed(ns, root, g, W, D),
         NEW p \in g.L, g.level[p] = 0, NEW k \in Nat, Covers(g, p, k), NEW rid \in Rids \cup {LoadRid}
  PROVE  LET ns2 == [ns EXCEPT ![p] = Leaf(With(ns[p].rids, k, rid), ns[p].next)]
         IN  /\ Shape(ns2, root, g) /\ Filed(ns2, root, g, With(W, k, rid), D)
             /\ DOMAIN ns2 = DOMAIN ns /\ \A x \in DOMAIN ns : x # p => ns2[x] = ns[x]
<1> DEFINE rids == With(ns[p].rids, k, rid)
           ns2 == [ns EXCEPT ![p] = Leaf(rids, ns[p].next)]
           W2 == With(W, k, rid)
<1>1. Typed(ns, g) BY DEF Shape
<1>2. p \in DOMAIN ns /\ g.L \subseteq DOMAIN ns BY <1>1 DEF Typed
<1>3. ns[p] \in Leaves BY <1>1, <1>2, LeafOf
<1>4. ns[p].rids \in Maps /\ ns[p].next \in Nat BY <1>3, LeafHas
<1>5. /\ rids \in Maps /\ DOMAIN rids = DOMAIN ns[p].rids \cup {k}
      /\ \A j \in DOMAIN ns[p].rids \cup {k} : rids[j] = IF j = k THEN rid ELSE ns[p].rids[j]
  <2>1. PutIn(rids, ns[p].rids, k, rid) BY <1>4, WithPuts
  <2> QED BY <2>1 DEF PutIn
<1>6. /\ DOMAIN W2 = DOMAIN W \cup {k}
      /\ \A j \in DOMAIN W \cup {k} : W2[j] = IF j = k THEN rid ELSE W[j]
  BY DEF With
<1> HIDE DEF rids, W2
<1>7. /\ Shape(ns2, root, g) /\ DOMAIN ns2 = DOMAIN ns
      /\ \A x \in DOMAIN ns : ns2[x] = IF x = p THEN Leaf(rids, ns[p].next) ELSE ns[x]
  BY <1>5, PutKeeps
<1> HIDE DEF ns2
<1>8. ns2[p].rids = rids BY <1>2, <1>4, <1>5, <1>7, LeafFrom
<1>9. ASSUME NEW q \in g.L, g.level[q] = 0, q # p PROVE ns2[q] = ns[q] /\ k \notin DOMAIN ns[q].rids
  <2>1. ns2[q] = ns[q] BY <1>2, <1>7, <1>9
  <2>2. k \notin DOMAIN ns[q].rids
    <3> SUFFICES ASSUME k \in DOMAIN ns[q].rids PROVE FALSE OBVIOUS
    <3>1. Covers(g, q, k) BY <1>9 DEF Filed
    <3> QED BY <1>9, <3>1, SamePage
  <2> QED BY <2>1, <2>2
<1>10. ASSUME NEW q \in g.L, g.level[q] = 0, NEW j \in DOMAIN ns2[q].rids
       PROVE  Covers(g, q, j) /\ (j \in D \/ (j \in DOMAIN W2 /\ W2[j] = ns2[q].rids[j]))
  <2>1. CASE q # p
    <3>1. ns2[q] = ns[q] /\ j # k BY <1>9, <1>10, <2>1
    <3>2. Covers(g, q, j) /\ (j \in D \/ (j \in DOMAIN W /\ W[j] = ns[q].rids[j]))
      BY <1>10, <3>1 DEF Filed
    <3> QED BY <1>6, <3>1, <3>2
  <2>2. CASE q = p /\ j # k
    <3>1. j \in DOMAIN ns[q].rids /\ ns2[q].rids[j] = ns[q].rids[j] BY <1>5, <1>8, <1>10, <2>2
    <3>2. Covers(g, q, j) /\ (j \in D \/ (j \in DOMAIN W /\ W[j] = ns[q].rids[j]))
      BY <1>10, <3>1 DEF Filed
    <3> QED BY <1>6, <2>2, <3>1, <3>2
  <2>3. CASE q = p /\ j = k BY <1>5, <1>6, <1>8, <2>3
  <2> QED BY <2>1, <2>2, <2>3
<1>11. ASSUME NEW q \in g.L, g.level[q] = 0, DOMAIN ns2[q].rids = {} PROVE q = root /\ g.left = 0
  <2>1. q # p BY <1>5, <1>8, <1>11
  <2> QED BY <1>9, <1>11, <2>1 DEF Filed
<1>12. ASSUME NEW j \in DOMAIN W2 \ D
       PROVE  \E q \in g.L : g.level[q] = 0 /\ j \in DOMAIN ns2[q].rids
  <2>1. CASE j = k BY <1>5, <1>8, <2>1
  <2>2. CASE j # k
    <3>1. j \in DOMAIN W \ D BY <1>6, <1>12, <2>2
    <3>2. PICK q \in g.L : g.level[q] = 0 /\ j \in DOMAIN ns[q].rids BY <3>1 DEF Filed
    <3>3. j \in DOMAIN ns2[q].rids BY <1>5, <1>8, <1>9, <3>2
    <3> QED BY <3>2, <3>3
  <2> QED BY <2>1, <2>2
<1>13. Filed(ns2, root, g, W2, D) BY <1>10, <1>11, <1>12 DEF Filed
<1> QED BY <1>7, <1>13 DEF ns2, rids, W2

(* A record that is taken from its leaf is gone, and nothing else is. *)
LEMMA TakeFiled ==
  ASSUME NEW ns, NEW root, NEW g, Shape(ns, root, g), NEW W, NEW D, Filed(ns, root, g, W, D),
         NEW p \in g.L, g.level[p] = 0, NEW k \in Nat, Covers(g, p, k),
         DOMAIN ns[p].rids \ {k} = {} => p = root /\ g.left = 0
  PROVE  LET ns2 == [ns EXCEPT ![p] = Leaf(Without(ns[p].rids, {k}), ns[p].next)]
         IN  /\ Shape(ns2, root, g) /\ Filed(ns2, root, g, Without(W, {k}), D)
             /\ DOMAIN ns2 = DOMAIN ns /\ \A x \in DOMAIN ns : x # p => ns2[x] = ns[x]
<1> DEFINE rids == Without(ns[p].rids, {k})
           ns2 == [ns EXCEPT ![p] = Leaf(rids, ns[p].next)]
           W2 == Without(W, {k})
<1>1. Typed(ns, g) BY DEF Shape
<1>2. p \in DOMAIN ns /\ g.L \subseteq DOMAIN ns BY <1>1 DEF Typed
<1>3. ns[p] \in Leaves BY <1>1, <1>2, LeafOf
<1>4. ns[p].rids \in Maps /\ ns[p].next \in Nat BY <1>3, LeafHas
<1>5. /\ rids \in Maps /\ DOMAIN rids = DOMAIN ns[p].rids \ {k}
      /\ \A j \in DOMAIN ns[p].rids \ {k} : rids[j] = ns[p].rids[j]
  BY <1>4, WithoutIs
<1>6. DOMAIN W2 = DOMAIN W \ {k} /\ \A j \in DOMAIN W \ {k} : W2[j] = W[j]
  BY DEF Without, Restrict
<1> HIDE DEF rids, W2
<1>7. /\ Shape(ns2, root, g) /\ DOMAIN ns2 = DOMAIN ns
      /\ \A x \in DOMAIN ns : ns2[x] = IF x = p THEN Leaf(rids, ns[p].next) ELSE ns[x]
  BY <1>5, PutKeeps
<1> HIDE DEF ns2
<1>8. ns2[p].rids = rids BY <1>2, <1>4, <1>5, <1>7, LeafFrom
<1>9. ASSUME NEW q \in g.L, g.level[q] = 0, q # p PROVE ns2[q] = ns[q] /\ k \notin DOMAIN ns[q].rids
  <2>1. ns2[q] = ns[q] BY <1>2, <1>7, <1>9
  <2>2. k \notin DOMAIN ns[q].rids
    <3> SUFFICES ASSUME k \in DOMAIN ns[q].rids PROVE FALSE OBVIOUS
    <3>1. Covers(g, q, k) BY <1>9 DEF Filed
    <3> QED BY <1>9, <3>1, SamePage
  <2> QED BY <2>1, <2>2
<1>10. ASSUME NEW q \in g.L, g.level[q] = 0, NEW j \in DOMAIN ns2[q].rids
       PROVE  Covers(g, q, j) /\ (j \in D \/ (j \in DOMAIN W2 /\ W2[j] = ns2[q].rids[j]))
  <2>1. j # k /\ j \in DOMAIN ns[q].rids /\ ns2[q].rids[j] = ns[q].rids[j]
    BY <1>5, <1>8, <1>9, <1>10
  <2>2. Covers(g, q, j) /\ (j \in D \/ (j \in DOMAIN W /\ W[j] = ns[q].rids[j]))
    BY <1>10, <2>1 DEF Filed
  <2> QED BY <1>6, <2>1, <2>2
<1>11. ASSUME NEW q \in g.L, g.level[q] = 0, DOMAIN ns2[q].rids = {} PROVE q = root /\ g.left = 0
  <2>1. CASE q = p BY <1>5, <1>8, <1>11, <2>1
  <2>2. CASE q # p BY <1>9, <1>11, <2>2 DEF Filed
  <2> QED BY <2>1, <2>2
<1>12. ASSUME NEW j \in DOMAIN W2 \ D
       PROVE  \E q \in g.L : g.level[q] = 0 /\ j \in DOMAIN ns2[q].rids
  <2>1. j # k /\ j \in DOMAIN W \ D BY <1>6, <1>12
  <2>2. PICK q \in g.L : g.level[q] = 0 /\ j \in DOMAIN ns[q].rids BY <2>1 DEF Filed
  <2>3. j \in DOMAIN ns2[q].rids BY <1>5, <1>8, <1>9, <2>1, <2>2
  <2> QED BY <2>2, <2>3
<1>13. Filed(ns2, root, g, W2, D) BY <1>10, <1>11, <1>12 DEF Filed
<1> QED BY <1>7, <1>13 DEF ns2, rids, W2

(* When an insertion failed, it is open only whether its own key is there. *)
LEMMA FiledDoubt ==
  ASSUME NEW ns, NEW root, NEW g, NEW W, NEW k,
         \/ Filed(ns, root, g, W, {})
         \/ \E rid : Filed(ns, root, g, With(W, k, rid), {})
  PROVE  Filed(ns, root, g, W, {k})
<1>1. CASE Filed(ns, root, g, W, {}) BY <1>1 DEF Filed
<1>2. ASSUME NEW rid, Filed(ns, root, g, With(W, k, rid), {}) PROVE Filed(ns, root, g, W, {k})
  <2> DEFINE W2 == With(W, k, rid)
  <2>1. /\ DOMAIN W2 = DOMAIN W \cup {k}
        /\ \A j \in DOMAIN W \cup {k} : W2[j] = IF j = k THEN rid ELSE W[j]
    BY DEF With
  <2>2. Filed(ns, root, g, W2, {}) BY <1>2
  <2> HIDE DEF W2
  <2> QED BY <2>1, <2>2 DEF Filed
<1> QED BY <1>1, <1>2

(* No leaf is empty but a root. *)
LEMMA NoneEmpty ==
  ASSUME NEW ns, NEW root, NEW g, Shape(ns, root, g), NEW W, NEW D, Filed(ns, root, g, W, D),
         NEW p \in g.L, p # root \/ g.left # 0, g.level[p] = 0 \/ g.level[root] > 0,
         NEW q \in g.L, g.level[q] = 0, q # p
  PROVE  DOMAIN ns[q].rids # {}
<1> SUFFICES ASSUME DOMAIN ns[q].rids = {} PROVE FALSE OBVIOUS
<1>1. q = root /\ g.left = 0 BY DEF Filed
<1>2. Typed(ns, g) /\ Rooted(root, g) /\ Halved(g) BY DEF Shape
<1>3. g.lo[root] = 0 /\ Known(g)[root] = 0 BY <1>2 DEF Rooted
<1>4. g.hi[root] = 0
  <2>1. g.right = 0 BY <1>1, <1>2 DEF Halved
  <2>2. root \in Nat BY <1>1, <1>2, TypesOf
  <2>3. Known(g)[root] = (IF root = g.left THEN g.hi[g.right] ELSE g.hi[root])
    BY <1>2, <2>2, TypesOf
  <2> QED BY <1>1, <1>3, <2>1, <2>3
<1>5. g.lo[p] \in Nat /\ Covers(g, p, g.lo[p]) BY CoversLo
<1>6. Covers(g, q, g.lo[p]) BY <1>1, <1>3, <1>4, <1>5 DEF Covers, Within
<1>7. g.level[p] = g.level[q] BY <1>1
<1> QED BY <1>5, <1>6, <1>7, SamePage

(* The same leaves, and the same in them. *)
SameLeaves(ns, g, ns2, g2) ==
  \A x : /\ (x \in g2.L /\ g2.level[x] = 0) <=> (x \in g.L /\ g.level[x] = 0)
         /\ x \in g.L /\ g.level[x] = 0 =>
              ns2[x] = ns[x] /\ g2.lo[x] = g.lo[x] /\ g2.hi[x] = g.hi[x]

(* What happens to routers does not change what the leaves hold. *)
LEMMA FiledSame ==
  ASSUME NEW ns, NEW root, NEW g, NEW W, NEW D, Filed(ns, root, g, W, D), g.left # 0,
         NEW ns2, NEW root2, NEW g2, SameLeaves(ns, g, ns2, g2)
  PROVE  Filed(ns2, root2, g2, W, D)
<1>1. ASSUME NEW p \in g2.L, g2.level[p] = 0
      PROVE  /\ p \in g.L /\ g.level[p] = 0 /\ ns2[p] = ns[p]
             /\ \A k : Covers(g2, p, k) <=> Covers(g, p, k)
  BY <1>1 DEF SameLeaves, Covers
<1>2. ASSUME NEW p \in g2.L, g2.level[p] = 0
      PROVE  /\ \A k \in DOMAIN ns2[p].rids :
                  Covers(g2, p, k) /\ (k \in D \/ (k \in DOMAIN W /\ W[k] = ns2[p].rids[k]))
             /\ DOMAIN ns2[p].rids = {} => p = root2 /\ g2.left = 0
  <2>1. p \in g.L /\ g.level[p] = 0 /\ ns2[p] = ns[p] /\ \A k : Covers(g2, p, k) <=> Covers(g, p, k)
    BY <1>1, <1>2
  <2> QED BY <2>1 DEF Filed
<1>3. ASSUME NEW k \in DOMAIN W \ D PROVE \E p \in g2.L : g2.level[p] = 0 /\ k \in DOMAIN ns2[p].rids
  <2>1. PICK p \in g.L : g.level[p] = 0 /\ k \in DOMAIN ns[p].rids BY DEF Filed
  <2>2. p \in g2.L /\ g2.level[p] = 0 /\ ns2[p] = ns[p] BY <2>1 DEF SameLeaves
  <2> QED BY <2>1, <2>2
<1> QED BY <1>2, <1>3 DEF Filed

-----------------------------------------------------------------------------
(* The pages from the root down to a key.  While a split is pending a key of the right
   half is looked for in the left one. *)

Inside(g, p, k) == g.lo[p] <= k /\ (g.left = 0 => Covers(g, p, k))

(* The child that Lookup finds is for the key, or left of the pending half that is. *)
LEMMA NextDown ==
  ASSUME NEW ns, NEW root, NEW g, Shape(ns, root, g), NEW p \in g.L, g.level[p] > 0,
         NEW k \in Nat, Inside(g, p, k)
  PROVE  \E j \in Slots(ns[p]) :
           /\ Lookup(ns[p], k) = Child(ns[p], j) /\ Child(ns[p], j) \in g.L
           /\ g.level[Child(ns[p], j)] + 1 = g.level[p] /\ Inside(g, Child(ns[p], j), k)
<1> DEFINE n == ns[p]
<1>1. Typed(ns, g) /\ Halved(g) BY DEF Shape
<1>2. n \in Routers /\ Good(n, g, g.level[p], g.lo[p], g.hi[p], Known(g)) BY BoundsGrow
<1>3. Ascending(n) BY Ascends
<1>4. PICK j \in Slots(n) : /\ j # 0 => n.entries[j].key <= k
                            /\ j # Len(n.entries) => k < n.entries[j + 1].key
  BY <1>2, SomeSlot
<1>5. Lookup(n, k) = Child(n, j)
  <2> HIDE DEF n
  <2> QED BY <1>2, <1>3, <1>4, LookupIs
<1>6. /\ Child(n, j) \in g.L /\ g.level[Child(n, j)] + 1 = g.level[p]
      /\ g.lo[Child(n, j)] = KeyAt(n, j, g.lo[p]) /\ Known(g)[Child(n, j)] = EndAt(n, j, g.hi[p])
  BY <1>2, <1>4 DEF Good
<1>7. g.lo[Child(n, j)] <= k BY <1>4, <1>6 DEF KeyAt, Inside
<1>8. g.left = 0 => g.hi[Child(n, j)] = Known(g)[Child(n, j)]
  <2>1. Child(n, j) \in Nat BY <1>1, <1>6, TypesOf
  <2>2. Known(g)[Child(n, j)] = (IF Child(n, j) = g.left THEN g.hi[g.right] ELSE g.hi[Child(n, j)])
    BY <1>1, <2>1, TypesOf
  <2> QED BY <1>1, <2>2 DEF Halved
<1>9. g.left = 0 => EndAt(n, j, g.hi[p]) = 0 \/ k < EndAt(n, j, g.hi[p])
  BY <1>4 DEF EndAt, Inside, Covers, Within
<1>10. Inside(g, Child(n, j), k) BY <1>6, <1>7, <1>8, <1>9 DEF Inside, Covers, Within
<1> QED BY <1>4, <1>5, <1>6, <1>10

(* A path from p down to the leaf of k. *)
IsPath(ns, g, k, p, path) ==
  /\ path \in Seq(Nat) /\ Len(path) = g.level[p] + 1 /\ path[1] = p
  /\ \A i \in 1..Len(path) :
       path[i] \in g.L /\ g.level[path[i]] = Len(path) - i /\ Inside(g, path[i], k)
  /\ \A i \in 1..(Len(path) - 1) : \E j \in Slots(ns[path[i]]) : path[i + 1] = Child(ns[path[i]], j)

(* A path with a page before it. *)
LEMMA OneLonger ==
  ASSUME NEW p \in Nat, NEW s \in Seq(Nat)
  PROVE  /\ <<p>> \o s \in Seq(Nat) /\ Len(<<p>> \o s) = Len(s) + 1 /\ (<<p>> \o s)[1] = p
         /\ \A i \in 1..Len(s) : (<<p>> \o s)[i + 1] = s[i]
<1>1. <<p>> \in Seq(Nat) /\ Len(<<p>>) = 1 /\ <<p>>[1] = p OBVIOUS
<1>2. Len(s) \in Nat BY LenProperties
<1> DEFINE r == <<p>> \o s
<1>3. /\ r \in Seq(Nat) /\ Len(r) = 1 + Len(s)
      /\ \A i \in 1..(1 + Len(s)) : r[i] = IF i <= 1 THEN <<p>>[i] ELSE s[i - 1]
  BY <1>1, ConcatProperties
<1> HIDE DEF r
<1>4. r[1] = p BY <1>1, <1>2, <1>3
<1>5. ASSUME NEW i \in 1..Len(s) PROVE r[i + 1] = s[i]
  <2>1. i + 1 \in 1..(1 + Len(s)) /\ ~(i + 1 <= 1) /\ (i + 1) - 1 = i BY <1>2
  <2> QED BY <1>3, <2>1
<1> QED BY <1>2, <1>3, <1>4, <1>5 DEF r

(* From any page that is for the key, the recursion ends in a leaf, a level lower at
   each step. *)
LEMMA PathDown ==
  ASSUME NEW ns, NEW root, NEW g, Shape(ns, root, g), NEW k \in Nat, NEW f,
         \A p \in g.L : f[p] = IF IsLeaf(ns[p]) THEN <<p>> ELSE <<p>> \o f[Lookup(ns[p], k)],
         NEW q \in g.L, Inside(g, q, k)
  PROVE  IsPath(ns, g, k, q, f[q])
<1>1. Typed(ns, g) BY DEF Shape
<1>2. g.L \subseteq DOMAIN ns /\ g.L \subseteq Nat /\ \A p \in Nat : g.level[p] \in Nat
  BY <1>1, TypesOf DEF Typed
<1> DEFINE S == {l \in Nat : \E p \in g.L : g.level[p] = l /\ Inside(g, p, k) /\ ~IsPath(ns, g, k, p, f[p])}
<1>3. S = {}
  <2> SUFFICES ASSUME S # {} PROVE FALSE OBVIOUS
  <2>1. S \subseteq Nat OBVIOUS
  <2>2. PICK l \in S : \A m \in S : l <= m
    <3> HIDE DEF S
    <3> QED BY <2>1, LeastExists
  <2>3. PICK p \in g.L : g.level[p] = l /\ Inside(g, p, k) /\ ~IsPath(ns, g, k, p, f[p]) BY <2>2
  <2>4. l \in Nat /\ p \in Nat /\ p \in DOMAIN ns BY <1>2, <2>2
  <2>5. CASE l = 0
    <3>1. f[p] = <<p>> BY <1>1, <2>3, <2>4, <2>5 DEF Typed
    <3>2. <<p>> \in Seq(Nat) /\ Len(<<p>>) = 1 /\ <<p>>[1] = p BY <2>4
    <3> DEFINE s == <<p>>
    <3> HIDE DEF s
    <3>3. IsPath(ns, g, k, p, s)
      <4>1. s \in Seq(Nat) /\ Len(s) = g.level[p] + 1 /\ s[1] = p BY <2>3, <2>5, <3>2 DEF s
      <4>2. Len(s) = 1 BY <3>2 DEF s
      <4>3. \A i \in 1..Len(s) : i = 1 BY <4>2
      <4>4. ASSUME NEW i \in 1..Len(s)
            PROVE  s[i] \in g.L /\ g.level[s[i]] = Len(s) - i /\ Inside(g, s[i], k)
        <5>1. i = 1 BY <4>3
        <5>2. g.level[s[i]] = 0 /\ Len(s) - i = 0 BY <2>3, <2>5, <4>1, <4>2, <5>1
        <5> QED BY <2>3, <4>1, <5>1, <5>2
      <4>5. 1..(Len(s) - 1) = {} BY <4>2
      <4> QED BY <4>1, <4>4, <4>5 DEF IsPath
    <3> QED BY <2>3, <3>1, <3>3 DEF s
  <2>6. CASE l > 0
    <3>1. PICK j \in Slots(ns[p]) :
            /\ Lookup(ns[p], k) = Child(ns[p], j) /\ Child(ns[p], j) \in g.L
            /\ g.level[Child(ns[p], j)] + 1 = g.level[p] /\ Inside(g, Child(ns[p], j), k)
      BY <2>3, <2>6, NextDown
    <3> DEFINE c == Child(ns[p], j)
               s == f[c]
               r == <<p>> \o s
    <3>2. c \in g.L /\ g.level[c] + 1 = l /\ Inside(g, c, k) /\ g.level[c] \in Nat BY <1>2, <2>3, <3>1
    <3>3. IsPath(ns, g, k, c, s)
      <4>1. ~(l <= g.level[c]) BY <2>4, <3>2
      <4>2. g.level[c] \notin S BY <2>2, <4>1
      <4> HIDE DEF c, s
      <4> QED BY <3>2, <4>2 DEF s
    <3>4. f[p] = r
      <4>1. ~IsLeaf(ns[p]) BY <1>1, <2>3, <2>4, <2>6 DEF Typed
      <4> QED BY <3>1, <4>1
    <3>5. s \in Seq(Nat) /\ Len(s) = l /\ s[1] = c
      <4>1. s \in Seq(Nat) /\ Len(s) = g.level[c] + 1 /\ s[1] = c BY <3>3 DEF IsPath
      <4> HIDE DEF c, s
      <4> QED BY <3>2, <4>1
    <3> HIDE DEF c, s
    <3>6. /\ r \in Seq(Nat) /\ Len(r) = l + 1 /\ r[1] = p
          /\ \A i \in 1..l : r[i + 1] = s[i]
      BY <2>4, <3>5, OneLonger
    <3> HIDE DEF r
    <3>7. ASSUME NEW i \in 1..Len(r)
          PROVE  r[i] \in g.L /\ g.level[r[i]] = Len(r) - i /\ Inside(g, r[i], k)
      <4>1. CASE i = 1
        <5>1. Len(r) - i = l BY <2>4, <3>6, <4>1
        <5> QED BY <2>3, <3>6, <4>1, <5>1
      <4>2. CASE i # 1
        <5>1. i - 1 \in 1..l /\ (i - 1) + 1 = i /\ i - 1 \in 1..Len(s) BY <2>4, <3>5, <3>6, <4>2
        <5>2. r[i] = s[i - 1] BY <3>6, <5>1
        <5>3. s[i - 1] \in g.L /\ g.level[s[i - 1]] = Len(s) - (i - 1) /\ Inside(g, s[i - 1], k)
          BY <3>3, <5>1 DEF IsPath
        <5>4. Len(s) - (i - 1) = Len(r) - i BY <2>4, <3>5, <3>6
        <5> QED BY <5>2, <5>3, <5>4
      <4> QED BY <4>1, <4>2
    <3>8. ASSUME NEW i \in 1..(Len(r) - 1)
          PROVE  \E m \in Slots(ns[r[i]]) : r[i + 1] = Child(ns[r[i]], m)
      <4>0. i \in 1..l BY <2>4, <3>6
      <4>1. CASE i = 1
        <5>1. r[i] = p /\ r[i + 1] = c BY <3>5, <3>6, <4>0, <4>1
        <5> QED BY <5>1 DEF c
      <4>2. CASE i # 1
        <5>1. i - 1 \in 1..l /\ (i - 1) + 1 = i /\ i - 1 \in 1..(Len(s) - 1) BY <2>4, <3>5, <4>0, <4>2
        <5>2. r[i] = s[i - 1] /\ r[i + 1] = s[(i - 1) + 1] BY SMTT(30), ZenonT(20), <3>6, <4>0, <5>1
        <5>3. \E m \in Slots(ns[s[i - 1]]) : s[(i - 1) + 1] = Child(ns[s[i - 1]], m)
          BY <3>3, <5>1 DEF IsPath
        <5> QED BY <5>2, <5>3
      <4> QED BY <4>1, <4>2
    <3>9. IsPath(ns, g, k, p, r)
      <4>1. Len(r) = g.level[p] + 1 BY <2>3, <3>6
      <4> QED BY <3>6, <3>7, <3>8, <4>1 DEF IsPath
    <3> QED BY <2>3, <3>4, <3>9
  <2> QED BY <2>4, <2>5, <2>6
<1>4. g.level[q] \in Nat BY <1>2
<1>5. g.level[q] \notin S BY <1>3
<1> QED BY <1>4, <1>5

(* Path ends in the leaf that is for the key. *)
LEMMA PathIs ==
  ASSUME NEW t, NEW g, Shape(t.nodes, t.root, g), NEW k \in Nat
  PROVE  IsPath(t.nodes, g, k, t.root, Path(t, k))
<1> DEFINE ns == t.nodes
           F(f, p) == IF IsLeaf(ns[p]) THEN <<p>> ELSE <<p>> \o f[Lookup(ns[p], k)]
           Is(f) == f = [p \in DOMAIN ns |-> F(f, p)]
           from == CHOOSE f : Is(f)
           S == {l \in Nat : \A f : DOMAIN f = DOMAIN ns =>
                                ~ \A p \in DOMAIN ns : g.level[p] <= l => f[p] = F(f, p)}
<1>1. Typed(ns, g) /\ Rooted(t.root, g) /\ Halved(g) BY DEF Shape
<1>2. /\ g.L \subseteq DOMAIN ns /\ \A p \in DOMAIN ns : p \in Nat /\ g.level[p] \in Nat
      /\ t.root \in g.L /\ g.level[t.root] \in Nat
  BY <1>1, TypesOf DEF Typed, Rooted
<1>3. ASSUME NEW p \in DOMAIN ns, g.level[p] > 0
      PROVE  /\ ~IsLeaf(ns[p]) /\ p \in g.L /\ g.level[p] <= g.level[t.root]
             /\ Lookup(ns[p], k) \in DOMAIN ns
             /\ g.level[Lookup(ns[p], k)] + 1 = g.level[p]
  <2>1. p \in g.L /\ ns[p] \in Routers BY <1>1, <1>3, RouterOf
  <2>2. ~IsLeaf(ns[p]) BY <2>1, RouterHas
  <2>3. g.level[p] <= g.level[t.root] BY <1>1, <2>1 DEF Rooted
  <2>4. Good(ns[p], g, g.level[p], g.lo[p], g.hi[p], Known(g)) BY <1>3, <2>1, BoundsGrow
  <2>5. Ascending(ns[p]) BY <1>3, <2>1, Ascends
  <2>6. PICK j \in Slots(ns[p]) : /\ j # 0 => ns[p].entries[j].key <= k
                                  /\ j # Len(ns[p].entries) => k < ns[p].entries[j + 1].key
    BY <2>1, SomeSlot
  <2>7. Lookup(ns[p], k) = Child(ns[p], j) BY <2>1, <2>5, <2>6, LookupIs
  <2>8. Child(ns[p], j) \in g.L /\ g.level[Child(ns[p], j)] + 1 = g.level[p] BY <2>4 DEF Good
  <2> QED BY <1>2, <2>1, <2>2, <2>3, <2>7, <2>8
<1>4. S = {}
  <2> SUFFICES ASSUME S # {} PROVE FALSE OBVIOUS
  <2>1. S \subseteq Nat OBVIOUS
  <2>2. PICK l \in S : \A m \in S : l <= m
    <3> HIDE DEF S
    <3> QED BY <2>1, LeastExists
  <2>3. l \in Nat BY <2>2
  <2>4. CASE l = 0
    <3> DEFINE f == [p \in DOMAIN ns |-> <<p>>]
    <3>1. ASSUME NEW p \in DOMAIN ns, g.level[p] <= l PROVE f[p] = F(f, p)
      <4>1. g.level[p] = 0 BY <1>2, <2>4, <3>1
      <4>2. IsLeaf(ns[p]) BY <1>1, <4>1 DEF Typed
      <4> QED BY <4>2
    <3>2. DOMAIN f = DOMAIN ns OBVIOUS
    <3> HIDE DEF f
    <3> QED BY <2>2, <3>1, <3>2
  <2>5. CASE l > 0
    <3>1. l - 1 \in Nat /\ ~(l <= l - 1) BY <2>3, <2>5
    <3>2. l - 1 \notin S BY <2>2, <3>1
    <3>3. PICK f : DOMAIN f = DOMAIN ns /\ \A p \in DOMAIN ns : g.level[p] <= l - 1 => f[p] = F(f, p)
      BY <3>1, <3>2
    <3> DEFINE h == [p \in DOMAIN ns |-> F(f, p)]
    <3>4. ASSUME NEW p \in DOMAIN ns, g.level[p] <= l PROVE h[p] = F(h, p)
      <4>1. CASE g.level[p] = 0
        <5>1. IsLeaf(ns[p]) BY <1>1, <4>1 DEF Typed
        <5> QED BY <5>1
      <4>2. CASE g.level[p] > 0
        <5> DEFINE c == Lookup(ns[p], k)
        <5>1. ~IsLeaf(ns[p]) /\ c \in DOMAIN ns /\ g.level[c] + 1 = g.level[p] BY <1>3, <4>2
        <5>2. g.level[c] <= l - 1 BY <1>2, <2>3, <3>4, <5>1
        <5>3. f[c] = F(f, c) BY <3>3, <5>1, <5>2
        <5>4. h[c] = F(f, c) BY <5>1
        <5>5. h[p] = <<p>> \o f[c] BY <5>1
        <5> QED BY <5>1, <5>3, <5>4, <5>5
      <4>3. g.level[p] \in Nat BY <1>2
      <4> QED BY <4>1, <4>2, <4>3
    <3>5. DOMAIN h = DOMAIN ns OBVIOUS
    <3> HIDE DEF h
    <3> QED BY <2>2, <3>4, <3>5
  <2> QED BY <2>3, <2>4, <2>5
<1>5. \E f : Is(f)
  <2>1. g.level[t.root] \notin S BY <1>4
  <2>2. PICK f : DOMAIN f = DOMAIN ns
                 /\ \A p \in DOMAIN ns : g.level[p] <= g.level[t.root] => f[p] = F(f, p)
    BY <1>2, <2>1
  <2>3. \A p \in DOMAIN ns : g.level[p] <= g.level[t.root] BY <1>2, <1>3
  <2> DEFINE h == [p \in DOMAIN ns |-> F(f, p)]
  <2>4. ASSUME NEW p \in DOMAIN ns PROVE F(f, p) = F(h, p)
    <3>1. CASE g.level[p] = 0
      <4>1. IsLeaf(ns[p]) BY <1>1, <3>1 DEF Typed
      <4> QED BY <4>1
    <3>2. CASE g.level[p] > 0
      <4> DEFINE c == Lookup(ns[p], k)
      <4>1. ~IsLeaf(ns[p]) /\ c \in DOMAIN ns BY <1>3, <3>2
      <4>2. f[c] = F(f, c) BY <2>2, <2>3, <4>1
      <4>3. h[c] = F(f, c) BY <4>1
      <4> QED BY <4>1, <4>2, <4>3
    <3> QED BY <1>2, <3>1, <3>2
  <2>5. h = [p \in DOMAIN ns |-> F(h, p)] BY <2>4
  <2> QED BY <2>5
<1>6. Is(from)
  <2> HIDE DEF Is
  <2> QED BY <1>5
<1>7. Path(t, k) = from[t.root] BY DEF Path
<1>8. \A p \in g.L : from[p] = IF IsLeaf(ns[p]) THEN <<p>> ELSE <<p>> \o from[Lookup(ns[p], k)]
  <2> HIDE DEF from
  <2> QED BY <1>2, <1>6
<1>9. Inside(g, t.root, k)
  <2>1. g.lo[t.root] = 0 /\ Known(g)[t.root] = 0 /\ t.root \in Nat BY <1>1, <1>2 DEF Rooted
  <2>2. Known(g)[t.root] = (IF t.root = g.left THEN g.hi[g.right] ELSE g.hi[t.root])
    BY <1>1, <2>1, TypesOf
  <2>3. g.left = 0 => g.hi[t.root] = 0 BY <1>1, <2>1, <2>2 DEF Halved
  <2> QED BY <2>1, <2>3 DEF Inside, Covers, Within
<1> HIDE DEF from, Is, F, S
<1> QED BY <1>2, <1>7, <1>8, <1>9, PathDown

-----------------------------------------------------------------------------
(* Insertion.  On the way up the split is at the i-th page of the path, and the pages
   above are as they were; it ends in a tree again, or in one that lacks a router's
   entry and is right but for k. *)

States == [nodes : Seq(Nodes), root : Nat, pages : Nat, failed : BOOLEAN, up : BOOLEAN,
           key : Nat, left : Nat, right : Nat]

Climbing(st, g, ns, path, i, W) ==
  /\ st \in States /\ st.up /\ ~st.failed /\ st.root = path[1]
  /\ Shape(st.nodes, st.root, g) /\ Filed(st.nodes, st.root, g, W, {})
  /\ g.left = path[i] /\ g.left # 0
  /\ st.left = g.left /\ st.right = g.right /\ st.key = g.lo[g.right]
  /\ \A j \in 1..(i - 1) : path[j] \in g.L /\ g.level[path[j]] = Len(path) - j
                           /\ st.nodes[path[j]] = ns[path[j]]

Ended(st, W, k, rid) ==
  /\ st \in States /\ ~st.up
  /\ \E g : /\ Shape(st.nodes, st.root, g)
            /\ IF st.failed THEN Filed(st.nodes, st.root, g, W, {k})
               ELSE g.left = 0 /\ Filed(st.nodes, st.root, g, With(W, k, rid), {})

(* A split of the root ends in a new root, or fails for want of a page. *)
LEMMA RootEnds ==
  ASSUME BTreeAssumption, NEW st \in States, NEW g, Shape(st.nodes, st.root, g), ~st.failed,
         g.left = st.root, st.left = g.left, st.right = g.right, st.key = g.lo[g.right],
         NEW W, NEW k, NEW rid, Filed(st.nodes, st.root, g, With(W, k, rid), {})
  PROVE  Ended(CreateNewRoot(st), W, k, rid)
<1> DEFINE ns == st.nodes
           root == st.root
           W2 == With(W, k, rid)
           q == NewPageID(ns)
           n == Router(g.left, <<Entry(g.lo[g.right], g.right)>>)
           g2 == [L |-> g.L \cup {q}, level |-> [g.level EXCEPT ![q] = g.level[root] + 1],
                  lo |-> [g.lo EXCEPT ![q] = 0], hi |-> [g.hi EXCEPT ![q] = 0], pos |-> g.pos,
                  left |-> 0, right |-> 0]
           ns2 == NewPage(ns, n)
<1>1. Typed(ns, g) /\ Rooted(root, g) BY DEF Shape
<1>2. /\ ns \in Seq(Nodes) /\ root \in Nat /\ st.pages \in Nat /\ g.left # 0 /\ g \in Ghosts
      /\ g.L \subseteq Nat /\ g.L \subseteq DOMAIN ns /\ DOMAIN ns = 1..Len(ns) /\ Len(ns) \in Nat
      /\ g.level[root] \in Nat /\ root \in g.L
  <2>1. ns \in Seq(Nodes) /\ root \in Nat /\ st.pages \in Nat BY DEF States
  <2>2. g \in Ghosts /\ g.L \subseteq Nat /\ g.level[root] \in Nat /\ DOMAIN ns = 1..Len(ns) /\ Len(ns) \in Nat
    BY <1>1, <2>1, TypesOf
  <2>3. g.L \subseteq DOMAIN ns /\ root \in g.L BY <1>1 DEF Typed, Rooted
  <2>4. root # 0 BY <2>2, <2>3
  <2> QED BY <2>1, <2>2, <2>3, <2>4
<1>3. CASE st.pages = 0
  <2> DEFINE e == [st EXCEPT !.failed = TRUE, !.up = FALSE]
  <2>1. e \in States /\ ~e.up /\ e.failed /\ e.nodes = ns /\ e.root = root BY DEF States
  <2>2. Filed(ns, root, g, W, {k}) BY FiledDoubt
  <2>3. CreateNewRoot(st) = e BY <1>3 DEF CreateNewRoot
  <2> HIDE DEF e
  <2> QED BY <2>1, <2>2, <2>3 DEF Ended
<1>4. CASE st.pages # 0
  <2>1. Shape(ns2, q, g2) BY RootKeeps
  <2>2. Typed(ns2, g2) BY <2>1 DEF Shape
  <2>3. ns2 \in Seq(Nodes) BY <2>2 DEF Typed
  <2>4. q = Len(ns) + 1 BY DEF NewPageID
  <2> HIDE DEF q, n
  <2>5. q \in Nat /\ q \notin DOMAIN ns BY <1>2, <2>4
  <2>6. \A x \in DOMAIN ns : ns2[x] = ns[x]
    <3>1. ns2 = Append(ns, n) BY DEF NewPage
    <3> HIDE DEF ns2
    <3> QED BY <1>2, <3>1
  <2> HIDE DEF ns2
  <2>7. /\ g2.L = g.L \cup {q} /\ g2.left = 0
        /\ \A x \in Nat : /\ g2.level[x] = IF x = q THEN g.level[root] + 1 ELSE g.level[x]
                          /\ x # q => g2.lo[x] = g.lo[x] /\ g2.hi[x] = g.hi[x]
    BY <1>2, <2>5 DEF Ghosts
  <2> HIDE DEF g2
  <2>8. SameLeaves(ns, g, ns2, g2)
    <3> SUFFICES ASSUME NEW x
                 PROVE  /\ (x \in g2.L /\ g2.level[x] = 0) <=> (x \in g.L /\ g.level[x] = 0)
                        /\ x \in g.L /\ g.level[x] = 0 =>
                             ns2[x] = ns[x] /\ g2.lo[x] = g.lo[x] /\ g2.hi[x] = g.hi[x]
      BY DEF SameLeaves
    <3>1. CASE x = q
      <4>1. g2.level[x] # 0 /\ x \notin g.L BY <1>2, <2>5, <2>7, <3>1
      <4> QED BY <4>1
    <3>2. CASE x # q
      <4>1. x \in g2.L <=> x \in g.L BY <2>7, <3>2
      <4>2. x \in g.L => x \in Nat /\ x \in DOMAIN ns BY <1>2
      <4> QED BY <2>6, <2>7, <3>2, <4>1, <4>2
    <3> QED BY <3>1, <3>2
  <2>9. Filed(ns2, q, g2, W2, {})
    <3> HIDE DEF W2
    <3> QED BY <1>2, <2>8, FiledSame DEF W2
  <2> DEFINE e == CreateNewRoot(st)
  <2>10. e = [st EXCEPT !.nodes = ns2, !.root = q, !.up = FALSE, !.pages = st.pages - 1]
    BY <1>4 DEF CreateNewRoot, ns2, q, n
  <2>11. st.pages - 1 \in Nat BY <1>2, <1>4
  <2>12. e \in States /\ ~e.up /\ ~e.failed /\ e.nodes = ns2 /\ e.root = q
    <3> HIDE DEF e
    <3> QED BY <2>3, <2>5, <2>10, <2>11 DEF States
  <2> HIDE DEF e
  <2> QED BY <2>1, <2>7, <2>9, <2>12 DEF Ended, e, W2
<1> QED BY <1>3, <1>4

(* A step of the way up: the router takes the right half, or is split itself, or there
   is no page left. *)
LEMMA UpStep ==
  ASSUME BTreeAssumption, NEW ns, NEW path \in Seq(Nat), NEW i \in 1..(Len(path) - 1), NEW st, NEW g,
         NEW W, NEW k, NEW rid, Climbing(st, g, ns, path, i + 1, With(W, k, rid)),
         NEW j \in Slots(ns[path[i]]), path[i + 1] = Child(ns[path[i]], j)
  PROVE  LET e == InsertIntoParent(path[i], st)
         IN  \/ Ended(e, W, k, rid)
             \/ i # 1 /\ \E g2 : Climbing(e, g2, ns, path, i, With(W, k, rid))
<1> DEFINE p == path[i]
           n == st.nodes[p]
           W2 == With(W, k, rid)
           e == InsertIntoParent(p, st)
<1>1. /\ st \in States /\ st.up /\ ~st.failed /\ st.root = path[1]
      /\ Shape(st.nodes, st.root, g) /\ Filed(st.nodes, st.root, g, W2, {})
      /\ g.left = path[i + 1] /\ g.left # 0
      /\ st.left = g.left /\ st.right = g.right /\ st.key = g.lo[g.right]
  BY DEF Climbing
<1>2. Len(path) \in Nat /\ i \in Nat /\ i \in 1..((i + 1) - 1) /\ p \in Nat
  <2>1. Len(path) \in Nat BY LenProperties
  <2>2. i \in 1..Len(path) /\ i \in Nat /\ i \in 1..((i + 1) - 1) BY <2>1
  <2>3. p \in Nat BY <2>1, <2>2, ElementOfSeq
  <2> QED BY <2>1, <2>2, <2>3
<1>3. \A l \in 1..i : path[l] \in g.L /\ g.level[path[l]] = Len(path) - l /\ st.nodes[path[l]] = ns[path[l]]
  BY <1>2 DEF Climbing
<1>4. p \in g.L /\ g.level[p] > 0 /\ n = ns[p] /\ g.level[p] = Len(path) - i
  <2>1. p \in g.L /\ g.level[p] = Len(path) - i /\ n = ns[p] BY SMTT(30), ZenonT(20), <1>2, <1>3
  <2> QED BY <1>2, <2>1
<1>5. OverSplit(st.nodes, g, p, j) BY <1>1, <1>4 DEF OverSplit
<1>6. Typed(st.nodes, g) BY <1>1 DEF Shape
<1>7. /\ p \in DOMAIN st.nodes /\ g.L \subseteq DOMAIN st.nodes /\ g.L \subseteq Nat
      /\ st.nodes \in Seq(Nodes) /\ st.pages \in Nat /\ g \in Ghosts
      /\ DOMAIN st.nodes = 1..Len(st.nodes) /\ Len(st.nodes) \in Nat
  BY <1>1, <1>4, <1>6, TypesOf DEF Typed, States
<1>8. n \in Routers /\ Len(n.entries) <= MaxInternalKeys BY <1>4, <1>6, <1>7, RouterOf
<1>9. Len(n.entries) \in Nat BY <1>8, RouterHas
<1>a. CASE Len(n.entries) < MaxInternalKeys
  <2> DEFINE ns2 == [st.nodes EXCEPT ![p] = AddEntry(n, g.lo[g.right], g.right)]
             g2 == [L |-> g.L, level |-> g.level, lo |-> g.lo, hi |-> g.hi, pos |-> g.pos,
                    left |-> 0, right |-> 0]
  <2>1. Shape(ns2, st.root, g2) BY <1>1, <1>5, <1>a, AddKeeps
  <2>2. ns2 \in Seq(Nodes)
    <3>1. Typed(ns2, g2) BY <2>1 DEF Shape
    <3> QED BY <3>1 DEF Typed
  <2>3. SameLeaves(st.nodes, g, ns2, g2)
    <3>1. \A x \in g.L : x # p => ns2[x] = st.nodes[x] BY <1>7
    <3>2. g.level[p] # 0 BY <1>2, <1>4
    <3>3. g2.L = g.L /\ g2.level = g.level /\ g2.lo = g.lo /\ g2.hi = g.hi OBVIOUS
    <3> HIDE DEF ns2, g2
    <3> QED BY <3>1, <3>2, <3>3 DEF SameLeaves
  <2>4. g2.left = 0 OBVIOUS
  <2> HIDE DEF g2
  <2>5. Filed(ns2, st.root, g2, W2, {})
    <3> HIDE DEF ns2, W2
    <3> QED BY <1>1, <2>3, FiledSame
  <2>6. e = [st EXCEPT !.nodes = ns2, !.up = FALSE]
    BY <1>1, <1>a DEF InsertIntoParent
  <2>7. e \in States /\ ~e.up /\ ~e.failed /\ e.nodes = ns2 /\ e.root = st.root
    <3> HIDE DEF e, ns2
    <3> QED BY <1>1, <2>2, <2>6 DEF States
  <2> HIDE DEF e, ns2
  <2>8. Ended(e, W, k, rid) BY <2>1, <2>4, <2>5, <2>7 DEF Ended, W2
  <2> QED BY <2>8 DEF e
<1>b. CASE ~(Len(n.entries) < MaxInternalKeys) /\ st.pages = 0
  <2>1. e = [st EXCEPT !.failed = TRUE, !.up = FALSE] BY <1>1, <1>b DEF InsertIntoParent
  <2>2. e \in States /\ ~e.up /\ e.failed /\ e.nodes = st.nodes /\ e.root = st.root
    <3> HIDE DEF e
    <3> QED BY <1>1, <2>1 DEF States
  <2>3. Filed(st.nodes, st.root, g, W, {k}) BY <1>1, FiledDoubt
  <2> HIDE DEF e
  <2>4. Ended(e, W, k, rid) BY <1>1, <2>2, <2>3 DEF Ended
  <2> QED BY <2>4 DEF e
<1>c. CASE ~(Len(n.entries) < MaxInternalKeys) /\ st.pages # 0
  <2>1. Len(n.entries) = MaxInternalKeys BY <1>8, <1>9, <1>c DEF BTreeAssumption
  <2> DEFINE two == Halves(n, g.lo[g.right], g.right)
             q == NewPageID(st.nodes)
             ns2 == NewPage([st.nodes EXCEPT ![p] = two.lower], two.upper)
             g2 == Cut(g, p, q, two.key)
             sp == [st EXCEPT !.nodes = ns2, !.pages = st.pages - 1,
                              !.key = two.key, !.left = p, !.right = q]
  <2>2. Shape(ns2, st.root, g2) BY <1>1, <1>5, <2>1, SplitKeeps
  <2>3. e = IF p = st.root THEN CreateNewRoot(sp) ELSE sp
    BY <1>1, <1>c DEF InsertIntoParent, Halves
  <2>4. /\ two.key \in Nat /\ two.lower \in Routers /\ two.upper \in Routers
    BY <1>1, <1>5, <2>1, HalvesGood
  <2>5. q = Len(st.nodes) + 1 BY DEF NewPageID
  <2> HIDE DEF two, q
  <2>6. q \in Nat /\ q \notin DOMAIN st.nodes /\ q # 0 BY <1>7, <2>5
  <2>7. /\ g2.L = g.L \cup {q} /\ g2.left = p /\ g2.right = q /\ p # q
        /\ \A x \in Nat : g2.level[x] = IF x = q THEN g.level[p] ELSE g.level[x]
        /\ \A x \in Nat : g2.lo[x] = IF x = q THEN two.key ELSE g.lo[x]
        /\ \A x \in Nat : g2.hi[x] = IF x = q THEN g.hi[p] ELSE IF x = p THEN two.key ELSE g.hi[x]
        /\ \A x \in g.L : x \in Nat /\ x # q /\ x \in DOMAIN st.nodes
    <3> DEFINE kk == two.key
    <3>1. kk \in Nat BY <2>4
    <3>2. g2 = Cut(g, p, q, kk) OBVIOUS
    <3>3. two.key = kk OBVIOUS
    <3> HIDE DEF p, g2, kk, n, W2, e, ns2, sp
    <3>4. Shape(st.nodes, st.root, g) /\ p \in g.L BY <1>1, <1>4
    <3> QED BY <2>6, <3>1, <3>2, <3>3, <3>4, CutIs
  <2> HIDE DEF g2
  <2>8. ns2 \in Seq(Nodes) /\ \A x \in DOMAIN st.nodes : x # p => ns2[x] = st.nodes[x]
    <3> DEFINE ns1 == [st.nodes EXCEPT ![p] = two.lower]
    <3>1. two.lower \in Nodes /\ two.upper \in Nodes BY <2>4 DEF Nodes
    <3>2. /\ ns1 \in Seq(Nodes) /\ DOMAIN ns1 = DOMAIN st.nodes
          /\ \A x \in DOMAIN st.nodes : ns1[x] = IF x = p THEN two.lower ELSE st.nodes[x]
      BY <1>7, <3>1, PutPage
    <3> HIDE DEF ns1
    <3>3. NewPage(ns1, two.upper) \in Seq(Nodes) /\ \A x \in DOMAIN ns1 : NewPage(ns1, two.upper)[x] = ns1[x]
      BY <3>1, <3>2, AddPage
    <3> QED BY <3>2, <3>3 DEF ns1
  <2> HIDE DEF ns2
  <2>9. SameLeaves(st.nodes, g, ns2, g2)
    <3> SUFFICES ASSUME NEW x
                 PROVE  /\ (x \in g2.L /\ g2.level[x] = 0) <=> (x \in g.L /\ g.level[x] = 0)
                        /\ x \in g.L /\ g.level[x] = 0 =>
                             ns2[x] = st.nodes[x] /\ g2.lo[x] = g.lo[x] /\ g2.hi[x] = g.hi[x]
      BY DEF SameLeaves
    <3>0. g.level[p] # 0 BY <1>2, <1>4
    <3>1. CASE x = q
      <4>1. g2.level[x] # 0 /\ x \notin g.L BY <2>6, <2>7, <3>0, <3>1
      <4> QED BY <4>1
    <3>2. CASE x # q
      <4>1. x \in g2.L <=> x \in g.L BY <2>7, <3>2
      <4>2. x \in g.L /\ g.level[x] = 0 => x # p BY <3>0
      <4>3. x \in g.L => g2.level[x] = g.level[x] BY <2>7, <3>2
      <4> HIDE DEF p
      <4> QED BY <2>7, <2>8, <3>2, <4>1, <4>2, <4>3
    <3> QED BY <3>1, <3>2
  <2>10. Filed(ns2, st.root, g2, W2, {})
    <3> HIDE DEF W2
    <3> QED BY <1>1, <2>9, FiledSame
  <2>11. /\ sp \in States /\ sp.nodes = ns2 /\ sp.root = st.root /\ sp.up = st.up /\ sp.failed = st.failed
         /\ sp.left = p /\ sp.right = q /\ sp.key = two.key
    <3>1. st.pages - 1 \in Nat BY <1>7, <1>c
    <3> QED BY <1>1, <1>2, <2>4, <2>6, <2>8, <3>1 DEF States
  <2> HIDE DEF sp
  <2>12. g2.lo[g2.right] = two.key BY <2>6, <2>7
  <2>13. CASE p = st.root
    <3>1. Ended(CreateNewRoot(sp), W, k, rid)
      <4> HIDE DEF p
      <4>1. Shape(sp.nodes, sp.root, g2) /\ ~sp.failed /\ g2.left = sp.root BY <1>1, <2>2, <2>7, <2>11, <2>13
      <4>2. sp.left = g2.left /\ sp.right = g2.right /\ sp.key = g2.lo[g2.right] BY <2>7, <2>11, <2>12
      <4>3. Filed(sp.nodes, sp.root, g2, With(W, k, rid), {}) BY <2>10, <2>11
      <4> QED BY <2>11, <4>1, <4>2, <4>3, RootEnds
    <3> QED BY <2>3, <2>13, <3>1
  <2>14. CASE p # st.root
    <3>1. i # 1 BY <1>1, <2>14
    <3>2. ASSUME NEW l \in 1..(i - 1)
          PROVE  path[l] \in g2.L /\ g2.level[path[l]] = Len(path) - l /\ sp.nodes[path[l]] = ns[path[l]]
      <4>1. l \in 1..i /\ l # i /\ Len(path) - l # Len(path) - i BY <1>2
      <4>2. path[l] \in g.L /\ g.level[path[l]] = Len(path) - l /\ st.nodes[path[l]] = ns[path[l]]
        BY <1>3, <4>1
      <4>3. path[l] # p BY <1>4, <4>1, <4>2
      <4>4. path[l] \in Nat /\ path[l] # q /\ path[l] \in DOMAIN st.nodes BY <2>7, <4>2
      <4>5. ns2[path[l]] = st.nodes[path[l]] BY <2>8, <4>3, <4>4
      <4> QED BY <2>7, <2>11, <4>2, <4>4, <4>5
    <3>3. p # 0
      <4>1. p \in 1..Len(st.nodes) BY <1>7
      <4> HIDE DEF p
      <4> QED BY <1>7, <4>1
    <3>4. Climbing(sp, g2, ns, path, i, W2)
      <4>1. sp \in States /\ sp.up /\ ~sp.failed /\ sp.root = path[1] BY <1>1, <2>11
      <4>2. Shape(sp.nodes, sp.root, g2) /\ Filed(sp.nodes, sp.root, g2, W2, {}) BY <2>2, <2>10, <2>11
      <4>3. /\ g2.left = path[i] /\ g2.left # 0
            /\ sp.left = g2.left /\ sp.right = g2.right /\ sp.key = g2.lo[g2.right]
        BY <2>7, <2>11, <2>12, <3>3
      <4> HIDE DEF p
      <4> QED BY <3>2, <4>1, <4>2, <4>3 DEF Climbing
    <3> QED BY <2>3, <2>14, <3>1, <3>4
  <2> QED BY <2>13, <2>14
<1> QED BY <1>a, <1>b, <1>c

(* The split of a full leaf, with the record in one of the halves. *)
Begun(t, id, k, rid, pages) ==
  LET st == [nodes |-> t.nodes, root |-> t.root, pages |-> pages, failed |-> FALSE,
             up |-> FALSE, key |-> k, left |-> id, right |-> NewPageID(t.nodes)]
      halves == SplitLeaf(t.nodes, id)
      splitKey == FirstKey(halves[st.right])
  IN  [st EXCEPT
        !.nodes = [halves EXCEPT ![IF k < splitKey THEN id ELSE st.right].rids = With(@, k, rid)],
        !.pages = @ - 1, !.up = TRUE, !.key = splitKey]

(* A leaf with other entries keeps its next page. *)
LEMMA WithRids ==
  ASSUME NEW n \in Leaves, NEW rids PROVE [n EXCEPT !.rids = rids] = Leaf(rids, n.next)
BY DEF Leaves, Leaf

(* A full leaf of a tree is split: the halves are a pending split, and hold what it
   held. *)
LEMMA CutFiled ==
  ASSUME BTreeAssumption, NEW ns, NEW root, NEW g, Shape(ns, root, g), g.left = 0,
         NEW W, Filed(ns, root, g, W, {}), NEW p \in g.L, g.level[p] = 0, Count(ns[p]) >= MaxLeafEntries
  PROVE  LET ns2 == SplitLeaf(ns, p)
             q == NewPageID(ns)
             c == FirstKey(ns2[q])
         IN  /\ c \in Nat /\ q \in Nat /\ q \notin DOMAIN ns /\ q # 0
             /\ g.lo[p] < c /\ (g.hi[p] = 0 \/ c < g.hi[p])
             /\ Shape(ns2, root, Cut(g, p, q, c)) /\ Filed(ns2, root, Cut(g, p, q, c), W, {})
             /\ \A x \in DOMAIN ns : x # p => ns2[x] = ns[x]
<1> DEFINE rids == ns[p].rids
           m == MaxLeafEntries \div 2
           lower == Lower(rids, m)
           upper == Without(rids, DOMAIN lower)
           q == NewPageID(ns)
           c == Min(DOMAIN upper)
           ns2 == NewPage([ns EXCEPT ![p] = Leaf(lower, q)], Leaf(upper, ns[p].next))
           g2 == Cut(g, p, q, c)
<1>1. Typed(ns, g) BY DEF Shape
<1>2. /\ p \in DOMAIN ns /\ g.L \subseteq DOMAIN ns /\ p \in Nat /\ g.L \subseteq Nat
      /\ \A x \in Nat : g.lo[x] \in Nat /\ g.hi[x] \in Nat
  BY <1>1, TypesOf DEF Typed
<1>3. ns[p] \in Leaves BY <1>1, <1>2, LeafOf
<1>4. rids \in Maps /\ ns[p].next \in Nat BY <1>3, LeafHas
<1>5. m \in Nat /\ m >= 1 /\ m < MaxLeafEntries
  <2>1. MaxLeafEntries \in Nat /\ MaxLeafEntries >= 4 BY DEF BTreeAssumption
  <2> QED BY <2>1
<1>d. DOMAIN rids \subseteq Nat /\ IsFiniteSet(DOMAIN rids) BY <1>3, LeafHas
<1>6. Cardinality(DOMAIN rids) > m
  <2>1. Cardinality(DOMAIN rids) \in Nat BY <1>d, FS_CardinalityType
  <2>2. Cardinality(DOMAIN rids) >= MaxLeafEntries BY DEF Count
  <2>3. MaxLeafEntries \in Nat BY DEF BTreeAssumption
  <2> HIDE DEF m, rids
  <2> QED BY <1>5, <2>1, <2>2, <2>3
<1>7. /\ lower \in Maps /\ upper \in Maps
      /\ DOMAIN lower \subseteq DOMAIN rids /\ DOMAIN upper = DOMAIN rids \ DOMAIN lower
      /\ DOMAIN lower # {} /\ DOMAIN upper # {}
      /\ \A x \in DOMAIN lower, y \in DOMAIN upper : x < y
      /\ \A x \in DOMAIN lower : lower[x] = rids[x]
      /\ \A x \in DOMAIN upper : upper[x] = rids[x]
  <2> HIDE DEF rids, m
  <2> QED BY <1>4, <1>5, <1>6, LowerIs
<1> HIDE DEF lower, upper, m
<1>8. c \in DOMAIN upper /\ (\A y \in DOMAIN upper : c <= y) /\ c \in Nat
  <2>1. DOMAIN upper \subseteq Nat BY <1>7, <1>d
  <2> QED BY <1>7, <2>1, MinIs
<1> HIDE DEF c
<1>9. \A x \in DOMAIN rids : Covers(g, p, x) /\ x \in Nat /\ W[x] = rids[x] /\ x \in DOMAIN W
  BY <1>d DEF Filed
<1>10. g.lo[p] < c /\ (g.hi[p] = 0 \/ c < g.hi[p])
  <2>1. PICK x \in DOMAIN lower : TRUE BY <1>7
  <2>2. x < c /\ g.lo[p] <= x /\ x \in Nat /\ x \in DOMAIN rids BY <1>7, <1>8, <1>9, <2>1 DEF Covers, Within
  <2>3. c \in DOMAIN rids BY <1>7, <1>8
  <2> QED BY <1>2, <1>8, <1>9, <2>2, <2>3 DEF Covers, Within
<1>11. /\ Shape(ns2, root, g2)
       /\ DOMAIN ns2 = DOMAIN ns \cup {q} /\ q \notin DOMAIN ns /\ q \in Nat /\ q # 0
       /\ ns2[q] = Leaf(upper, ns[p].next)
       /\ \A x \in DOMAIN ns : ns2[x] = IF x = p THEN Leaf(lower, q) ELSE ns[x]
  <2>1. lower \in Maps /\ upper \in Maps /\ c \in Nat BY <1>7, <1>8
  <2>2. LeafCut(ns, root, g, p, lower, upper, c, q, ns2)
    <3> HIDE DEF rids
    <3> QED BY <1>10, <2>1, LeafSplitKeeps
  <2> HIDE DEF q, ns2
  <2> QED BY <2>2 DEF LeafCut
<1> HIDE DEF q, ns2
<1>12. ns2[q].rids = upper /\ ns2[p].rids = lower
  <2>1. Leaf(upper, ns[p].next).rids = upper /\ Leaf(lower, q).rids = lower
    BY <1>4, <1>7, <1>11, LeafFrom
  <2> QED BY <1>2, <1>11, <2>1
<1>13. /\ g2.L = g.L \cup {q} /\ p # q
       /\ \A x \in Nat : g2.level[x] = IF x = q THEN g.level[p] ELSE g.level[x]
       /\ \A x \in Nat : g2.lo[x] = IF x = q THEN c ELSE g.lo[x]
       /\ \A x \in Nat : g2.hi[x] = IF x = q THEN g.hi[p] ELSE IF x = p THEN c ELSE g.hi[x]
       /\ \A x \in g.L : x \in Nat /\ x # q /\ x \in DOMAIN ns
  <2> HIDE DEF g2
  <2> QED BY <1>8, <1>11, CutIs DEF g2
<1> HIDE DEF g2
<1>14. ASSUME NEW x \in g2.L, g2.level[x] = 0, x # p, x # q
       PROVE  x \in g.L /\ g.level[x] = 0 /\ ns2[x] = ns[x] /\ \A k : Covers(g2, x, k) <=> Covers(g, x, k)
  <2>1. x \in g.L /\ x \in Nat /\ x \in DOMAIN ns BY <1>13, <1>14
  <2>2. g2.lo[x] = g.lo[x] /\ g2.hi[x] = g.hi[x] /\ g2.level[x] = g.level[x] BY <1>13, <1>14, <2>1
  <2> QED BY <1>11, <1>14, <2>1, <2>2 DEF Covers
<1>15. ASSUME NEW x \in g2.L, g2.level[x] = 0, NEW k \in DOMAIN ns2[x].rids
       PROVE  /\ Covers(g2, x, k)
              /\ \E y \in g.L : g.level[y] = 0 /\ k \in DOMAIN ns[y].rids /\ ns2[x].rids[k] = ns[y].rids[k]
  <2>1. CASE x = q
    <3>1. k \in DOMAIN upper /\ k \in DOMAIN rids /\ upper[k] = rids[k] /\ c <= k
      BY <1>7, <1>8, <1>12, <1>15, <2>1
    <3>2. g2.lo[x] = c /\ g2.hi[x] = g.hi[p] BY <1>11, <1>13, <2>1
    <3>3. Covers(g2, x, k) BY <1>9, <3>1, <3>2 DEF Covers, Within
    <3> QED BY <1>12, <2>1, <3>1, <3>3
  <2>2. CASE x = p
    <3>1. k \in DOMAIN lower /\ k \in DOMAIN rids /\ lower[k] = rids[k] /\ k < c
      BY <1>7, <1>8, <1>12, <1>15, <2>2
    <3>2. g2.lo[x] = g.lo[p] /\ g2.hi[x] = c BY <1>2, <1>13, <2>2
    <3>3. Covers(g2, x, k) BY <1>9, <3>1, <3>2 DEF Covers, Within
    <3> QED BY <1>12, <2>2, <3>1, <3>3
  <2>3. CASE x # p /\ x # q
    <3>1. x \in g.L /\ g.level[x] = 0 /\ ns2[x] = ns[x] /\ (Covers(g2, x, k) <=> Covers(g, x, k))
      BY <1>14, <1>15, <2>3
    <3>2. Covers(g, x, k) BY <1>15, <3>1 DEF Filed
    <3> QED BY <1>15, <3>1, <3>2
  <2> QED BY <2>1, <2>2, <2>3
<1>16. ASSUME NEW y \in g.L, g.level[y] = 0, NEW k \in DOMAIN ns[y].rids
       PROVE  \E x \in g2.L : g2.level[x] = 0 /\ k \in DOMAIN ns2[x].rids
  <2>1. CASE y = p
    <3>1. k \in DOMAIN lower \/ k \in DOMAIN upper BY <1>7, <1>16, <2>1
    <3>2. p \in g2.L /\ q \in g2.L /\ g2.level[p] = 0 /\ g2.level[q] = 0 BY <1>2, <1>11, <1>13
    <3> QED BY <1>12, <3>1, <3>2
  <2>2. CASE y # p
    <3>1. y \in g2.L /\ g2.level[y] = 0 /\ ns2[y] = ns[y] BY <1>11, <1>13, <1>16, <2>2
    <3> QED BY <1>16, <3>1
  <2> QED BY <2>1, <2>2
<1>17. Keeps(ns, g, ns2, g2) BY <1>15, <1>16 DEF Keeps
<1>18. ASSUME NEW x \in g2.L, g2.level[x] = 0 PROVE DOMAIN ns2[x].rids # {}
  <2>1. CASE x = q BY <1>7, <1>12, <2>1
  <2>2. CASE x = p BY <1>7, <1>12, <2>2
  <2>3. CASE x # p /\ x # q
    <3>1. x \in g.L /\ g.level[x] = 0 /\ ns2[x] = ns[x] BY <1>14, <1>18, <2>3
    <3>2. p # root
      <4> SUFFICES ASSUME p = root PROVE FALSE OBVIOUS
      <4>1. Rooted(root, g) /\ Halved(g) BY DEF Shape
      <4>2. g.lo[p] = 0 /\ Known(g)[p] = 0 BY <4>1 DEF Rooted
      <4>3. Known(g)[p] = (IF p = g.left THEN g.hi[g.right] ELSE g.hi[p]) BY <1>1, <1>2, TypesOf
      <4>4. g.hi[p] = 0 BY <4>1, <4>2, <4>3 DEF Halved
      <4>5. Covers(g, x, g.lo[x]) /\ g.lo[x] \in Nat BY <3>1, CoversLo
      <4>6. Covers(g, p, g.lo[x]) BY <4>2, <4>4, <4>5 DEF Covers, Within
      <4> QED BY <2>3, <3>1, <4>5, <4>6, SamePage
    <3>3. DOMAIN ns[x].rids # {} BY <2>3, <3>1, <3>2, NoneEmpty
    <3> QED BY <3>1, <3>3
  <2> QED BY <2>1, <2>2, <2>3
<1>19. Filed(ns2, root, g2, W, {}) BY <1>17, <1>18, FiledKeeps
<1>20. SplitLeaf(ns, p) = ns2 BY DEF SplitLeaf, ns2, lower, upper, m, q
<1>21. FirstKey(ns2[q]) = c BY <1>12 DEF FirstKey, c
<1>22. \A x \in DOMAIN ns : x # p => ns2[x] = ns[x] BY <1>11
<1> QED BY <1>8, <1>10, <1>11, <1>19, <1>20, <1>21, <1>22 DEF q, g2

(* The start of the way up: the split of the leaf, and the rest of the tree as it was. *)
Starts(st, g, t, id, W) ==
  /\ st \in States /\ st.up /\ ~st.failed /\ st.root = t.root
  /\ Shape(st.nodes, st.root, g) /\ Filed(st.nodes, st.root, g, W, {})
  /\ g.left = id /\ g.left # 0
  /\ st.left = g.left /\ st.right = g.right /\ st.key = g.lo[g.right]

Unmoved(st, g2, t, id, g) ==
  \A x \in g.L : x # id => x \in g2.L /\ g2.level[x] = g.level[x] /\ st.nodes[x] = t.nodes[x]

(* The new record is in the half that is for its key when the way up begins. *)
LEMMA LeafBegins ==
  ASSUME BTreeAssumption, NEW t, NEW g, Shape(t.nodes, t.root, g), g.left = 0, t.root \in Nat,
         NEW W, Filed(t.nodes, t.root, g, W, {}), NEW id \in g.L, g.level[id] = 0,
         Count(t.nodes[id]) >= MaxLeafEntries, NEW k \in Nat, Covers(g, id, k),
         NEW rid \in Rids \cup {LoadRid}, NEW pages \in Nat, pages # 0
  PROVE  \E g2 : LET st == Begun(t, id, k, rid, pages)
                 IN  Starts(st, g2, t, id, With(W, k, rid)) /\ Unmoved(st, g2, t, id, g)
<1> DEFINE ns == t.nodes
           q == NewPageID(ns)
           halves == SplitLeaf(ns, id)
           c == FirstKey(halves[q])
           g2 == Cut(g, id, q, c)
           x0 == IF k < c THEN id ELSE q
           W2 == With(W, k, rid)
           ns2 == [halves EXCEPT ![x0].rids = With(@, k, rid)]
           st == Begun(t, id, k, rid, pages)
<1>1. Typed(ns, g) BY DEF Shape
<1>2. id \in DOMAIN ns /\ g.L \subseteq DOMAIN ns /\ id \in Nat /\ id # 0
  <2>1. g.L \subseteq DOMAIN ns BY <1>1 DEF Typed
  <2>2. DOMAIN ns = 1..Len(ns) /\ Len(ns) \in Nat BY <1>1, TypesOf
  <2> HIDE DEF ns
  <2> QED BY <2>1, <2>2
<1>3. /\ c \in Nat /\ q \in Nat /\ q \notin DOMAIN ns /\ q # 0
      /\ g.lo[id] < c /\ (g.hi[id] = 0 \/ c < g.hi[id])
      /\ Shape(halves, t.root, g2) /\ Filed(halves, t.root, g2, W, {})
      /\ \A x \in DOMAIN ns : x # id => halves[x] = ns[x]
  BY CutFiled
<1> HIDE DEF c, q, halves
<1>4. /\ g2.L = g.L \cup {q} /\ g2.left = id /\ g2.right = q /\ id # q
      /\ \A x \in Nat : g2.level[x] = IF x = q THEN g.level[id] ELSE g.level[x]
      /\ \A x \in Nat : g2.lo[x] = IF x = q THEN c ELSE g.lo[x]
      /\ \A x \in Nat : g2.hi[x] = IF x = q THEN g.hi[id] ELSE IF x = id THEN c ELSE g.hi[x]
      /\ \A x \in g.L : x \in Nat /\ x # q /\ x \in DOMAIN ns
  <2> HIDE DEF g2
  <2> QED BY <1>3, CutIs DEF g2
<1> HIDE DEF g2
<1>5. x0 \in g2.L /\ g2.level[x0] = 0 /\ Covers(g2, x0, k)
  <2>1. CASE k < c
    <3>1. x0 = id /\ g2.lo[id] = g.lo[id] /\ g2.hi[id] = c BY <1>2, <1>4, <2>1
    <3> QED BY <1>2, <1>4, <2>1, <3>1 DEF Covers, Within
  <2>2. CASE ~(k < c)
    <3>1. x0 = q /\ g2.lo[q] = c /\ g2.hi[q] = g.hi[id] /\ c <= k BY <1>3, <1>4, <2>2
    <3> QED BY <1>3, <1>4, <3>1 DEF Covers, Within
  <2> QED BY <2>1, <2>2
<1> HIDE DEF x0
<1>6. Typed(halves, g2) BY <1>3 DEF Shape
<1>7. x0 \in DOMAIN halves BY <1>5, <1>6 DEF Typed
<1>8. halves[x0] \in Leaves BY <1>5, <1>6, <1>7, LeafOf
<1>9. ns2 = [halves EXCEPT ![x0] = Leaf(With(halves[x0].rids, k, rid), halves[x0].next)]
  BY <1>8, WithRids
<1> HIDE DEF ns2
<1>10. /\ Shape(ns2, t.root, g2) /\ Filed(ns2, t.root, g2, W2, {})
       /\ \A x \in DOMAIN halves : x # x0 => ns2[x] = halves[x]
  <2> HIDE DEF W2
  <2> QED BY <1>3, <1>5, <1>9, PutFiled DEF W2
<1>11. ns2 \in Seq(Nodes)
  <2>1. Typed(ns2, g2) BY <1>10 DEF Shape
  <2> QED BY <2>1 DEF Typed
<1>12. st = [nodes |-> ns2, root |-> t.root, pages |-> pages - 1, failed |-> FALSE,
             up |-> TRUE, key |-> c, left |-> id, right |-> q]
  <2> DEFINE s0 == [nodes |-> ns, root |-> t.root, pages |-> pages, failed |-> FALSE,
                    up |-> FALSE, key |-> k, left |-> id, right |-> q]
             key == FirstKey(halves[s0.right])
             to == IF k < key THEN id ELSE s0.right
  <2>1. st = [s0 EXCEPT !.nodes = [halves EXCEPT ![to].rids = With(halves[to].rids, k, rid)],
                        !.pages = s0.pages - 1, !.up = TRUE, !.key = key]
    BY DEF Begun, halves, q
  <2>2. s0.right = q /\ s0.pages = pages OBVIOUS
  <2>3. key = c BY <2>2 DEF c
  <2>4. to = x0 BY <2>2, <2>3 DEF x0
  <2>5. [halves EXCEPT ![to].rids = With(halves[to].rids, k, rid)] = ns2 BY <2>4 DEF ns2
  <2> HIDE DEF key, to, st
  <2> QED BY <2>1, <2>2, <2>3, <2>5
<1>13. /\ st \in States /\ st.up /\ ~st.failed /\ st.root = t.root /\ st.nodes = ns2
       /\ st.left = id /\ st.right = q /\ st.key = c
  <2>1. pages - 1 \in Nat OBVIOUS
  <2> HIDE DEF st
  <2> QED BY <1>2, <1>3, <1>11, <1>12, <2>1 DEF States
<1>14. Starts(st, g2, t, id, W2)
  <2>1. g2.lo[q] = c BY <1>3, <1>4
  <2> HIDE DEF st
  <2> QED BY <1>2, <1>4, <1>10, <1>13, <2>1 DEF Starts
<1>15. Unmoved(st, g2, t, id, g)
  <2> HIDE DEF st
  <2> SUFFICES ASSUME NEW x \in g.L, x # id
               PROVE  x \in g2.L /\ g2.level[x] = g.level[x] /\ st.nodes[x] = t.nodes[x]
    BY DEF Unmoved
  <2>1. x \in Nat /\ x # q /\ x \in DOMAIN ns /\ g2.L = g.L \cup {q} BY <1>4
  <2>2. x \in DOMAIN halves
    <3>1. x \in g2.L BY <2>1
    <3> QED BY <1>6, <3>1 DEF Typed
  <2>3. x # x0 BY <2>1 DEF x0
  <2>4. ns2[x] = ns[x] BY <1>3, <1>10, <2>1, <2>2, <2>3
  <2> QED BY <1>4, <1>13, <2>1, <2>4
<1> QED BY <1>14, <1>15

-----------------------------------------------------------------------------
(* A whole insertion. *)

Kept(t, W, D) == \E g : Shape(t.nodes, t.root, g) /\ Filed(t.nodes, t.root, g, W, D) /\ (D = {} => g.left = 0)

ClimbOf(n, path, start) ==
  CHOOSE f : f = [i \in 1..n |-> IF i = n THEN start ELSE InsertIntoParent(path[i], f[i + 1])]

(* The recursion over the path computes what its equation says. *)
LEMMA ClimbIs ==
  ASSUME NEW n \in Nat, n >= 1, NEW path, NEW start
  PROVE  \A i \in 1..n : ClimbOf(n, path, start)[i] =
           IF i = n THEN start ELSE InsertIntoParent(path[i], ClimbOf(n, path, start)[i + 1])
<1> DEFINE F(f, i) == IF i = n THEN start ELSE InsertIntoParent(path[i], f[i + 1])
           Is(f) == f = [i \in 1..n |-> F(f, i)]
           climb == CHOOSE f : Is(f)
           S == {d \in Nat : \A f : DOMAIN f = 1..n =>
                                ~ \A i \in 1..n : n - i <= d => f[i] = F(f, i)}
<1>1. S = {}
  <2> SUFFICES ASSUME S # {} PROVE FALSE OBVIOUS
  <2>1. S \subseteq Nat OBVIOUS
  <2>2. PICK d \in S : \A m \in S : d <= m
    <3> HIDE DEF S
    <3> QED BY <2>1, LeastExists
  <2>3. d \in Nat BY <2>2
  <2>4. CASE d = 0
    <3> DEFINE f == [i \in 1..n |-> start]
    <3>1. \A i \in 1..n : n - i <= d => f[i] = F(f, i)
      <4>1. \A i \in 1..n : n - i <= d => i = n BY <2>4
      <4> QED BY <4>1
    <3>2. DOMAIN f = 1..n OBVIOUS
    <3> HIDE DEF f
    <3> QED BY <2>2, <3>1, <3>2
  <2>5. CASE d > 0
    <3>1. d - 1 \in Nat /\ ~(d <= d - 1) BY <2>3, <2>5
    <3>2. d - 1 \notin S BY <2>2, <3>1
    <3>3. PICK f : DOMAIN f = 1..n /\ \A i \in 1..n : n - i <= d - 1 => f[i] = F(f, i)
      BY <3>1, <3>2
    <3> DEFINE h == [i \in 1..n |-> F(f, i)]
    <3>4. ASSUME NEW i \in 1..n, n - i <= d PROVE h[i] = F(h, i)
      <4>1. CASE i = n BY <4>1
      <4>2. CASE i # n
        <5>1. i + 1 \in 1..n /\ n - (i + 1) <= d - 1 BY <2>3, <3>4, <4>2
        <5>2. f[i + 1] = F(f, i + 1) BY <3>3, <5>1
        <5>3. h[i + 1] = F(f, i + 1) BY <5>1
        <5>4. h[i + 1] = f[i + 1] BY <5>2, <5>3
        <5> QED BY <5>4
      <4> QED BY <4>1, <4>2
    <3>5. DOMAIN h = 1..n OBVIOUS
    <3> HIDE DEF h
    <3> QED BY <2>2, <3>4, <3>5
  <2> QED BY <2>3, <2>4, <2>5
<1>2. \E f : Is(f)
  <2>1. n \notin S BY <1>1
  <2>2. PICK f : DOMAIN f = 1..n /\ \A i \in 1..n : n - i <= n => f[i] = F(f, i) BY <2>1
  <2>3. \A i \in 1..n : f[i] = F(f, i) BY <2>2
  <2> DEFINE h == [i \in 1..n |-> F(f, i)]
  <2>4. ASSUME NEW i \in 1..n PROVE F(f, i) = F(h, i)
    <3>1. CASE i = n BY <3>1
    <3>2. CASE i # n
      <4>1. i + 1 \in 1..n BY <3>2
      <4>2. h[i + 1] = F(f, i + 1) BY <4>1
      <4>3. h[i + 1] = f[i + 1] BY <2>3, <4>1, <4>2
      <4> QED BY <4>3
    <3> QED BY <3>1, <3>2
  <2>5. h = [i \in 1..n |-> F(h, i)] BY <2>4
  <2> QED BY <2>5
<1>3. Is(climb)
  <2> HIDE DEF Is
  <2> QED BY <1>2
<1>4. \A i \in 1..n : climb[i] = F(climb, i)
  <2> HIDE DEF climb
  <2> QED BY <1>3
<1>5. climb = ClimbOf(n, path, start) BY DEF ClimbOf
<1> HIDE DEF climb
<1> QED BY <1>4, <1>5

(* The way up ends with the record in the tree, or with its key in doubt. *)
LEMMA ClimbEnds ==
  ASSUME BTreeAssumption, NEW ns, NEW path \in Seq(Nat), Len(path) >= 2,
         \A i \in 1..(Len(path) - 1) : \E j \in Slots(ns[path[i]]) : path[i + 1] = Child(ns[path[i]], j),
         NEW W, NEW k, NEW rid, NEW climb,
         \A i \in 1..(Len(path) - 1) : climb[i] = InsertIntoParent(path[i], climb[i + 1]),
         \E g : Climbing(climb[Len(path)], g, ns, path, Len(path), With(W, k, rid))
  PROVE  Ended(climb[1], W, k, rid)
<1> DEFINE n == Len(path)
           W2 == With(W, k, rid)
           OK(i) == Ended(climb[i], W, k, rid) \/ (i # 1 /\ \E g : Climbing(climb[i], g, ns, path, i, W2))
           S == {d \in 0..(n - 1) : ~OK(n - d)}
<1>1. n \in Nat /\ n >= 2 BY LenProperties
<1>2. S = {}
  <2> SUFFICES ASSUME S # {} PROVE FALSE OBVIOUS
  <2>1. S \subseteq Nat OBVIOUS
  <2>2. PICK d \in S : \A m \in S : d <= m
    <3> HIDE DEF S
    <3> QED BY <2>1, LeastExists
  <2>3. d \in 0..(n - 1) /\ ~OK(n - d) BY <2>2
  <2>4. d # 0
    <3> SUFFICES ASSUME d = 0 PROVE FALSE OBVIOUS
    <3>1. n - d = n /\ n # 1
      <4> HIDE DEF n
      <4> QED BY <1>1
    <3>2. OK(n) BY <3>1
    <3> QED BY <2>3, <3>1, <3>2
  <2> DEFINE i == n - d
  <2>5. i \in 1..(n - 1) /\ i + 1 = n - (d - 1) /\ d - 1 \in 0..(n - 1) /\ ~(d <= d - 1)
    <3> HIDE DEF n
    <3> QED BY <1>1, <2>3, <2>4
  <2>6. OK(i + 1)
    <3>1. d - 1 \notin S BY <2>2, <2>5
    <3> HIDE DEF OK, n
    <3> QED BY <2>5, <3>1
  <2>7. climb[i] = InsertIntoParent(path[i], climb[i + 1]) BY <2>5
  <2> HIDE DEF i
  <2>8. CASE Ended(climb[i + 1], W, k, rid)
    <3>1. ~climb[i + 1].up BY <2>8 DEF Ended
    <3>2. climb[i] = climb[i + 1] BY <2>7, <3>1 DEF InsertIntoParent
    <3>3. OK(i) BY <2>8, <3>2
    <3> QED BY <2>3, <3>3 DEF i
  <2>9. ASSUME NEW g, Climbing(climb[i + 1], g, ns, path, i + 1, W2) PROVE FALSE
    <3>1. PICK j \in Slots(ns[path[i]]) : path[i + 1] = Child(ns[path[i]], j) BY <2>5
    <3>2. \/ Ended(climb[i], W, k, rid)
          \/ i # 1 /\ \E g2 : Climbing(climb[i], g2, ns, path, i, W2)
      <4>1. \/ Ended(InsertIntoParent(path[i], climb[i + 1]), W, k, rid)
            \/ i # 1 /\ \E g2 : Climbing(InsertIntoParent(path[i], climb[i + 1]), g2, ns, path, i, W2)
        BY <2>5, <2>9, <3>1, UpStep
      <4> QED BY <2>7, <4>1
    <3>3. OK(i) BY <3>2
    <3> QED BY <2>3, <3>3 DEF i
  <2> QED BY <2>6, <2>8, <2>9
<1>3. n - 1 \in 0..(n - 1) /\ n - (n - 1) = 1
  <2> HIDE DEF n
  <2> QED BY <1>1
<1>4. n - 1 \notin S BY <1>2
<1>5. OK(1) BY <1>3, <1>4
<1> QED BY <1>5

(* The path of k ends in the leaf of k. *)
LeafPath(t, g, k, path, id) ==
  /\ path \in Seq(Nat) /\ Len(path) \in Nat /\ Len(path) >= 1 /\ path[1] = t.root
  /\ id = path[Len(path)] /\ id \in g.L /\ g.level[id] = 0 /\ Covers(g, id, k)
  /\ id \in DOMAIN t.nodes /\ t.nodes[id] \in Leaves /\ id \in Nat /\ t.root \in Nat
  /\ id # t.root => Len(path) >= 2
  /\ \A i \in 1..Len(path) : path[i] \in g.L /\ g.level[path[i]] = Len(path) - i
  /\ \A i \in 1..(Len(path) - 1) : \E j \in Slots(t.nodes[path[i]]) :
                                      path[i + 1] = Child(t.nodes[path[i]], j)

(* With no split pending, the last page of the path is the leaf of the key. *)
LEMMA LeafAtEnd ==
  ASSUME NEW t, NEW g, Shape(t.nodes, t.root, g), g.left = 0, NEW k \in Nat
  PROVE  LeafPath(t, g, k, Path(t, k), Last(Path(t, k)))
<1> DEFINE path == Path(t, k)
           n == Len(path)
<1>1. IsPath(t.nodes, g, k, t.root, path) BY PathIs
<1> HIDE DEF path
<1>2. Typed(t.nodes, g) /\ Rooted(t.root, g) BY DEF Shape
<1>3. /\ path \in Seq(Nat) /\ n = g.level[t.root] + 1 /\ path[1] = t.root
      /\ \A i \in 1..n : path[i] \in g.L /\ g.level[path[i]] = n - i /\ Inside(g, path[i], k)
      /\ \A i \in 1..(n - 1) : \E j \in Slots(t.nodes[path[i]]) : path[i + 1] = Child(t.nodes[path[i]], j)
  BY <1>1 DEF IsPath
<1>4. t.root \in Nat /\ g.level[t.root] \in Nat /\ n \in Nat /\ n >= 1
  <2>1. t.root \in g.L BY <1>2 DEF Rooted
  <2>2. t.root \in Nat /\ g.level[t.root] \in Nat BY <1>2, <2>1, TypesOf
  <2> HIDE DEF n
  <2> QED BY <1>3, <2>2
<1>5. Last(path) = path[n] BY DEF Last
<1> HIDE DEF n
<1>6. n \in 1..n /\ n - n = 0 BY <1>4
<1>7. path[n] \in g.L /\ g.level[path[n]] = 0 /\ Covers(g, path[n], k) BY <1>3, <1>6 DEF Inside
<1>8. path[n] \in DOMAIN t.nodes /\ path[n] \in Nat /\ t.nodes[path[n]] \in Leaves
  <2>1. path[n] \in DOMAIN t.nodes BY <1>2, <1>7 DEF Typed
  <2> QED BY <1>2, <1>7, <2>1, LeafOf, TypesOf
<1>9. path[n] # t.root => n >= 2 BY <1>3, <1>4
<1>10. LeafPath(t, g, k, path, path[n]) BY <1>3, <1>4, <1>7, <1>8, <1>9 DEF n, LeafPath
<1> QED BY <1>5, <1>10 DEF path

(* BPlusTree.Insert: from a tree that holds W to one that holds W and the new record,
   through any number of splits; when it ran out of pages the key is in doubt and
   everything else is found as before. *)
THEOREM InsertKeeps ==
  ASSUME BTreeAssumption, NEW t, NEW W, Kept(t, W, {}), NEW k \in Nat,
         NEW rid \in Rids \cup {LoadRid}, NEW pages \in Nat
  PROVE  LET r == Inserted(t, k, rid, pages)
         IN  IF r.failed THEN Kept(r.tree, W, {k}) ELSE Kept(r.tree, With(W, k, rid), {})
<1> DEFINE W2 == With(W, k, rid)
           Good2(e) == LET u == [root |-> e.root, nodes |-> e.nodes]
                       IN  IF e.failed THEN Kept(u, W, {k}) ELSE Kept(u, W2, {})
           path == Path(t, k)
           id == Last(path)
           st == [nodes |-> t.nodes, root |-> t.root, pages |-> pages, failed |-> FALSE,
                  up |-> FALSE, key |-> k, left |-> id, right |-> NewPageID(t.nodes)]
           split == Begun(t, id, k, rid, pages)
           climb == CHOOSE f : f = [i \in 1..Len(path) |->
                      IF i = Len(path) THEN split ELSE InsertIntoParent(path[i], f[i + 1])]
           end == IF Count(t.nodes[id]) < MaxLeafEntries
                  THEN [st EXCEPT !.nodes[id].rids = With(@, k, rid)]
                  ELSE IF pages = 0 THEN [st EXCEPT !.failed = TRUE]
                  ELSE IF id = t.root THEN CreateNewRoot(split) ELSE climb[1]
<1>1. Inserted(t, k, rid, pages) = [tree |-> [root |-> end.root, nodes |-> end.nodes], failed |-> end.failed]
  BY DEF Inserted, Begun
<1> HIDE DEF end, climb
<1>2. SUFFICES Good2(end) BY <1>1
<1>3. PICK g : Shape(t.nodes, t.root, g) /\ Filed(t.nodes, t.root, g, W, {}) /\ g.left = 0
  BY DEF Kept
<1>p. LeafPath(t, g, k, path, id)
  <2> HIDE DEF path
  <2> QED BY <1>3, LeafAtEnd DEF path
<1>4. /\ path \in Seq(Nat) /\ Len(path) \in Nat /\ Len(path) >= 1 /\ path[1] = t.root
      /\ id = path[Len(path)] /\ id \in g.L /\ g.level[id] = 0 /\ Covers(g, id, k)
      /\ id \in DOMAIN t.nodes /\ t.nodes[id] \in Leaves /\ id \in Nat /\ t.root \in Nat
      /\ id # t.root => Len(path) >= 2
      /\ \A i \in 1..Len(path) : path[i] \in g.L /\ g.level[path[i]] = Len(path) - i
      /\ \A i \in 1..(Len(path) - 1) : \E j \in Slots(t.nodes[path[i]]) :
                                          path[i + 1] = Child(t.nodes[path[i]], j)
  <2> HIDE DEF path, id
  <2> QED BY <1>p DEF LeafPath
<1> HIDE DEF path, id
<1>c. Count(t.nodes[id]) \in Nat /\ MaxLeafEntries \in Nat
  <2>1. IsFiniteSet(DOMAIN t.nodes[id].rids) BY <1>4, LeafHas
  <2> QED BY <2>1, FS_CardinalityType DEF Count, BTreeAssumption
<1>5. ASSUME NEW e, Ended(e, W, k, rid), end = e PROVE Good2(end)
  <2>1. PICK h : /\ Shape(e.nodes, e.root, h)
                 /\ IF e.failed THEN Filed(e.nodes, e.root, h, W, {k})
                    ELSE h.left = 0 /\ Filed(e.nodes, e.root, h, W2, {})
    BY <1>5 DEF Ended
  <2>2. {k} # {} OBVIOUS
  <2> HIDE DEF W2
  <2> QED BY <1>5, <2>1, <2>2 DEF Kept
<1>6. CASE Count(t.nodes[id]) < MaxLeafEntries
  <2> DEFINE ns2 == [t.nodes EXCEPT ![id] = Leaf(With(t.nodes[id].rids, k, rid), t.nodes[id].next)]
  <2>1. [t.nodes EXCEPT ![id].rids = With(t.nodes[id].rids, k, rid)] = ns2 BY <1>4, WithRids
  <2>2. end = [st EXCEPT !.nodes[id].rids = With(t.nodes[id].rids, k, rid)] BY <1>6 DEF end
  <2>3. end.nodes = ns2 /\ end.root = t.root /\ end.failed = FALSE BY <2>1, <2>2
  <2>4. Shape(ns2, t.root, g) /\ Filed(ns2, t.root, g, W2, {})
    BY <1>3, <1>4, PutFiled
  <2> HIDE DEF ns2, W2
  <2> QED BY <1>3, <2>3, <2>4 DEF Kept
<1>7. CASE ~(Count(t.nodes[id]) < MaxLeafEntries) /\ pages = 0
  <2>1. end = [st EXCEPT !.failed = TRUE] BY <1>7 DEF end
  <2>2. end.nodes = t.nodes /\ end.root = t.root /\ end.failed = TRUE BY <2>1
  <2>3. Filed(t.nodes, t.root, g, W, {k}) BY <1>3, FiledDoubt
  <2>4. {k} # {} OBVIOUS
  <2> HIDE DEF st
  <2> QED BY <1>3, <2>2, <2>3, <2>4 DEF Kept
<1>8. CASE ~(Count(t.nodes[id]) < MaxLeafEntries) /\ pages # 0
  <2>1. Count(t.nodes[id]) >= MaxLeafEntries BY <1>c, <1>8
  <2>2. PICK g2 : Starts(split, g2, t, id, W2) /\ Unmoved(split, g2, t, id, g)
    <3> HIDE DEF split, W2
    <3> QED BY <1>3, <1>4, <1>8, <2>1, LeafBegins DEF split, W2
  <2> HIDE DEF split
  <2>3. CASE id = t.root
    <3>1. end = CreateNewRoot(split) BY <1>8, <2>3 DEF end
    <3>2. Ended(CreateNewRoot(split), W, k, rid) BY <2>2, <2>3, RootEnds DEF Starts
    <3> QED BY <1>5, <3>1, <3>2
  <2>4. CASE id # t.root
    <3>1. end = climb[1] BY <1>8, <2>4 DEF end
    <3>2. Len(path) >= 2 BY <1>4, <2>4
    <3> DEFINE n == Len(path)
    <3>n. n \in Nat /\ n >= 1 BY <1>4
    <3>c. climb = ClimbOf(n, path, split) BY DEF climb, ClimbOf
    <3> HIDE DEF n, climb
    <3>3. \A i \in 1..n : climb[i] = IF i = n THEN split ELSE InsertIntoParent(path[i], climb[i + 1])
      BY <3>n, <3>c, ClimbIs
    <3>4. \A i \in 1..(n - 1) : climb[i] = InsertIntoParent(path[i], climb[i + 1])
      <4>1. \A i \in 1..(n - 1) : i \in 1..n /\ i # n BY <3>n
      <4> QED BY <3>3, <4>1
    <3>5. climb[n] = split
      <4>1. n \in 1..n BY <3>n
      <4> QED BY <3>3, <4>1
    <3> USE DEF n
    <3>6. Climbing(split, g2, t.nodes, path, Len(path), W2)
      <4>1. ASSUME NEW j \in 1..(Len(path) - 1)
            PROVE  /\ path[j] \in g2.L /\ g2.level[path[j]] = Len(path) - j
                   /\ split.nodes[path[j]] = t.nodes[path[j]]
        <5>1. j \in 1..Len(path) /\ Len(path) - j # 0 BY <1>4
        <5>2. path[j] \in g.L /\ g.level[path[j]] = Len(path) - j BY <1>4, <5>1
        <5>3. path[j] # id BY <1>4, <5>1, <5>2
        <5> QED BY <2>2, <5>2, <5>3 DEF Unmoved
      <4> HIDE DEF W2
      <4> QED BY <1>4, <2>2, <4>1 DEF Climbing, Starts
    <3>7. Ended(climb[1], W, k, rid)
      <4>1. \E h : Climbing(climb[Len(path)], h, t.nodes, path, Len(path), With(W, k, rid))
        BY <3>5, <3>6
      <4> QED BY <1>4, <3>2, <3>4, <4>1, ClimbEnds
    <3> QED BY <1>5, <3>1, <3>7
  <2> QED BY <2>3, <2>4
<1> QED BY <1>6, <1>7, <1>8

-----------------------------------------------------------------------------
(* Two leaves beside one another under the same router p. *)

Pair(ns, g, p, j, x, y) ==
  /\ p \in g.L /\ x \in g.L /\ y \in g.L /\ x # y /\ p # x /\ p # y
  /\ g.level[x] = 0 /\ g.level[y] = 0 /\ g.level[p] = 1
  /\ j \in 1..Len(ns[p].entries) /\ x = Child(ns[p], j - 1) /\ y = Child(ns[p], j)
  /\ ns[p].entries[j].key = g.lo[y] /\ g.lo[y] # 0
  /\ g.hi[x] = g.lo[y] /\ g.lo[x] < g.lo[y] /\ (g.hi[y] = 0 \/ g.lo[y] < g.hi[y])
  /\ ns[x].next = y

Aside(ns, g, p, j, x, y) ==
  /\ \A z \in g.L : g.level[z] = 0 /\ z # x /\ z # y =>
       /\ Before(g, z, x) \/ Before(g, y, z)
       /\ ns[z].next # y
  /\ \A q \in g.L : g.level[q] > 0 => \A i \in Slots(ns[q]) :
       (Child(ns[q], i) = x => q = p /\ i = j - 1) /\ (Child(ns[q], i) = y => q = p /\ i = j)

OneEach(ns, g) ==
  \A p, q \in g.L : g.level[p] > 0 /\ g.level[q] > 0 =>
    \A i \in Slots(ns[p]), j \in Slots(ns[q]) : Child(ns[p], i) = Child(ns[q], j) => p = q /\ i = j

(* A page has one place in one router. *)
LEMMA Parents ==
  ASSUME NEW ns, NEW root, NEW g, Shape(ns, root, g) PROVE OneEach(ns, g)
BY OneParent DEF OneEach

(* Neighbours under a router are neighbours in the chain, and no other router has
   them. *)
LEMMA PairIs ==
  ASSUME NEW ns, NEW root, NEW g, Shape(ns, root, g), g.left = 0, NEW p \in g.L, g.level[p] = 1,
         NEW j \in 1..Len(ns[p].entries)
  PROVE  LET x == Child(ns[p], j - 1)
             y == Child(ns[p], j)
         IN  Pair(ns, g, p, j, x, y) /\ Aside(ns, g, p, j, x, y)
<1> DEFINE n == ns[p]
           x == Child(n, j - 1)
           y == Child(n, j)
<1>1. /\ Typed(ns, g) /\ Rooted(root, g) /\ Apart(g) /\ Routed(ns, g) /\ Chained(ns, g) /\ Halved(g)
  BY DEF Shape
<1>2. n \in Routers /\ Good(n, g, g.level[p], g.lo[p], g.hi[p], Known(g)) BY BoundsGrow
<1>3. Len(n.entries) \in Nat /\ Slots(n) = 0..Len(n.entries) BY <1>2, RouterHas DEF Slots
<1>4. j \in Slots(n) /\ j - 1 \in Slots(n) /\ j # 0 /\ j - 1 # Len(n.entries) /\ (j - 1) + 1 = j
  BY <1>3
<1>5. \A z \in Nat : g.level[z] \in Nat /\ g.lo[z] \in Nat /\ g.hi[z] \in Nat BY <1>1, TypesOf
<1>k. \A z \in Nat : Known(g)[z] = g.hi[z]
  <2>1. \A z \in Nat : Known(g)[z] = (IF z = g.left THEN g.hi[g.right] ELSE g.hi[z]) BY <1>1, TypesOf
  <2>2. g.right = 0 BY <1>1 DEF Halved
  <2> QED BY <2>1, <2>2
<1>6. /\ x \in g.L /\ g.level[x] + 1 = 1 /\ y \in g.L /\ g.level[y] + 1 = 1
      /\ Known(g)[x] = n.entries[j].key /\ g.lo[y] = n.entries[j].key /\ n.entries[j].key # 0
  <2>1. /\ x \in g.L /\ g.level[x] + 1 = g.level[p] /\ Known(g)[x] = EndAt(n, j - 1, g.hi[p])
    BY <1>2, <1>4 DEF Good
  <2>2. /\ y \in g.L /\ g.level[y] + 1 = g.level[p] /\ g.lo[y] = KeyAt(n, j, g.lo[p])
        /\ n.entries[j].key # 0
    BY <1>2, <1>4 DEF Good
  <2> QED BY <1>4, <2>1, <2>2 DEF EndAt, KeyAt
<1> HIDE DEF x, y
<1>7. x \in Nat /\ y \in Nat /\ g.L \subseteq Nat /\ g.L \subseteq DOMAIN ns
      /\ g.level[x] = 0 /\ g.level[y] = 0
  <2>1. g.L \subseteq Nat /\ g.L \subseteq DOMAIN ns BY <1>1, TypesOf DEF Typed
  <2>2. g.level[x] \in Nat /\ g.level[y] \in Nat BY <1>5, <1>6, <2>1
  <2>3. g.level[x] = 0 /\ g.level[y] = 0 BY <1>6, <2>2
  <2> QED BY <1>6, <2>1, <2>3
<1>8. g.hi[x] = g.lo[y] /\ g.lo[y] # 0 BY <1>6, <1>7, <1>k
<1>9. g.lo[x] < g.lo[y] /\ (g.hi[y] = 0 \/ g.lo[y] < g.hi[y]) BY <1>1, <1>6, <1>8 DEF Apart
<1>10. x # y BY <1>5, <1>7, <1>9
<1>11. ns[x].next = y
  <2> DEFINE z == ns[x].next
  <2>1. z # 0 /\ z \in g.L /\ g.lo[z] = g.hi[x] BY <1>1, <1>6, <1>7, <1>8 DEF Chained
  <2>2. g.level[z] = 0
    <3>1. x \in DOMAIN ns BY <1>6, <1>7
    <3> QED BY <1>1, <1>7, <2>1, <3>1 DEF Chained
  <2> HIDE DEF z
  <2>3. Covers(g, z, g.lo[z]) /\ Covers(g, y, g.lo[y]) /\ g.lo[z] \in Nat BY <1>6, <2>1, CoversLo
  <2> QED BY <1>6, <1>7, <1>8, <2>1, <2>2, <2>3, SamePage DEF z
<1>12. ASSUME NEW z \in g.L, g.level[z] = 0, z # x, z # y
       PROVE  (Before(g, z, x) \/ Before(g, y, z)) /\ ns[z].next # y
  <2>0. /\ g.lo[x] \in Nat /\ g.lo[y] \in Nat /\ g.lo[z] \in Nat
        /\ g.hi[x] \in Nat /\ g.hi[y] \in Nat /\ g.hi[z] \in Nat
    BY <1>5, <1>7
  <2>1. Before(g, z, x) \/ Before(g, x, z) BY <1>1, <1>6, <1>7, <1>12 DEF Apart
  <2>2. Before(g, z, y) \/ Before(g, y, z) BY <1>1, <1>6, <1>7, <1>12 DEF Apart
  <2>3. g.hi[z] = 0 \/ g.lo[z] < g.hi[z] BY <1>1 DEF Apart
  <2>4. Before(g, z, x) \/ Before(g, y, z) BY <1>8, <2>0, <2>1, <2>2, <2>3 DEF Before
  <2>5. ns[z].next # y
    <3> SUFFICES ASSUME ns[z].next = y PROVE FALSE OBVIOUS
    <3>1. y # 0 BY <1>1, <1>6, <1>7, TypesOf
    <3>2. g.lo[y] = g.hi[z] BY <1>1, <1>12, <3>1 DEF Chained
    <3> QED BY <1>8, <1>9, <2>0, <2>3, <2>4, <3>2 DEF Before
  <2> QED BY <2>4, <2>5
<1>13. ASSUME NEW q \in g.L, g.level[q] > 0, NEW i \in Slots(ns[q])
       PROVE  (Child(ns[q], i) = x => q = p /\ i = j - 1) /\ (Child(ns[q], i) = y => q = p /\ i = j)
  <2>1. g.level[p] > 0 BY <1>5
  <2>4. ASSUME NEW l \in Slots(ns[p]), Child(ns[q], i) = Child(ns[p], l) PROVE q = p /\ i = l
    <3>1. \A v \in g.L : \A m \in Slots(ns[v]) :
            g.level[v] > 0 /\ Child(ns[q], i) = Child(ns[v], m) => q = v /\ i = m
      <4>1. OneEach(ns, g) BY Parents
      <4> QED BY <1>13, <4>1 DEF OneEach
    <3> QED BY <2>1, <2>4, <3>1
  <2>2. CASE Child(ns[q], i) = x
    <3>1. Child(ns[q], i) = Child(ns[p], j - 1) BY <2>2 DEF x
    <3>2. q = p /\ i = j - 1 BY <1>4, <2>4, <3>1
    <3> QED BY <1>10, <2>2, <3>2
  <2>3. CASE Child(ns[q], i) = y
    <3>1. Child(ns[q], i) = Child(ns[p], j) BY <2>3 DEF y
    <3>2. q = p /\ i = j BY <1>4, <2>4, <3>1
    <3> QED BY <1>10, <2>3, <3>2
  <2> QED BY <2>2, <2>3
<1>14. p # x /\ p # y BY <1>7
<1>15. Pair(ns, g, p, j, x, y) BY <1>6, <1>7, <1>8, <1>9, <1>10, <1>11, <1>14 DEF Pair, x, y
<1>16. Aside(ns, g, p, j, x, y) BY <1>12, <1>13 DEF Aside
<1> QED BY <1>15, <1>16 DEF x, y, n

(* A router stays good when its own children stay as they are. *)
LEMMA GoodApart ==
  ASSUME NEW n, NEW g, NEW l, NEW a, NEW b, NEW end, Good(n, g, l, a, b, end), NEW h, NEW end2,
         \A j \in Slots(n) : LET c == Child(n, j) IN
            c \in h.L /\ h.level[c] = g.level[c] /\ h.lo[c] = g.lo[c] /\ end2[c] = end[c]
  PROVE  Good(n, h, l, a, b, end2)
BY DEF Good

(* The bound between them moves to f, and the parent's key with it. *)
Shifted(g, x, y, f) ==
  [L |-> g.L, level |-> g.level, lo |-> [g.lo EXCEPT ![y] = f], hi |-> [g.hi EXCEPT ![x] = f],
   pos |-> g.pos, left |-> 0, right |-> 0]

(* The bound between neighbours moves together with the key of the parent. *)
LEMMA ShiftKeeps ==
  ASSUME NEW ns, NEW root, NEW g, Shape(ns, root, g), g.left = 0,
         NEW p, NEW j, NEW x, NEW y, Pair(ns, g, p, j, x, y), Aside(ns, g, p, j, x, y),
         NEW f \in Nat, g.lo[x] < f, g.hi[y] = 0 \/ f < g.hi[y]
  PROVE  Shape([ns EXCEPT ![p] = SetEntryKey(ns[p], y, f)], root, Shifted(g, x, y, f))
<1> DEFINE n == ns[p]
           r == SetEntryKey(n, y, f)
           ns2 == [ns EXCEPT ![p] = r]
           g2 == Shifted(g, x, y, f)
<1>1. /\ Typed(ns, g) /\ Rooted(root, g) /\ Apart(g) /\ Routed(ns, g) /\ Chained(ns, g) /\ Halved(g)
  BY DEF Shape
<1>p. /\ p \in g.L /\ x \in g.L /\ y \in g.L /\ x # y /\ p # x /\ p # y
      /\ g.level[x] = 0 /\ g.level[y] = 0 /\ g.level[p] = 1
      /\ j \in 1..Len(n.entries) /\ x = Child(n, j - 1) /\ y = Child(n, j)
      /\ n.entries[j].key = g.lo[y] /\ g.lo[y] # 0
      /\ g.hi[x] = g.lo[y] /\ g.lo[x] < g.lo[y] /\ (g.hi[y] = 0 \/ g.lo[y] < g.hi[y])
      /\ ns[x].next = y
  BY DEF Pair
<1>2. /\ p \in DOMAIN ns /\ ns \in Seq(Nodes) /\ g.L \subseteq DOMAIN ns /\ g.L \subseteq Nat
      /\ p \in Nat /\ x \in Nat /\ y \in Nat /\ g \in Ghosts
      /\ \A z \in Nat : g.level[z] \in Nat /\ g.lo[z] \in Nat /\ g.hi[z] \in Nat
  BY <1>1, <1>p, TypesOf DEF Typed
<1>3. /\ n \in Routers /\ Good(n, g, g.level[p], g.lo[p], g.hi[p], Known(g))
  <2>1. g.level[p] > 0 BY <1>p
  <2> QED BY <1>p, <2>1, BoundsGrow
<1>4. Len(n.entries) \in Nat /\ Slots(n) = 0..Len(n.entries) BY <1>3, RouterHas DEF Slots
<1>5. f # 0 /\ f \in Nat BY <1>2
<1>6. \A z \in Nat : Known(g)[z] = g.hi[z]
  <2>1. \A z \in Nat : Known(g)[z] = (IF z = g.left THEN g.hi[g.right] ELSE g.hi[z]) BY <1>1, TypesOf
  <2>2. g.right = 0 BY <1>1 DEF Halved
  <2> QED BY <2>1, <2>2
<1>7. /\ g2 \in Ghosts /\ g2.L = g.L /\ g2.level = g.level /\ g2.pos = g.pos /\ g2.left = 0 /\ g2.right = 0
      /\ \A z \in Nat : g2.lo[z] = IF z = y THEN f ELSE g.lo[z]
      /\ \A z \in Nat : g2.hi[z] = IF z = x THEN f ELSE g.hi[z]
      /\ \A z \in Nat : Known(g2)[z] = g2.hi[z]
  BY <1>2 DEF Ghosts, Shifted, Known
<1> HIDE DEF g2
<1>8. \A l \in 1..Len(n.entries) : n.entries[l].child = y => l = j
  <2> SUFFICES ASSUME NEW l \in 1..Len(n.entries), n.entries[l].child = y PROVE l = j OBVIOUS
  <2>1. l \in Slots(n) /\ Child(n, l) = y BY <1>4 DEF Child
  <2>2. g.level[p] > 0 BY <1>p
  <2> QED BY <1>p, <2>1, <2>2 DEF Aside
<1>9. n.entries[j].child = y
  <2>1. Child(n, j) = y /\ j # 0 BY <1>p
  <2> QED BY <2>1 DEF Child
<1>10. ASSUME NEW i \in Slots(n), NEW a, NEW b
       PROVE  /\ r \in Routers /\ Len(r.entries) = Len(n.entries) /\ Slots(r) = Slots(n)
              /\ Child(r, i) = Child(n, i)
              /\ KeyAt(r, i, a) = IF i = j THEN f ELSE KeyAt(n, i, a)
              /\ EndAt(r, i, b) = IF i = j - 1 THEN f ELSE EndAt(n, i, b)
  <2>1. Rekeyed(r, n, j, f, i, a, b)
    <3> HIDE DEF n
    <3> QED BY <1>2, <1>3, <1>8, <1>9, <1>p, SetKeySlots
  <2> HIDE DEF r, n
  <2> QED BY <2>1 DEF Rekeyed
<1>11. r \in Routers /\ Len(r.entries) = Len(n.entries) /\ Slots(r) = Slots(n) /\ r \in Nodes /\ ~IsLeaf(r)
  <2>1. 0 \in Slots(n) BY <1>4
  <2>2. r \in Routers /\ Len(r.entries) = Len(n.entries) /\ Slots(r) = Slots(n) BY <1>10, <2>1
  <2> QED BY <2>2, RouterHas DEF Nodes
<1> HIDE DEF r
<1>12. /\ ns2 \in Seq(Nodes) /\ DOMAIN ns2 = DOMAIN ns
       /\ \A z \in DOMAIN ns : ns2[z] = IF z = p THEN r ELSE ns[z]
  BY <1>2, <1>11, PutPage
<1> HIDE DEF ns2
<1>13. Typed(ns2, g2)
  <2>1. ASSUME NEW z \in DOMAIN ns
        PROVE  /\ IsLeaf(ns2[z]) <=> g2.level[z] = 0
               /\ g2.level[z] > 0 => z \in g2.L /\ Len(ns2[z].entries) <= MaxInternalKeys
    <3>1. CASE z = p
      <4>1. Len(n.entries) <= MaxInternalKeys
        <5>1. g.level[p] > 0 BY <1>p
        <5> QED BY <1>1, <1>2, <5>1 DEF Typed
      <4> QED BY <1>7, <1>11, <1>12, <1>p, <3>1, <4>1
    <3>2. CASE z # p BY <1>1, <1>7, <1>12, <3>2 DEF Typed
    <3> QED BY <3>1, <3>2
  <2> QED BY <1>2, <1>7, <1>12, <2>1 DEF Typed
<1>14. Rooted(root, g2)
  <2>1. root \in g.L /\ g.lo[root] = 0 /\ Known(g)[root] = 0 /\ \A z \in g.L : g.level[z] <= g.level[root]
    BY <1>1 DEF Rooted
  <2>2. root # x /\ root # y /\ root \in Nat
    <3>1. root \in Nat /\ g.level[p] <= g.level[root] BY <1>2, <1>p, <2>1
    <3> QED BY <1>2, <1>p, <3>1
  <2>3. g2.lo[root] = 0 /\ Known(g2)[root] = 0 BY <1>6, <1>7, <2>1, <2>2
  <2> QED BY <1>7, <2>1, <2>3 DEF Rooted
<1>15. Apart(g2)
  <2>1. ASSUME NEW z \in g.L PROVE g2.hi[z] = 0 \/ g2.lo[z] < g2.hi[z]
    <3>1. z \in Nat /\ (g.hi[z] = 0 \/ g.lo[z] < g.hi[z]) BY <1>1, <1>2 DEF Apart
    <3> QED BY <1>7, <1>p, <3>1
  <2>2. ASSUME NEW z \in g.L, g.level[z] = 0, z # x, z # y
        PROVE  \/ Before(g2, z, x) /\ Before(g2, z, y)
               \/ Before(g2, x, z) /\ Before(g2, y, z)
    <3>1. Before(g, z, x) \/ Before(g, y, z) BY <2>2 DEF Aside
    <3>2. /\ z \in Nat /\ g2.lo[z] = g.lo[z] /\ g2.hi[z] = g.hi[z] /\ g2.lo[x] = g.lo[x]
          /\ g2.lo[y] = f /\ g2.hi[x] = f /\ g2.hi[y] = g.hi[y]
      BY <1>2, <1>7, <1>p, <2>2
    <3>3. g.lo[z] \in Nat /\ g.hi[z] \in Nat /\ g.lo[x] \in Nat /\ g.hi[y] \in Nat BY <1>2, <3>2
    <3> QED BY <1>5, <3>1, <3>2, <3>3 DEF Before
  <2>3. Before(g2, x, y)
    <3>1. g2.hi[x] = f /\ g2.lo[y] = f BY <1>2, <1>7
    <3> QED BY <1>5, <3>1 DEF Before
  <2>4. ASSUME NEW z \in g.L, NEW w \in g.L, g.level[z] = g.level[w], z # w
        PROVE  Before(g2, z, w) \/ Before(g2, w, z)
    <3>1. CASE z \in {x, y} /\ w \in {x, y} BY <2>3, <2>4, <3>1
    <3>2. CASE z \in {x, y} /\ w \notin {x, y} BY <1>p, <2>2, <2>4, <3>2
    <3>3. CASE z \notin {x, y} /\ w \in {x, y} BY <1>p, <2>2, <2>4, <3>3
    <3>4. CASE z \notin {x, y} /\ w \notin {x, y}
      <4>1. /\ z \in Nat /\ w \in Nat /\ g2.lo[z] = g.lo[z] /\ g2.hi[z] = g.hi[z]
            /\ g2.lo[w] = g.lo[w] /\ g2.hi[w] = g.hi[w]
        BY <1>2, <1>7, <3>4
      <4>2. Before(g, z, w) \/ Before(g, w, z) BY <1>1, <2>4 DEF Apart
      <4> QED BY <4>1, <4>2 DEF Before
    <3> QED BY <3>1, <3>2, <3>3, <3>4
  <2> QED BY <1>7, <2>1, <2>4 DEF Apart
<1>16. Routed(ns2, g2)
  <2> SUFFICES ASSUME NEW q \in g.L, g.level[q] > 0
               PROVE  Good(ns2[q], g2, g.level[q], g2.lo[q], g2.hi[q], Known(g2))
    BY <1>7 DEF Routed
  <2>1. q # x /\ q # y /\ q \in Nat /\ q \in DOMAIN ns BY <1>2, <1>p
  <2>2. g2.lo[q] = g.lo[q] /\ g2.hi[q] = g.hi[q] BY <1>7, <2>1
  <2>3. Good(ns[q], g, g.level[q], g.lo[q], g.hi[q], Known(g)) BY <1>1 DEF Routed
  <2>4. CASE q # p
    <3>1. \A i \in Slots(ns[q]) : Child(ns[q], i) \in g.L /\ Child(ns[q], i) # x /\ Child(ns[q], i) # y
      BY <2>3, <2>4 DEF Aside, Good
    <3>2. \A i \in Slots(ns[q]) : LET c == Child(ns[q], i) IN
             c \in g2.L /\ g2.level[c] = g.level[c] /\ g2.lo[c] = g.lo[c] /\ Known(g2)[c] = Known(g)[c]
      BY <1>2, <1>6, <1>7, <3>1
    <3>3. Good(ns[q], g2, g.level[q], g.lo[q], g.hi[q], Known(g2)) BY <2>3, <3>2, GoodApart
    <3>4. ns2[q] = ns[q] BY <1>12, <2>1, <2>4
    <3> QED BY <2>2, <3>3, <3>4
  <2>5. CASE q = p
    <3>1. ASSUME NEW i \in Slots(n)
          PROVE  /\ Child(r, i) \in g2.L /\ g2.level[Child(r, i)] + 1 = g.level[p]
                 /\ g2.lo[Child(r, i)] = KeyAt(r, i, g.lo[p])
                 /\ Known(g2)[Child(r, i)] = EndAt(r, i, g.hi[p])
                 /\ i # 0 => r.entries[i].key # 0
      <4> DEFINE c == Child(n, i)
      <4>1. /\ c \in g.L /\ g.level[c] + 1 = g.level[p] /\ g.lo[c] = KeyAt(n, i, g.lo[p])
            /\ Known(g)[c] = EndAt(n, i, g.hi[p]) /\ (i # 0 => n.entries[i].key # 0)
        BY <1>3 DEF Good
      <4>2. /\ Child(r, i) = c
            /\ KeyAt(r, i, g.lo[p]) = IF i = j THEN f ELSE KeyAt(n, i, g.lo[p])
            /\ EndAt(r, i, g.hi[p]) = IF i = j - 1 THEN f ELSE EndAt(n, i, g.hi[p])
        BY <1>10
      <4>3. (c = x <=> i = j - 1) /\ (c = y <=> i = j)
        <5>1. g.level[p] > 0 BY <1>p
        <5> QED BY <1>p, <5>1 DEF Aside
      <4>4. c \in Nat BY <1>2, <4>1
      <4>5. g2.lo[c] = KeyAt(r, i, g.lo[p]) BY <1>7, <4>1, <4>2, <4>3, <4>4
      <4>6. Known(g2)[c] = EndAt(r, i, g.hi[p]) BY <1>6, <1>7, <4>1, <4>2, <4>3, <4>4
      <4>7. i # 0 => r.entries[i].key # 0
        <5> SUFFICES ASSUME i # 0 PROVE r.entries[i].key # 0 OBVIOUS
        <5>1. KeyAt(r, i, g.lo[p]) = r.entries[i].key /\ KeyAt(n, i, g.lo[p]) = n.entries[i].key
          BY DEF KeyAt
        <5> QED BY <1>5, <4>1, <4>2, <5>1
      <4> QED BY <1>7, <4>1, <4>2, <4>5, <4>6, <4>7
    <3>2. Good(r, g2, g.level[p], g.lo[p], g.hi[p], Known(g2)) BY <1>11, <3>1 DEF Good
    <3> QED BY <1>12, <2>1, <2>2, <2>5, <3>2
  <2> QED BY <2>4, <2>5
<1>17. Chained(ns2, g2)
  <2>1. ASSUME NEW z \in DOMAIN ns, g.level[z] = 0 PROVE ns2[z] = ns[z] BY <1>12, <1>p, <2>1
  <2>2. ASSUME NEW z \in g.L, g.level[z] = 0
        PROVE  /\ ns2[z].next = 0 <=> g2.hi[z] = 0
               /\ ns2[z].next # 0 => ns2[z].next \in g.L /\ g2.lo[ns2[z].next] = g2.hi[z]
    <3>1. z \in Nat /\ z \in DOMAIN ns /\ ns2[z] = ns[z] BY <1>2, <2>1, <2>2
    <3>2. /\ ns[z].next = 0 <=> g.hi[z] = 0
          /\ ns[z].next # 0 => ns[z].next \in g.L /\ g.lo[ns[z].next] = g.hi[z]
      BY <1>1, <2>2 DEF Chained
    <3>3. CASE z = x
      <4>1. y # 0 BY <1>1, <1>p, <1>2, TypesOf
      <4>2. ns2[z].next = y /\ g2.hi[z] = f /\ g2.lo[y] = f BY <1>2, <1>7, <1>p, <3>1, <3>3
      <4> QED BY <1>5, <1>p, <4>1, <4>2
    <3>4. CASE z # x
      <4>1. g2.hi[z] = g.hi[z] BY <1>7, <3>1, <3>4
      <4>2. z = y \/ ns[z].next # y BY <2>2, <3>4 DEF Aside
      <4>3. ns[z].next # 0 => ns[z].next # y
        <5>1. z = y /\ ns[z].next = y => FALSE
          <6> SUFFICES ASSUME z = y, ns[y].next = y PROVE FALSE OBVIOUS
          <6>1. y # 0 /\ y \in DOMAIN ns BY <1>1, <1>p, <1>2, TypesOf
          <6>2. g.pos[y] < g.pos[y] BY <1>1, <1>p, <6>1 DEF Chained
          <6>3. g.pos[y] \in Nat BY <1>1, <1>2, TypesOf
          <6> QED BY <6>2, <6>3
        <5> QED BY <4>2, <5>1
      <4>4. ns[z].next # 0 => g2.lo[ns[z].next] = g.lo[ns[z].next] BY <1>2, <1>7, <3>2, <4>3
      <4> QED BY <3>1, <3>2, <4>1, <4>4
    <3> QED BY <3>3, <3>4
  <2>3. \A z \in DOMAIN ns : g.level[z] = 0 /\ ns[z].next # 0 =>
          /\ ns[z].next \in DOMAIN ns /\ g.level[ns[z].next] = 0 /\ g.pos[ns[z].next] < g.pos[z]
    BY <1>1 DEF Chained
  <2> QED BY <1>7, <1>12, <2>1, <2>2, <2>3 DEF Chained
<1>18. Halved(g2) BY <1>7 DEF Halved
<1>19. Shape(ns2, root, g2) BY <1>13, <1>14, <1>15, <1>16, <1>17, <1>18 DEF Shape
<1> QED BY <1>19 DEF ns2, g2, r, n

(* x takes over what y is for, and the parent forgets y. *)
Merged(g, x, y) ==
  [L |-> g.L \ {y}, level |-> g.level, lo |-> g.lo, hi |-> [g.hi EXCEPT ![x] = g.hi[y]],
   pos |-> g.pos, left |-> 0, right |-> 0]

Joined(ns, root, g, p, j, x, y, both, ns2) ==
  /\ Shape(ns2, root, Merged(g, x, y)) /\ DOMAIN ns2 = DOMAIN ns
  /\ \A z \in DOMAIN ns : ns2[z] = IF z = p THEN DropEntry(ns[p], ns[p].entries[j].key)
                                   ELSE IF z = x THEN Leaf(both, ns[y].next) ELSE ns[z]

(* The left neighbour takes over the interval of the right one, which leaves the tree.
   *)
LEMMA MergeKeeps ==
  ASSUME BTreeAssumption, NEW ns, NEW root, NEW g, Shape(ns, root, g), g.left = 0,
         NEW p, NEW j, NEW x, NEW y, Pair(ns, g, p, j, x, y), Aside(ns, g, p, j, x, y),
         NEW both \in Maps
  PROVE  Joined(ns, root, g, p, j, x, y, both,
                [[ns EXCEPT ![x] = Leaf(both, ns[y].next)]
                    EXCEPT ![p] = DropEntry(ns[p], ns[p].entries[j].key)])
<1> DEFINE n == ns[p]
           k == n.entries[j].key
           r == DropEntry(n, k)
           leaf == Leaf(both, ns[y].next)
           ns1 == [ns EXCEPT ![x] = leaf]
           ns2 == [ns1 EXCEPT ![p] = r]
           g2 == Merged(g, x, y)
           h == Len(n.entries) - 1
<1>1. /\ Typed(ns, g) /\ Rooted(root, g) /\ Apart(g) /\ Routed(ns, g) /\ Chained(ns, g) /\ Halved(g)
  BY DEF Shape
<1>p. /\ p \in g.L /\ x \in g.L /\ y \in g.L /\ x # y /\ p # x /\ p # y
      /\ g.level[x] = 0 /\ g.level[y] = 0 /\ g.level[p] = 1
      /\ j \in 1..Len(n.entries) /\ x = Child(n, j - 1) /\ y = Child(n, j)
      /\ n.entries[j].key = g.lo[y] /\ g.lo[y] # 0
      /\ g.hi[x] = g.lo[y] /\ g.lo[x] < g.lo[y] /\ (g.hi[y] = 0 \/ g.lo[y] < g.hi[y])
      /\ ns[x].next = y
  BY DEF Pair
<1>2. /\ p \in DOMAIN ns /\ ns \in Seq(Nodes) /\ g.L \subseteq DOMAIN ns /\ g.L \subseteq Nat
      /\ p \in Nat /\ x \in Nat /\ y \in Nat /\ g \in Ghosts
      /\ \A z \in Nat : g.level[z] \in Nat /\ g.lo[z] \in Nat /\ g.hi[z] \in Nat /\ g.pos[z] \in Nat
  BY <1>1, <1>p, TypesOf DEF Typed
<1>3. /\ n \in Routers /\ Good(n, g, g.level[p], g.lo[p], g.hi[p], Known(g)) /\ Ascending(n)
  <2>1. g.level[p] > 0 BY <1>p
  <2> QED BY <1>p, <2>1, BoundsGrow, Ascends
<1>4. /\ Len(n.entries) \in Nat /\ Slots(n) = 0..Len(n.entries) /\ h \in Nat /\ h + 1 = Len(n.entries)
      /\ j \in 1..(h + 1)
  <2>1. Len(n.entries) \in Nat /\ Slots(n) = 0..Len(n.entries) BY <1>3, RouterHas DEF Slots
  <2> QED BY <1>p, <2>1
<1>6. \A z \in Nat : Known(g)[z] = g.hi[z]
  <2>1. \A z \in Nat : Known(g)[z] = (IF z = g.left THEN g.hi[g.right] ELSE g.hi[z]) BY <1>1, TypesOf
  <2>2. g.right = 0 BY <1>1 DEF Halved
  <2> QED BY <2>1, <2>2
<1>7. /\ g2 \in Ghosts /\ g2.L = g.L \ {y} /\ g2.level = g.level /\ g2.lo = g.lo /\ g2.pos = g.pos
      /\ g2.left = 0 /\ g2.right = 0
      /\ \A z \in Nat : g2.hi[z] = IF z = x THEN g.hi[y] ELSE g.hi[z]
      /\ \A z \in Nat : Known(g2)[z] = g2.hi[z]
  BY <1>2 DEF Ghosts, Merged, Known
<1> HIDE DEF g2
<1>8. ns[y] \in Leaves /\ ns[y].next \in Nat /\ y \in DOMAIN ns /\ x \in DOMAIN ns /\ y # 0
  <2>1. y \in DOMAIN ns /\ x \in DOMAIN ns BY <1>2, <1>p
  <2>2. ns[y] \in Leaves BY <1>1, <1>p, <2>1, LeafOf
  <2>3. y # 0 BY <1>1, <2>1, TypesOf
  <2> QED BY <2>1, <2>2, <2>3, LeafHas
<1>9. leaf \in Nodes /\ IsLeaf(leaf) /\ leaf.next = ns[y].next BY <1>8, LeafFrom
<1>10. ASSUME NEW i \in 0..h, NEW a, NEW b
       PROVE  /\ r \in Routers /\ Len(r.entries) = h /\ Slots(r) = 0..h
              /\ Child(r, i) = IF i < j THEN Child(n, i) ELSE Child(n, i + 1)
              /\ KeyAt(r, i, a) = IF i < j THEN KeyAt(n, i, a) ELSE KeyAt(n, i + 1, a)
              /\ EndAt(r, i, b) = IF i < j - 1 THEN EndAt(n, i, b) ELSE EndAt(n, i + 1, b)
  <2>1. k = n.entries[j].key OBVIOUS
  <2>2. Dropped(r, n, j, i, a, b)
    <3> HIDE DEF n, k
    <3> QED BY <1>3, <1>p, <2>1, DropSlots
  <2> HIDE DEF r, n
  <2> QED BY <2>2 DEF Dropped
<1>11. r \in Routers /\ Len(r.entries) = h /\ Slots(r) = 0..h /\ r \in Nodes /\ ~IsLeaf(r)
  <2>1. 0 \in 0..h BY <1>4
  <2>2. r \in Routers /\ Len(r.entries) = h /\ Slots(r) = 0..h
    <3> HIDE DEF h, r
    <3> QED BY <1>10, <2>1
  <2> QED BY <2>2, RouterHas DEF Nodes
<1> HIDE DEF r, leaf
<1>12. /\ ns2 \in Seq(Nodes) /\ DOMAIN ns2 = DOMAIN ns
       /\ \A z \in DOMAIN ns : ns2[z] = IF z = p THEN r ELSE IF z = x THEN leaf ELSE ns[z]
  <2>1. /\ ns1 \in Seq(Nodes) /\ DOMAIN ns1 = DOMAIN ns
        /\ \A z \in DOMAIN ns : ns1[z] = IF z = x THEN leaf ELSE ns[z]
    BY <1>2, <1>8, <1>9, PutPage
  <2> HIDE DEF ns1
  <2>2. /\ ns2 \in Seq(Nodes) /\ DOMAIN ns2 = DOMAIN ns1
        /\ \A z \in DOMAIN ns1 : ns2[z] = IF z = p THEN r ELSE ns1[z]
    BY <1>2, <1>11, <2>1, PutPage
  <2> QED BY <2>1, <2>2
<1> HIDE DEF ns2
<1>13. Typed(ns2, g2)
  <2>1. ASSUME NEW z \in DOMAIN ns
        PROVE  /\ IsLeaf(ns2[z]) <=> g2.level[z] = 0
               /\ g2.level[z] > 0 => z \in g2.L /\ Len(ns2[z].entries) <= MaxInternalKeys
    <3>1. CASE z = p
      <4>1. Len(n.entries) <= MaxInternalKeys
        <5>1. g.level[p] > 0 BY <1>p
        <5> QED BY <1>1, <1>2, <5>1 DEF Typed
      <4>2. p \in g2.L /\ g2.level[p] = 1 /\ ns2[p] = r BY <1>2, <1>7, <1>12, <1>p
      <4>3. h <= MaxInternalKeys
        <5>1. MaxInternalKeys \in Nat BY DEF BTreeAssumption
        <5> HIDE DEF n, h
        <5> QED BY <1>4, <4>1, <5>1
      <4> HIDE DEF h, n
      <4> QED BY <1>11, <3>1, <4>2, <4>3
    <3>2. CASE z = x BY <1>7, <1>9, <1>12, <1>p, <3>2
    <3>3. CASE z # p /\ z # x
      <4>1. ns2[z] = ns[z] /\ g2.level[z] = g.level[z] BY <1>7, <1>12, <3>3
      <4>2. g.level[z] > 0 => z # y BY <1>p
      <4> QED BY <1>1, <1>7, <4>1, <4>2 DEF Typed
    <3> QED BY <3>1, <3>2, <3>3
  <2> QED BY <1>2, <1>7, <1>12, <2>1 DEF Typed
<1>14. Rooted(root, g2)
  <2>1. root \in g.L /\ g.lo[root] = 0 /\ Known(g)[root] = 0 /\ \A z \in g.L : g.level[z] <= g.level[root]
    BY <1>1 DEF Rooted
  <2>2. root # x /\ root # y /\ root \in Nat
    <3>1. root \in Nat /\ g.level[p] <= g.level[root] BY <1>2, <1>p, <2>1
    <3> QED BY <1>2, <1>p, <3>1
  <2>3. g2.lo[root] = 0 /\ Known(g2)[root] = 0 BY <1>6, <1>7, <2>1, <2>2
  <2> QED BY <1>7, <2>1, <2>2, <2>3 DEF Rooted
<1>15. Apart(g2)
  <2>1. ASSUME NEW z \in g2.L PROVE g2.hi[z] = 0 \/ g2.lo[z] < g2.hi[z]
    <3>1. z \in Nat /\ (g.hi[z] = 0 \/ g.lo[z] < g.hi[z]) BY <1>1, <1>2, <1>7 DEF Apart
    <3>2. CASE z # x BY <1>7, <3>1, <3>2
    <3>3. CASE z = x
      <4>1. g2.hi[z] = g.hi[y] /\ g2.lo[z] = g.lo[x] BY <1>2, <1>7, <3>3
      <4>2. g.lo[x] \in Nat /\ g.lo[y] \in Nat /\ g.hi[y] \in Nat BY <1>2
      <4> QED BY <1>p, <4>1, <4>2
    <3> QED BY <3>2, <3>3
  <2>2. ASSUME NEW z \in g2.L, g.level[z] = 0, z # x PROVE Before(g2, z, x) \/ Before(g2, x, z)
    <3>1. z # y /\ z \in g.L /\ z \in Nat BY <1>2, <1>7
    <3>2. Before(g, z, x) \/ Before(g, y, z) BY <2>2, <3>1 DEF Aside
    <3>3. g2.hi[z] = g.hi[z] /\ g2.lo = g.lo /\ g2.hi[x] = g.hi[y] BY <1>2, <1>7, <2>2, <3>1
    <3> QED BY <3>2, <3>3 DEF Before
  <2>3. ASSUME NEW z \in g2.L, NEW w \in g2.L, g.level[z] = g.level[w], z # w
        PROVE  Before(g2, z, w) \/ Before(g2, w, z)
    <3>1. CASE z = x BY <1>p, <2>2, <2>3, <3>1
    <3>2. CASE w = x BY <1>p, <2>2, <2>3, <3>2
    <3>3. CASE z # x /\ w # x
      <4>1. /\ z \in g.L /\ w \in g.L /\ z \in Nat /\ w \in Nat /\ g2.lo = g.lo
            /\ g2.hi[z] = g.hi[z] /\ g2.hi[w] = g.hi[w]
        BY <1>2, <1>7, <3>3
      <4>2. Before(g, z, w) \/ Before(g, w, z) BY <1>1, <2>3, <4>1 DEF Apart
      <4> QED BY <4>1, <4>2 DEF Before
    <3> QED BY <3>1, <3>2, <3>3
  <2> QED BY <1>7, <2>1, <2>3 DEF Apart
<1>16. Routed(ns2, g2)
  <2> SUFFICES ASSUME NEW q \in g2.L, g.level[q] > 0
               PROVE  Good(ns2[q], g2, g.level[q], g.lo[q], g2.hi[q], Known(g2))
    BY <1>7 DEF Routed
  <2>1. q \in g.L /\ q # x /\ q # y /\ q \in Nat /\ q \in DOMAIN ns BY <1>2, <1>7, <1>p
  <2>2. g2.hi[q] = g.hi[q] BY <1>7, <2>1
  <2>3. Good(ns[q], g, g.level[q], g.lo[q], g.hi[q], Known(g)) BY <1>1, <2>1 DEF Routed
  <2>4. CASE q # p
    <3>1. \A i \in Slots(ns[q]) : Child(ns[q], i) \in g.L /\ Child(ns[q], i) # x /\ Child(ns[q], i) # y
      BY <2>1, <2>3, <2>4 DEF Aside, Good
    <3>2. \A i \in Slots(ns[q]) : LET c == Child(ns[q], i) IN
             c \in g2.L /\ g2.level[c] = g.level[c] /\ g2.lo[c] = g.lo[c] /\ Known(g2)[c] = Known(g)[c]
      BY <1>2, <1>6, <1>7, <3>1
    <3>3. Good(ns[q], g2, g.level[q], g.lo[q], g.hi[q], Known(g2)) BY <2>3, <3>2, GoodApart
    <3>4. ns2[q] = ns[q] BY <1>12, <2>1, <2>4
    <3> QED BY <2>2, <3>3, <3>4
  <2>5. CASE q = p
    <3>g. ASSUME NEW i \in Slots(n)
          PROVE  /\ Child(n, i) \in g.L /\ g.level[Child(n, i)] + 1 = g.level[p]
                 /\ g.lo[Child(n, i)] = KeyAt(n, i, g.lo[p]) /\ Known(g)[Child(n, i)] = EndAt(n, i, g.hi[p])
                 /\ i # 0 => n.entries[i].key # 0
                 /\ (Child(n, i) = x <=> i = j - 1) /\ (Child(n, i) = y <=> i = j) /\ Child(n, i) \in Nat
      <4>1. g.level[p] > 0 BY <1>p
      <4>2. Child(n, i) \in g.L BY <1>3 DEF Good
      <4>3. (Child(n, i) = x <=> i = j - 1) /\ (Child(n, i) = y <=> i = j) BY <1>p, <4>1 DEF Aside
      <4> QED BY <1>2, <1>3, <4>2, <4>3 DEF Good
    <3>1. ASSUME NEW i \in 0..h
          PROVE  /\ Child(r, i) \in g2.L /\ g2.level[Child(r, i)] + 1 = g.level[p]
                 /\ g2.lo[Child(r, i)] = KeyAt(r, i, g.lo[p])
                 /\ Known(g2)[Child(r, i)] = EndAt(r, i, g.hi[p])
                 /\ i # 0 => r.entries[i].key # 0
      <4> DEFINE m == IF i < j THEN i ELSE i + 1
      <4>1. /\ m \in Slots(n) /\ i + 1 \in Slots(n) /\ m # j /\ (i < j => m = i) /\ (~(i < j) => m = i + 1)
            /\ (i # 0 => m # 0) /\ (i < j - 1 => m = i) /\ (i > j - 1 => m = i + 1)
            /\ (m = j - 1 <=> i = j - 1)
        <5> HIDE DEF n, h
        <5> QED BY <1>4
      <4> HIDE DEF m
      <4>2. /\ Child(r, i) = Child(n, m) /\ KeyAt(r, i, g.lo[p]) = KeyAt(n, m, g.lo[p])
            /\ EndAt(r, i, g.hi[p]) = IF i < j - 1 THEN EndAt(n, i, g.hi[p]) ELSE EndAt(n, i + 1, g.hi[p])
        BY <1>10, <4>1
      <4> DEFINE c == Child(n, m)
      <4>3. /\ c \in g.L /\ g.level[c] + 1 = g.level[p]
            /\ g.lo[c] = KeyAt(n, m, g.lo[p]) /\ Known(g)[c] = EndAt(n, m, g.hi[p])
            /\ m # 0 => n.entries[m].key # 0
            /\ (c = x <=> m = j - 1) /\ c # y /\ c \in Nat
        BY <3>g, <4>1
      <4> HIDE DEF c
      <4>4. c \in g2.L /\ g2.level[c] + 1 = g.level[p] /\ g2.lo[c] = KeyAt(r, i, g.lo[p])
        BY <1>7, <4>2, <4>3
      <4>5. Known(g2)[c] = EndAt(r, i, g.hi[p])
        <5>1. CASE i = j - 1
          <6>1. c = x /\ i + 1 = j /\ ~(i < j - 1) /\ i + 1 \in Slots(n) BY <1>4, <4>1, <4>3, <5>1
          <6>2. Known(g2)[c] = g.hi[y] BY <1>2, <1>7, <6>1
          <6>3. Child(n, i + 1) = y BY <3>g, <6>1
          <6>4. Known(g)[y] = EndAt(n, i + 1, g.hi[p]) BY <3>g, <6>1, <6>3
          <6> QED BY <1>2, <1>6, <4>2, <6>1, <6>2, <6>4
        <5>2. CASE i # j - 1
          <6>1. c # x BY <4>1, <4>3, <5>2
          <6>2. Known(g2)[c] = EndAt(n, m, g.hi[p]) BY <1>6, <1>7, <4>3, <6>1
          <6>3. EndAt(r, i, g.hi[p]) = EndAt(n, m, g.hi[p])
            <7>1. i < j - 1 \/ i > j - 1 BY <1>4, <5>2
            <7>2. i > j - 1 => ~(i < j - 1) BY <1>4
            <7> HIDE DEF n, h
            <7> QED BY <4>1, <4>2, <7>1, <7>2
          <6> QED BY <6>2, <6>3
        <5> QED BY <5>1, <5>2
      <4>6. i # 0 => r.entries[i].key # 0
        <5> SUFFICES ASSUME i # 0 PROVE r.entries[i].key # 0 OBVIOUS
        <5>1. m # 0 BY <4>1
        <5>2. KeyAt(r, i, g.lo[p]) = r.entries[i].key /\ KeyAt(n, m, g.lo[p]) = n.entries[m].key
          BY <5>1 DEF KeyAt
        <5> QED BY <4>2, <4>3, <5>1, <5>2
      <4> QED BY <4>2, <4>4, <4>5, <4>6 DEF c
    <3>2. Good(r, g2, g.level[p], g.lo[p], g.hi[p], Known(g2)) BY <1>11, <3>1 DEF Good
    <3> QED BY <1>12, <2>1, <2>2, <2>5, <3>2
  <2> QED BY <2>4, <2>5
<1>17. Chained(ns2, g2)
  <2>0. \A z \in DOMAIN ns : g.level[z] = 0 /\ ns[z].next # 0 =>
          /\ ns[z].next \in DOMAIN ns /\ g.level[ns[z].next] = 0 /\ g.pos[ns[z].next] < g.pos[z]
    BY <1>1 DEF Chained
  <2>1. \A z \in DOMAIN ns : g.level[z] = 0 => ns2[z].next = IF z = x THEN ns[y].next ELSE ns[z].next
    BY <1>9, <1>12, <1>p
  <2>2. ASSUME NEW z \in g2.L, g.level[z] = 0
        PROVE  /\ ns2[z].next = 0 <=> g2.hi[z] = 0
               /\ ns2[z].next # 0 => ns2[z].next \in g2.L /\ g2.lo[ns2[z].next] = g2.hi[z]
    <3>1. z \in g.L /\ z # y /\ z \in Nat /\ z \in DOMAIN ns BY <1>2, <1>7
    <3>2. \A w \in g.L : g.level[w] = 0 =>
            /\ ns[w].next = 0 <=> g.hi[w] = 0
            /\ ns[w].next # 0 => ns[w].next \in g.L /\ g.lo[ns[w].next] = g.hi[w]
      BY <1>1 DEF Chained
    <3>3. CASE z = x
      <4>1. ns2[z].next = ns[y].next /\ g2.hi[z] = g.hi[y] BY <1>7, <2>1, <2>2, <3>1, <3>3
      <4>2. ns[y].next # 0 => ns[y].next # y
        <5>1. ns[y].next # 0 => g.pos[ns[y].next] < g.pos[y] BY <1>8, <1>p, <2>0
        <5>2. g.pos[y] \in Nat BY <1>2
        <5> QED BY <5>1, <5>2
      <4>3. /\ ns[y].next = 0 <=> g.hi[y] = 0
            /\ ns[y].next # 0 => ns[y].next \in g.L /\ g.lo[ns[y].next] = g.hi[y]
        BY <1>p, <3>2
      <4> QED BY <1>7, <4>1, <4>2, <4>3
    <3>4. CASE z # x
      <4>1. ns2[z].next = ns[z].next /\ g2.hi[z] = g.hi[z] BY <1>7, <2>1, <2>2, <3>1, <3>4
      <4>2. ns[z].next # y BY <2>2, <3>1, <3>4 DEF Aside
      <4>3. /\ ns[z].next = 0 <=> g.hi[z] = 0
            /\ ns[z].next # 0 => ns[z].next \in g.L /\ g.lo[ns[z].next] = g.hi[z]
        BY <2>2, <3>1, <3>2
      <4> QED BY <1>7, <4>1, <4>2, <4>3
    <3> QED BY <3>3, <3>4
  <2>3. ASSUME NEW z \in DOMAIN ns, g.level[z] = 0, ns2[z].next # 0
        PROVE  /\ ns2[z].next \in DOMAIN ns /\ g.level[ns2[z].next] = 0
               /\ g.pos[ns2[z].next] < g.pos[z]
    <3>1. CASE z = x
      <4>1. ns2[z].next = ns[y].next BY <2>1, <2>3, <3>1
      <4>2. /\ ns[y].next \in DOMAIN ns /\ g.level[ns[y].next] = 0 /\ g.pos[ns[y].next] < g.pos[y]
        BY <1>8, <1>p, <2>0, <2>3, <4>1
      <4>3. g.pos[y] < g.pos[x] BY <1>8, <1>p, <2>0
      <4>4. g.pos[ns[y].next] \in Nat /\ g.pos[y] \in Nat /\ g.pos[x] \in Nat BY <1>2, <1>8
      <4> QED BY <3>1, <4>1, <4>2, <4>3, <4>4
    <3>2. CASE z # x BY <2>0, <2>1, <2>3, <3>2
    <3> QED BY <3>1, <3>2
  <2> QED BY <1>7, <1>12, <2>2, <2>3 DEF Chained
<1>18. Halved(g2) BY <1>7 DEF Halved
<1>19. Shape(ns2, root, g2) BY <1>13, <1>14, <1>15, <1>16, <1>17, <1>18 DEF Shape
<1>20. Joined(ns, root, g, p, j, x, y, both, ns2) BY <1>12, <1>19 DEF Joined, g2, r, leaf
<1> QED BY <1>20 DEF ns2, ns1, r, leaf, n, k

-----------------------------------------------------------------------------
(* What two leaves hold when their keys are shared out anew, at f. *)

From(ns, x, y, k, rid) ==
  \/ k \in DOMAIN ns[x].rids /\ rid = ns[x].rids[k]
  \/ k \in DOMAIN ns[y].rids /\ rid = ns[y].rids[k]

Shared(ns, x, y, a, b, f) ==
  /\ \A k \in DOMAIN a : k < f /\ From(ns, x, y, k, a[k])
  /\ \A k \in DOMAIN b : f <= k /\ From(ns, x, y, k, b[k])
  /\ \A k \in DOMAIN ns[x].rids \cup DOMAIN ns[y].rids : k \in DOMAIN a \/ k \in DOMAIN b

(* A borrowing, whichever way it goes: the leaves hold the same, and each key is where
   it belongs. *)
LEMMA ShiftFiled ==
  ASSUME NEW ns, NEW root, NEW g, Shape(ns, root, g), g.left = 0, NEW W, Filed(ns, root, g, W, {}),
         NEW p, NEW j, NEW x, NEW y, Pair(ns, g, p, j, x, y), Aside(ns, g, p, j, x, y),
         NEW a \in Maps, NEW b \in Maps, NEW f \in Nat, f \in DOMAIN b, DOMAIN a # {},
         Shared(ns, x, y, a, b, f)
  PROVE  LET moved == [[ns EXCEPT ![x] = Leaf(a, ns[x].next)] EXCEPT ![y] = Leaf(b, ns[y].next)]
             ns3 == [moved EXCEPT ![p] = SetEntryKey(ns[p], y, f)]
         IN  \E g2 : Shape(ns3, root, g2) /\ g2.left = 0 /\ Filed(ns3, root, g2, W, {})
<1> DEFINE ns1 == [ns EXCEPT ![x] = Leaf(a, ns[x].next)]
           ns2 == [ns1 EXCEPT ![y] = Leaf(b, ns[y].next)]
           ns3 == [ns2 EXCEPT ![p] = SetEntryKey(ns[p], y, f)]
           g2 == Shifted(g, x, y, f)
<1>1. Typed(ns, g) BY DEF Shape
<1>p. /\ p \in g.L /\ x \in g.L /\ y \in g.L /\ x # y /\ p # x /\ p # y
      /\ g.level[x] = 0 /\ g.level[y] = 0 /\ g.level[p] = 1
      /\ j \in 1..Len(ns[p].entries) /\ x = Child(ns[p], j - 1) /\ y = Child(ns[p], j)
      /\ g.hi[x] = g.lo[y] /\ g.lo[x] < g.lo[y] /\ (g.hi[y] = 0 \/ g.lo[y] < g.hi[y])
  BY DEF Pair
<1>2. /\ g.L \subseteq DOMAIN ns /\ g.L \subseteq Nat /\ x \in Nat /\ y \in Nat /\ p \in Nat /\ g \in Ghosts
      /\ \A z \in Nat : g.level[z] \in Nat /\ g.lo[z] \in Nat /\ g.hi[z] \in Nat
  BY <1>1, <1>p, TypesOf DEF Typed
<1>3. ns[x] \in Leaves /\ ns[y] \in Leaves /\ ns[x].next \in Nat /\ ns[y].next \in Nat
  <2>1. ns[x] \in Leaves /\ ns[y] \in Leaves BY <1>1, <1>2, <1>p, LeafOf
  <2> QED BY <2>1, LeafHas
<1>4. /\ Shape(ns1, root, g) /\ DOMAIN ns1 = DOMAIN ns
      /\ \A z \in DOMAIN ns : ns1[z] = IF z = x THEN Leaf(a, ns[x].next) ELSE ns[z]
  BY <1>p, PutKeeps
<1> HIDE DEF ns1
<1>5. ns1[y].next = ns[y].next BY <1>2, <1>4, <1>p
<1>6. /\ Shape(ns2, root, g) /\ DOMAIN ns2 = DOMAIN ns
      /\ \A z \in DOMAIN ns : ns2[z] = IF z = y THEN Leaf(b, ns[y].next)
                                       ELSE IF z = x THEN Leaf(a, ns[x].next) ELSE ns[z]
  <2>1. /\ Shape([ns1 EXCEPT ![y] = Leaf(b, ns1[y].next)], root, g)
        /\ \A z \in DOMAIN ns1 : [ns1 EXCEPT ![y] = Leaf(b, ns1[y].next)][z] =
              IF z = y THEN Leaf(b, ns1[y].next) ELSE ns1[z]
        /\ DOMAIN [ns1 EXCEPT ![y] = Leaf(b, ns1[y].next)] = DOMAIN ns1
    BY <1>4, <1>p, PutKeeps
  <2> QED BY <1>4, <1>5, <2>1
<1> HIDE DEF ns2
<1>7. ns2[p] = ns[p] BY <1>2, <1>6, <1>p
<1>8. Pair(ns2, g, p, j, x, y) /\ Aside(ns2, g, p, j, x, y)
  <2>1. j \in 1..Len(ns2[p].entries) /\ x = Child(ns2[p], j - 1) /\ y = Child(ns2[p], j) BY <1>7, <1>p
  <2>2. /\ Pair(ns2, g, p, j, Child(ns2[p], j - 1), Child(ns2[p], j))
        /\ Aside(ns2, g, p, j, Child(ns2[p], j - 1), Child(ns2[p], j))
    BY <1>6, <1>p, <2>1, PairIs
  <2> QED BY <2>1, <2>2
<1>9. \A k \in DOMAIN ns[x].rids : k \in Nat /\ Covers(g, x, k) BY <1>3, <1>p, LeafHas DEF Filed
<1>10. \A k \in DOMAIN ns[y].rids : k \in Nat /\ Covers(g, y, k) BY <1>3, <1>p, LeafHas DEF Filed
<1>11. ASSUME NEW k, NEW rid, From(ns, x, y, k, rid)
       PROVE  k \in Nat /\ g.lo[x] <= k /\ (g.hi[y] = 0 \/ k < g.hi[y])
  <2>0. g.lo[x] \in Nat /\ g.lo[y] \in Nat /\ g.hi[x] \in Nat /\ g.hi[y] \in Nat BY <1>2
  <2>1. CASE k \in DOMAIN ns[x].rids
    <3>1. k \in Nat /\ g.lo[x] <= k /\ (g.hi[x] = 0 \/ k < g.hi[x]) BY <1>9, <2>1 DEF Covers, Within
    <3> QED BY <1>p, <2>0, <3>1
  <2>2. CASE k \in DOMAIN ns[y].rids
    <3>1. k \in Nat /\ g.lo[y] <= k /\ (g.hi[y] = 0 \/ k < g.hi[y]) BY <1>10, <2>2 DEF Covers, Within
    <3> QED BY <1>p, <2>0, <3>1
  <2> QED BY <1>11, <2>1, <2>2 DEF From
<1>12. g.lo[x] < f /\ (g.hi[y] = 0 \/ f < g.hi[y])
  <2>1. PICK e \in DOMAIN a : TRUE OBVIOUS
  <2>2. e < f /\ e \in Nat /\ g.lo[x] <= e BY <1>11, <2>1 DEF Shared
  <2>3. g.hi[y] = 0 \/ f < g.hi[y] BY <1>11 DEF Shared
  <2> QED BY <1>2, <2>2, <2>3
<1>13. Shape(ns3, root, g2)
  <2>1. Shape([ns2 EXCEPT ![p] = SetEntryKey(ns2[p], y, f)], root, g2)
    BY <1>6, <1>8, <1>12, ShiftKeeps
  <2> QED BY <1>7, <2>1
<1>14. /\ g2.L = g.L /\ g2.level = g.level /\ g2.left = 0
       /\ \A z \in Nat : g2.lo[z] = IF z = y THEN f ELSE g.lo[z]
       /\ \A z \in Nat : g2.hi[z] = IF z = x THEN f ELSE g.hi[z]
  BY <1>2 DEF Ghosts, Shifted
<1> HIDE DEF g2
<1>15. ASSUME NEW z \in g.L, g.level[z] = 0
       PROVE  ns3[z].rids = IF z = y THEN b ELSE IF z = x THEN a ELSE ns[z].rids
  <2>1. z # p /\ z \in DOMAIN ns2 /\ z \in DOMAIN ns BY <1>2, <1>6, <1>p, <1>15
  <2>2. ns3[z] = ns2[z] BY <2>1
  <2>3. Leaf(b, ns[y].next).rids = b /\ Leaf(a, ns[x].next).rids = a BY <1>3, LeafFrom
  <2> QED BY <1>6, <2>1, <2>2, <2>3
<1> HIDE DEF ns3
<1>16. f \in Nat /\ f # 0 BY <1>2, <1>12, <1>p
<1>17. ASSUME NEW z \in g.L, g.level[z] = 0, NEW k \in DOMAIN ns3[z].rids
       PROVE  /\ Covers(g2, z, k)
              /\ \E w \in g.L : g.level[w] = 0 /\ k \in DOMAIN ns[w].rids /\ ns3[z].rids[k] = ns[w].rids[k]
  <2>0. z \in Nat BY <1>2
  <2>1. CASE z = x
    <3>1. ns3[z].rids = a /\ g2.lo[z] = g.lo[x] /\ g2.hi[z] = f BY <1>2, <1>14, <1>15, <1>p, <2>1
    <3>2. k < f /\ From(ns, x, y, k, a[k]) BY <1>17, <3>1 DEF Shared
    <3>3. g.lo[x] <= k BY <1>11, <3>2
    <3> QED BY <1>p, <3>1, <3>2, <3>3 DEF Covers, Within, From
  <2>2. CASE z = y
    <3>1. ns3[z].rids = b /\ g2.lo[z] = f /\ g2.hi[z] = g.hi[y] BY <1>2, <1>14, <1>15, <1>p, <2>2
    <3>2. f <= k /\ From(ns, x, y, k, b[k]) BY <1>17, <3>1 DEF Shared
    <3>3. g.hi[y] = 0 \/ k < g.hi[y] BY <1>11, <3>2
    <3> QED BY <1>p, <3>1, <3>2, <3>3 DEF Covers, Within, From
  <2>3. CASE z # x /\ z # y
    <3>1. ns3[z].rids = ns[z].rids /\ g2.lo[z] = g.lo[z] /\ g2.hi[z] = g.hi[z]
      BY <1>14, <1>15, <1>17, <2>0, <2>3
    <3>2. Covers(g, z, k) BY <1>17, <3>1 DEF Filed
    <3> QED BY <1>17, <3>1, <3>2 DEF Covers
  <2> QED BY <2>1, <2>2, <2>3
<1>18. ASSUME NEW w \in g.L, g.level[w] = 0, NEW k \in DOMAIN ns[w].rids
       PROVE  \E z \in g.L : g.level[z] = 0 /\ k \in DOMAIN ns3[z].rids
  <2>1. CASE w \in {x, y}
    <3>1. k \in DOMAIN a \/ k \in DOMAIN b BY <1>18, <2>1 DEF Shared
    <3>2. ns3[x].rids = a /\ ns3[y].rids = b BY <1>15, <1>p
    <3> QED BY <1>p, <3>1, <3>2
  <2>2. CASE w \notin {x, y} BY <1>15, <1>18, <2>2
  <2> QED BY <2>1, <2>2
<1>19. Keeps(ns, g, ns3, g2) BY <1>14, <1>17, <1>18 DEF Keeps
<1>20. ASSUME NEW z \in g2.L, g2.level[z] = 0 PROVE DOMAIN ns3[z].rids # {}
  <2>0. z \in g.L /\ g.level[z] = 0 BY <1>14, <1>20
  <2>1. CASE z \in {x, y} BY <1>15, <2>0, <2>1
  <2>2. CASE z \notin {x, y}
    <3>1. g.level[root] > 0 /\ x # root
      <4>1. root \in g.L /\ g.level[p] <= g.level[root] BY <1>p DEF Shape, Rooted
      <4> QED BY <1>2, <1>p, <4>1
    <3>2. DOMAIN ns[z].rids # {} BY <1>p, <2>0, <2>2, <3>1, NoneEmpty
    <3> QED BY <1>15, <2>0, <2>2, <3>2
  <2> QED BY <2>1, <2>2
<1>21. Filed(ns3, root, g2, W, {}) BY <1>19, <1>20, FiledKeeps
<1> QED BY <1>13, <1>14, <1>21 DEF ns3, ns2, ns1

(* A merge: the left leaf holds what both of them held. *)
LEMMA MergeFiled ==
  ASSUME BTreeAssumption,
         NEW ns, NEW root, NEW g, Shape(ns, root, g), g.left = 0, NEW W, Filed(ns, root, g, W, {}),
         NEW p, NEW j, NEW x, NEW y, Pair(ns, g, p, j, x, y), Aside(ns, g, p, j, x, y),
         NEW both \in Maps, DOMAIN both = DOMAIN ns[x].rids \cup DOMAIN ns[y].rids, DOMAIN both # {},
         \A k \in DOMAIN both : From(ns, x, y, k, both[k])
  PROVE  LET ns2 == [[ns EXCEPT ![x] = Leaf(both, ns[y].next)]
                       EXCEPT ![p] = DropEntry(ns[p], ns[p].entries[j].key)]
         IN  \E g2 : Shape(ns2, root, g2) /\ g2.left = 0 /\ Filed(ns2, root, g2, W, {})
<1> DEFINE r == DropEntry(ns[p], ns[p].entries[j].key)
           ns2 == [[ns EXCEPT ![x] = Leaf(both, ns[y].next)] EXCEPT ![p] = r]
           g2 == Merged(g, x, y)
<1>1. Typed(ns, g) BY DEF Shape
<1>p. /\ p \in g.L /\ x \in g.L /\ y \in g.L /\ x # y /\ p # x /\ p # y
      /\ g.level[x] = 0 /\ g.level[y] = 0 /\ g.level[p] = 1
      /\ g.hi[x] = g.lo[y] /\ g.lo[x] < g.lo[y] /\ (g.hi[y] = 0 \/ g.lo[y] < g.hi[y])
  BY DEF Pair
<1>2. /\ g.L \subseteq DOMAIN ns /\ g.L \subseteq Nat /\ x \in Nat /\ y \in Nat /\ p \in Nat /\ g \in Ghosts
      /\ \A z \in Nat : g.level[z] \in Nat /\ g.lo[z] \in Nat /\ g.hi[z] \in Nat
  BY <1>1, <1>p, TypesOf DEF Typed
<1>3. ns[x] \in Leaves /\ ns[y] \in Leaves /\ ns[y].next \in Nat
  <2>1. ns[x] \in Leaves /\ ns[y] \in Leaves BY <1>1, <1>2, <1>p, LeafOf
  <2> QED BY <2>1, LeafHas
<1>4. Joined(ns, root, g, p, j, x, y, both, ns2) BY MergeKeeps
<1> HIDE DEF ns2, r
<1>5. /\ Shape(ns2, root, g2)
      /\ \A z \in DOMAIN ns : ns2[z] = IF z = p THEN r ELSE IF z = x THEN Leaf(both, ns[y].next) ELSE ns[z]
  BY <1>4 DEF Joined, r
<1>6. /\ g2.L = g.L \ {y} /\ g2.level = g.level /\ g2.left = 0 /\ g2.lo = g.lo
      /\ \A z \in Nat : g2.hi[z] = IF z = x THEN g.hi[y] ELSE g.hi[z]
  BY <1>2 DEF Ghosts, Merged
<1> HIDE DEF g2
<1>7. ASSUME NEW z \in g.L, g.level[z] = 0, z # y
      PROVE  ns2[z].rids = IF z = x THEN both ELSE ns[z].rids
  <2>1. z # p /\ z \in DOMAIN ns BY <1>2, <1>p, <1>7
  <2>2. Leaf(both, ns[y].next).rids = both BY <1>3, LeafFrom
  <2> QED BY <1>5, <2>1, <2>2
<1>9. \A k \in DOMAIN ns[x].rids : k \in Nat /\ Covers(g, x, k) BY <1>3, <1>p, LeafHas DEF Filed
<1>10. \A k \in DOMAIN ns[y].rids : k \in Nat /\ Covers(g, y, k) BY <1>3, <1>p, LeafHas DEF Filed
<1>11. ASSUME NEW k, NEW rid, From(ns, x, y, k, rid)
       PROVE  k \in Nat /\ g.lo[x] <= k /\ (g.hi[y] = 0 \/ k < g.hi[y])
  <2>0. g.lo[x] \in Nat /\ g.lo[y] \in Nat /\ g.hi[x] \in Nat /\ g.hi[y] \in Nat BY <1>2
  <2>1. CASE k \in DOMAIN ns[x].rids
    <3>1. k \in Nat /\ g.lo[x] <= k /\ (g.hi[x] = 0 \/ k < g.hi[x]) BY <1>9, <2>1 DEF Covers, Within
    <3> QED BY <1>p, <2>0, <3>1
  <2>2. CASE k \in DOMAIN ns[y].rids
    <3>1. k \in Nat /\ g.lo[y] <= k /\ (g.hi[y] = 0 \/ k < g.hi[y]) BY <1>10, <2>2 DEF Covers, Within
    <3> QED BY <1>p, <2>0, <3>1
  <2> QED BY <1>11, <2>1, <2>2 DEF From
<1>17. ASSUME NEW z \in g2.L, g2.level[z] = 0, NEW k \in DOMAIN ns2[z].rids
       PROVE  /\ Covers(g2, z, k)
              /\ \E w \in g.L : g.level[w] = 0 /\ k \in DOMAIN ns[w].rids /\ ns2[z].rids[k] = ns[w].rids[k]
  <2>0. z \in Nat /\ z \in g.L /\ z # y /\ g.level[z] = 0 BY <1>2, <1>6, <1>17
  <2>1. CASE z = x
    <3>1. ns2[z].rids = both /\ g2.lo[z] = g.lo[x] /\ g2.hi[z] = g.hi[y] BY <1>2, <1>6, <1>7, <1>p, <2>1
    <3>2. From(ns, x, y, k, both[k]) BY <1>17, <3>1
    <3>3. g.lo[x] <= k /\ (g.hi[y] = 0 \/ k < g.hi[y]) BY <1>11, <3>2
    <3> QED BY <1>p, <3>1, <3>2, <3>3 DEF Covers, Within, From
  <2>2. CASE z # x
    <3>1. ns2[z].rids = ns[z].rids /\ g2.lo[z] = g.lo[z] /\ g2.hi[z] = g.hi[z]
      BY <1>6, <1>7, <2>0, <2>2
    <3>2. Covers(g, z, k) BY <1>17, <2>0, <3>1 DEF Filed
    <3> QED BY <1>17, <2>0, <3>1, <3>2 DEF Covers
  <2> QED BY <2>1, <2>2
<1>18. ASSUME NEW w \in g.L, g.level[w] = 0, NEW k \in DOMAIN ns[w].rids
       PROVE  \E z \in g2.L : g2.level[z] = 0 /\ k \in DOMAIN ns2[z].rids
  <2>1. CASE w \in {x, y}
    <3>1. k \in DOMAIN both BY <1>18, <2>1
    <3>2. ns2[x].rids = both /\ x \in g2.L /\ g2.level[x] = 0 BY <1>6, <1>7, <1>p
    <3> QED BY <3>1, <3>2
  <2>2. CASE w \notin {x, y} BY <1>6, <1>7, <1>18, <2>2
  <2> QED BY <2>1, <2>2
<1>19. Keeps(ns, g, ns2, g2) BY <1>17, <1>18 DEF Keeps
<1>20. ASSUME NEW z \in g2.L, g2.level[z] = 0 PROVE DOMAIN ns2[z].rids # {}
  <2>0. z \in g.L /\ g.level[z] = 0 /\ z # y BY <1>6, <1>20
  <2>1. CASE z = x BY <1>7, <2>0, <2>1
  <2>2. CASE z # x
    <3>1. g.level[root] > 0 /\ x # root
      <4>1. root \in g.L /\ g.level[p] <= g.level[root] BY <1>p DEF Shape, Rooted
      <4> QED BY <1>2, <1>p, <4>1
    <3>2. DOMAIN ns[z].rids # {} BY <1>p, <2>0, <2>2, <3>1, NoneEmpty
    <3> QED BY <1>7, <2>0, <2>2, <3>2
  <2> QED BY <2>1, <2>2
<1>21. Filed(ns2, root, g2, W, {}) BY <1>19, <1>20, FiledKeeps
<1> QED BY <1>5, <1>6, <1>21 DEF ns2, r

-----------------------------------------------------------------------------
(* A leaf that runs low: its neighbours, and what is taken from them. *)

(* LeftSibling is the child before, or none for the first child. *)
LEMMA LeftIs ==
  ASSUME NEW ns, NEW root, NEW g, Shape(ns, root, g), NEW p \in g.L, g.level[p] > 0,
         NEW j \in Slots(ns[p])
  PROVE  LeftSibling(ns[p], Child(ns[p], j)) = IF j = 0 THEN 0 ELSE Child(ns[p], j - 1)
<1> DEFINE n == ns[p]
           m == Len(n.entries)
           s == [i \in DOMAIN n.entries |-> n.entries[i].child]
           cs == ChildrenOf(n)
           id == Child(n, j)
           Is(i) == i \in DOMAIN cs /\ cs[i] = id /\ \A l \in 1..(i - 1) : cs[l] # id
           at == CHOOSE i \in DOMAIN cs : cs[i] = id /\ \A l \in 1..(i - 1) : cs[l] # id
<1>1. n \in Routers BY BoundsGrow
<1>2. /\ n.child0 \in Nat /\ m \in Nat /\ DOMAIN n.entries = 1..m /\ Slots(n) = 0..m
      /\ \A i \in 1..m : n.entries[i].child \in Nat
  BY <1>1, RouterHas DEF Slots
<1>3. s \in Seq(Nat) /\ Len(s) = m /\ \A i \in 1..m : s[i] = n.entries[i].child
  <2>1. s \in [1..m -> Nat] BY <1>2
  <2>2. \A i \in 1..m : s[i] = n.entries[i].child BY <1>2
  <2> HIDE DEF s, m
  <2>3. s \in Seq(Nat) BY <1>2, <2>1, SeqDef
  <2>4. Len(s) = m BY <1>2, <2>1, <2>3, LenProperties
  <2> QED BY <2>2, <2>3, <2>4
<1>4. cs = <<n.child0>> \o s BY DEF ChildrenOf
<1> HIDE DEF s, cs, m
<1>5. /\ cs \in Seq(Nat) /\ Len(cs) = m + 1 /\ cs[1] = n.child0
      /\ \A i \in 1..m : cs[i + 1] = s[i]
  BY <1>2, <1>3, <1>4, OneLonger
<1>6. DOMAIN cs = 1..(m + 1) BY <1>5, LenProperties
<1>7. ASSUME NEW i \in 1..(m + 1) PROVE cs[i] = Child(n, i - 1) /\ i - 1 \in Slots(n)
  <2>1. CASE i = 1 BY <1>2, <1>5, <2>1 DEF Child
  <2>2. CASE i # 1
    <3>1. i - 1 \in 1..m /\ (i - 1) + 1 = i /\ i - 1 # 0 BY <1>2, <2>2
    <3>2. cs[(i - 1) + 1] = s[i - 1] BY <1>5, <3>1
    <3> QED BY <1>2, <1>3, <3>1, <3>2 DEF Child
  <2> QED BY <2>1, <2>2
<1>8. \A i \in Slots(n) : Child(n, i) = id => i = j
  <2>1. OneEach(ns, g) BY Parents
  <2> QED BY <2>1 DEF OneEach
<1>j. j \in 0..m /\ j + 1 \in 1..(m + 1) /\ (j + 1) - 1 = j BY <1>2
<1> HIDE DEF n, id
<1>9. cs[j + 1] = id BY <1>7, <1>j DEF id, n
<1>10. \A i \in 1..(m + 1) : cs[i] = id => i = j + 1
  <2>1. ASSUME NEW i \in 1..(m + 1), cs[i] = id PROVE i = j + 1
    <3>1. i - 1 = j BY <1>7, <1>8, <2>1
    <3> QED BY <1>2, <3>1
  <2> QED BY <2>1
<1>11. \A l \in 1..((j + 1) - 1) : cs[l] # id
  <2>1. \A l \in 1..((j + 1) - 1) : l \in 1..(m + 1) /\ l # j + 1 BY <1>2, <1>j
  <2> QED BY <1>10, <2>1
<1>12. at = j + 1
  <2>1. j + 1 \in DOMAIN cs /\ cs[j + 1] = id /\ \A l \in 1..((j + 1) - 1) : cs[l] # id
    BY <1>6, <1>9, <1>11, <1>j
  <2>2. at \in DOMAIN cs /\ cs[at] = id BY <2>1
  <2> HIDE DEF at
  <2> QED BY <1>6, <1>10, <2>2
<1>13. LeftSibling(n, id) = IF at = 1 THEN 0 ELSE cs[at - 1] BY DEF LeftSibling, cs
<1> HIDE DEF at
<1>14. CASE j = 0 BY <1>12, <1>13, <1>14 DEF id, n
<1>15. CASE j # 0
  <2>1. at # 1 /\ at - 1 = j /\ j \in 1..(m + 1) BY <1>12, <1>15, <1>j, <1>2
  <2>2. cs[j] = Child(n, j - 1) BY <1>7, <2>1
  <2> QED BY <1>13, <1>15, <2>1, <2>2 DEF id, n
<1> QED BY <1>14, <1>15

(* A set of more than one has another member. *)
LEMMA OneMore ==
  ASSUME NEW S, IsFiniteSet(S), Cardinality(S) > 1, NEW k PROVE S \ {k} # {}
<1> SUFFICES ASSUME S \ {k} = {} PROVE FALSE OBVIOUS
<1>1. S = {} \/ S = {k} OBVIOUS
<1>2. Cardinality(S) = 0 \/ Cardinality(S) = 1 BY <1>1, FS_EmptySet, FS_Singleton
<1> QED BY <1>2

Lent(ns, from, to, k) ==
  [ns EXCEPT ![from].rids = Without(@, {k}), ![to].rids = With(@, k, ns[from].rids[k])]

Moved(ns, from, to, a, b, moved) ==
  LET one == Leaf(a, ns[from].next)
      two == Leaf(b, ns[to].next)
  IN  /\ moved = [[ns EXCEPT ![from] = one] EXCEPT ![to] = two]
      /\ moved = [[ns EXCEPT ![to] = two] EXCEPT ![from] = one]
      /\ moved[from] = one /\ moved[to] = two
      /\ \A x \in DOMAIN ns : x # from /\ x # to => moved[x] = ns[x]

(* The pages after a record was lent, in whichever order they are written. *)
LEMMA MovedIs ==
  ASSUME NEW ns \in Seq(Nodes), NEW from \in DOMAIN ns, NEW to \in DOMAIN ns, from # to,
         ns[from] \in Leaves, ns[to] \in Leaves, NEW k, NEW a, NEW b,
         a = Without(ns[from].rids, {k}), b = With(ns[to].rids, k, ns[from].rids[k])
  PROVE  Moved(ns, from, to, a, b, Lent(ns, from, to, k))
<1> DEFINE one == Leaf(a, ns[from].next)
           two == Leaf(b, ns[to].next)
           m1 == [ns EXCEPT ![from].rids = Without(@, {k})]
           moved == Lent(ns, from, to, k)
<1>1. m1 = [ns EXCEPT ![from] = one]
  <2>1. [ns EXCEPT ![from].rids = a] = [ns EXCEPT ![from] = one] BY WithRids
  <2>2. m1 = [ns EXCEPT ![from].rids = a] OBVIOUS
  <2> QED BY <2>1, <2>2
<1>2. moved = [m1 EXCEPT ![to].rids = With(@, k, ns[from].rids[k])] BY DEF Lent
<1> HIDE DEF moved, m1, one
<1>3. m1[to] = ns[to] BY <1>1
<1>4. [ns[to] EXCEPT !.rids = b] = two
  <2>1. ns[to] = [rids |-> ns[to].rids, next |-> ns[to].next] BY LeafHas DEF Leaf
  <2> QED BY <2>1 DEF Leaf
<1>5. moved = [m1 EXCEPT ![to] = two] BY <1>2, <1>3, <1>4
<1> HIDE DEF two
<1>6. moved = [[ns EXCEPT ![from] = one] EXCEPT ![to] = two] BY <1>1, <1>5
<1>7. [[ns EXCEPT ![from] = one] EXCEPT ![to] = two] = [[ns EXCEPT ![to] = two] EXCEPT ![from] = one]
  OBVIOUS
<1>8. moved[from] = one /\ moved[to] = two /\ \A x \in DOMAIN ns : x # from /\ x # to => moved[x] = ns[x]
  BY <1>6
<1> QED BY <1>6, <1>7, <1>8 DEF Moved, moved, one, two

(* A tree with no split pending, that holds W. *)
HoldsAll(ns, root, W) ==
  \E g : Shape(ns, root, g) /\ g.left = 0 /\ Filed(ns, root, g, W, {})

(* What the leaves of a pair hold. *)
Stocked(ns, x, y, end) ==
  /\ x \in DOMAIN ns /\ y \in DOMAIN ns /\ ns[x] \in Leaves /\ ns[y] \in Leaves
  /\ DOMAIN ns[x].rids # {} /\ DOMAIN ns[y].rids # {}
  /\ \A k \in DOMAIN ns[x].rids : k \in Nat /\ k < end
  /\ \A k \in DOMAIN ns[y].rids : k \in Nat /\ end <= k

(* Neighbouring leaves both hold something, below and above the key between them. *)
LEMMA PairHolds ==
  ASSUME NEW ns, NEW root, NEW g, Shape(ns, root, g), NEW W, Filed(ns, root, g, W, {}),
         NEW p, NEW j, NEW x, NEW y, Pair(ns, g, p, j, x, y)
  PROVE  Stocked(ns, x, y, g.lo[y]) /\ g.lo[y] \in Nat /\ ns \in Seq(Nodes) /\ p \in DOMAIN ns
         /\ p # x /\ p # y /\ x # y /\ HasChild(ns[p], y)
<1>1. Typed(ns, g) /\ Rooted(root, g) BY DEF Shape
<1>p. /\ p \in g.L /\ x \in g.L /\ y \in g.L /\ x # y /\ p # x /\ p # y
      /\ g.level[x] = 0 /\ g.level[y] = 0 /\ g.level[p] = 1 /\ g.hi[x] = g.lo[y] /\ g.lo[y] # 0
      /\ j \in 1..Len(ns[p].entries) /\ y = Child(ns[p], j)
  BY DEF Pair
<1>2. /\ g.L \subseteq DOMAIN ns /\ ns \in Seq(Nodes)
      /\ g.lo[y] \in Nat /\ g.lo[x] \in Nat /\ g.hi[x] \in Nat /\ g.hi[y] \in Nat
      /\ g.level[root] \in Nat /\ g.level[p] <= g.level[root]
  BY <1>1, <1>p, TypesOf DEF Typed, Rooted
<1>3. ns[x] \in Leaves /\ ns[y] \in Leaves BY <1>1, <1>2, <1>p, LeafOf
<1>4. \A k \in DOMAIN ns[x].rids : k \in Nat /\ Covers(g, x, k) BY <1>3, <1>p, LeafHas DEF Filed
<1>5. \A k \in DOMAIN ns[y].rids : k \in Nat /\ Covers(g, y, k) BY <1>3, <1>p, LeafHas DEF Filed
<1>6. \A k \in DOMAIN ns[x].rids : k \in Nat /\ k < g.lo[y] BY <1>4, <1>p DEF Covers, Within
<1>7. \A k \in DOMAIN ns[y].rids : k \in Nat /\ g.lo[y] <= k BY <1>5 DEF Covers, Within
<1>8. x # root /\ y # root BY <1>2, <1>p
<1>9. DOMAIN ns[x].rids # {} /\ DOMAIN ns[y].rids # {} BY <1>8, <1>p DEF Filed
<1>10. HasChild(ns[p], y)
  <2>1. ns[p] \in Routers BY <1>1, <1>2, <1>p, RouterOf
  <2>2. j \in DOMAIN ns[p].entries /\ j # 0 /\ y = ns[p].entries[j].child
    BY <1>p, <2>1, RouterHas DEF Child
  <2> QED BY <2>2 DEF HasChild
<1> QED BY <1>2, <1>3, <1>6, <1>7, <1>9, <1>10, <1>p DEF Stocked

(* A leaf that has more than the fewest entries has one left when it lends one:
   MaxLeafEntries is at least 4. *)
LEMMA FewestIs ==
  ASSUME BTreeAssumption, NEW n \in Leaves, Count(n) > MinLeafEntries, NEW k
  PROVE  DOMAIN n.rids \ {k} # {}
<1>1. MinLeafEntries \in Nat /\ MinLeafEntries >= 2
  <2>1. \A a \in Nat : a >= 4 => a \div 2 \in Nat /\ a \div 2 >= 2 OBVIOUS
  <2> QED BY <2>1 DEF BTreeAssumption, MinLeafEntries
<1>2. IsFiniteSet(DOMAIN n.rids) BY LeafHas
<1>3. Cardinality(DOMAIN n.rids) \in Nat BY <1>2, FS_CardinalityType
<1>4. Cardinality(DOMAIN n.rids) > 1 BY <1>1, <1>3 DEF Count
<1> QED BY <1>2, <1>4, OneMore

(* borrowFromLeft keeps the tree, and all that it holds. *)
LEMMA LeftLends ==
  ASSUME BTreeAssumption,
         NEW ns, NEW root, NEW g, Shape(ns, root, g), g.left = 0, NEW W, Filed(ns, root, g, W, {}),
         NEW p, NEW j, NEW x, NEW y, Pair(ns, g, p, j, x, y), Aside(ns, g, p, j, x, y),
         Count(ns[x]) > MinLeafEntries
  PROVE  HoldsAll(Borrow(ns, p, x, y, Max(DOMAIN ns[x].rids), y).nodes, root, W)
<1> DEFINE k == Max(DOMAIN ns[x].rids)
           a == Without(ns[x].rids, {k})
           b == With(ns[y].rids, k, ns[x].rids[k])
           moved == Lent(ns, x, y, k)
           two == [[ns EXCEPT ![x] = Leaf(a, ns[x].next)] EXCEPT ![y] = Leaf(b, ns[y].next)]
<1>1. /\ Stocked(ns, x, y, g.lo[y]) /\ g.lo[y] \in Nat /\ ns \in Seq(Nodes) /\ p \in DOMAIN ns
      /\ p # x /\ p # y /\ x # y
  BY PairHolds
<1>2. /\ x \in DOMAIN ns /\ y \in DOMAIN ns /\ ns[x] \in Leaves /\ ns[y] \in Leaves
      /\ DOMAIN ns[x].rids # {}
      /\ \A l \in DOMAIN ns[x].rids : l \in Nat /\ l < g.lo[y]
      /\ \A l \in DOMAIN ns[y].rids : l \in Nat /\ g.lo[y] <= l
  BY <1>1 DEF Stocked
<1>3. /\ ns[x].rids \in Maps /\ ns[y].rids \in Maps
      /\ DOMAIN ns[x].rids \subseteq Nat /\ IsFiniteSet(DOMAIN ns[x].rids)
      /\ ns[x].rids \in [DOMAIN ns[x].rids -> Rids \cup {LoadRid}]
  BY <1>2, LeafHas
<1>4. k \in DOMAIN ns[x].rids /\ \A l \in DOMAIN ns[x].rids : l <= k BY <1>2, <1>3, MaxIs
<1> HIDE DEF k
<1>5. k \in Nat /\ k < g.lo[y] /\ ns[x].rids[k] \in Rids \cup {LoadRid} BY <1>2, <1>3, <1>4
<1> DEFINE rid == ns[x].rids[k]
<1>r. rid \in Rids \cup {LoadRid} BY <1>5
<1>6. /\ a \in Maps /\ DOMAIN a = DOMAIN ns[x].rids \ {k}
      /\ \A l \in DOMAIN ns[x].rids \ {k} : a[l] = ns[x].rids[l]
  BY <1>3, WithoutIs
<1>7. /\ b \in Maps /\ DOMAIN b = DOMAIN ns[y].rids \cup {k}
      /\ \A l \in DOMAIN ns[y].rids \cup {k} : b[l] = IF l = k THEN ns[x].rids[k] ELSE ns[y].rids[l]
  <2> HIDE DEF rid
  <2>1. /\ With(ns[y].rids, k, rid) \in Maps
        /\ DOMAIN With(ns[y].rids, k, rid) = DOMAIN ns[y].rids \cup {k}
        /\ \A l \in DOMAIN ns[y].rids \cup {k} :
             With(ns[y].rids, k, rid)[l] = IF l = k THEN rid ELSE ns[y].rids[l]
    <3>1. ns[y].rids \in Maps /\ k \in Nat BY <1>3, <1>5
    <3>2. PutIn(With(ns[y].rids, k, rid), ns[y].rids, k, rid) BY <1>r, <3>1, WithPuts
    <3> QED BY <3>2 DEF PutIn
  <2>2. b = With(ns[y].rids, k, rid) BY DEF rid
  <2> HIDE DEF b
  <2> QED BY <2>1, <2>2 DEF rid
<1>8. DOMAIN a # {} BY <1>2, <1>6, FewestIs
<1>9. moved = two /\ moved[y] = Leaf(b, ns[y].next) /\ moved[p] = ns[p] 
  <2>1. a = Without(ns[x].rids, {k}) /\ b = With(ns[y].rids, k, ns[x].rids[k]) OBVIOUS
  <2> HIDE DEF a, b
  <2>2. /\ moved = two /\ moved[y] = Leaf(b, ns[y].next)
        /\ \A z \in DOMAIN ns : z # x /\ z # y => moved[z] = ns[z]
    <3>1. Moved(ns, x, y, a, b, moved) BY <1>1, <1>2, <2>1, MovedIs
    <3> QED BY <3>1 DEF Moved
  <2> QED BY <1>1, <2>2
<1>10. Leaf(b, ns[y].next).rids = b
  <2>1. ns[y].next \in Nat BY <1>2, LeafHas
  <2> QED BY <1>7, <2>1, LeafFrom
<1> HIDE DEF a, b
<1>11. FirstKey(moved[y]) = k
  <2>1. DOMAIN b \subseteq Nat /\ DOMAIN b # {} /\ k \in DOMAIN b BY <1>2, <1>5, <1>7
  <2>2. Min(DOMAIN b) \in DOMAIN b /\ \A l \in DOMAIN b : Min(DOMAIN b) <= l BY <2>1, MinIs
  <2>3. \A l \in DOMAIN b : l \in Nat /\ k <= l
    <3>1. ASSUME NEW l \in DOMAIN b PROVE l \in Nat /\ k <= l
      <4>1. l = k \/ l \in DOMAIN ns[y].rids BY <1>7
      <4>2. l \in DOMAIN ns[y].rids => l \in Nat /\ g.lo[y] <= l BY <1>2
      <4> QED BY <1>1, <1>5, <4>1, <4>2
    <3> QED BY <3>1
  <2>4. Min(DOMAIN b) = k
    <3>1. Min(DOMAIN b) \in Nat /\ Min(DOMAIN b) <= k /\ k <= Min(DOMAIN b) BY <2>1, <2>2, <2>3
    <3> QED BY <1>5, <3>1
  <2> QED BY <1>9, <1>10, <2>4 DEF FirstKey
<1>12. Shared(ns, x, y, a, b, k)
  <2>1. ASSUME NEW l \in DOMAIN a PROVE l < k /\ From(ns, x, y, l, a[l])
    <3>1. l \in DOMAIN ns[x].rids /\ l # k /\ a[l] = ns[x].rids[l] BY <1>6
    <3>2. l <= k /\ l \in Nat BY <1>2, <1>4, <3>1
    <3> QED BY <1>5, <3>1, <3>2 DEF From
  <2>2. ASSUME NEW l \in DOMAIN b PROVE k <= l /\ From(ns, x, y, l, b[l])
    <3>1. CASE l = k BY <1>4, <1>5, <1>7, <3>1 DEF From
    <3>2. CASE l # k
      <4>1. l \in DOMAIN ns[y].rids /\ b[l] = ns[y].rids[l] BY <1>7, <3>2
      <4>2. l \in Nat /\ g.lo[y] <= l BY <1>2, <4>1
      <4> QED BY <1>1, <1>5, <4>1, <4>2 DEF From
    <3> QED BY <3>1, <3>2
  <2>3. \A l \in DOMAIN ns[x].rids \cup DOMAIN ns[y].rids : l \in DOMAIN a \/ l \in DOMAIN b
    BY <1>6, <1>7
  <2> QED BY <2>1, <2>2, <2>3 DEF Shared
<1>13. k \in DOMAIN b BY <1>7
<1> HIDE DEF moved
<1>14. \E g2 : /\ Shape([two EXCEPT ![p] = SetEntryKey(ns[p], y, k)], root, g2) /\ g2.left = 0
               /\ Filed([two EXCEPT ![p] = SetEntryKey(ns[p], y, k)], root, g2, W, {})
  BY <1>5, <1>6, <1>7, <1>8, <1>12, <1>13, ShiftFiled
<1> HIDE DEF two
<1>15. Borrow(ns, p, x, y, k, y).nodes = [moved EXCEPT ![p] = SetEntryKey(@, y, FirstKey(moved[y]))]
  BY DEF Borrow, moved, Lent
<1>16. [moved EXCEPT ![p] = SetEntryKey(@, y, FirstKey(moved[y]))] =
         [two EXCEPT ![p] = SetEntryKey(ns[p], y, k)]
  BY <1>9, <1>11
<1>17. HoldsAll(Borrow(ns, p, x, y, k, y).nodes, root, W) BY <1>14, <1>15, <1>16 DEF HoldsAll
<1> QED BY <1>17 DEF k

(* borrowFromRight keeps the tree, and all that it holds. *)
LEMMA RightLends ==
  ASSUME BTreeAssumption,
         NEW ns, NEW root, NEW g, Shape(ns, root, g), g.left = 0, NEW W, Filed(ns, root, g, W, {}),
         NEW p, NEW j, NEW x, NEW y, Pair(ns, g, p, j, x, y), Aside(ns, g, p, j, x, y),
         Count(ns[y]) > MinLeafEntries
  PROVE  HoldsAll(Borrow(ns, p, y, x, FirstKey(ns[y]), y).nodes, root, W)
<1> DEFINE k == FirstKey(ns[y])
           a == With(ns[x].rids, k, ns[y].rids[k])
           b == Without(ns[y].rids, {k})
           f == Min(DOMAIN b)
           moved == Lent(ns, y, x, k)
           two == [[ns EXCEPT ![x] = Leaf(a, ns[x].next)] EXCEPT ![y] = Leaf(b, ns[y].next)]
<1>1. /\ Stocked(ns, x, y, g.lo[y]) /\ g.lo[y] \in Nat /\ ns \in Seq(Nodes) /\ p \in DOMAIN ns
      /\ p # x /\ p # y /\ x # y
  BY PairHolds
<1>2. /\ x \in DOMAIN ns /\ y \in DOMAIN ns /\ ns[x] \in Leaves /\ ns[y] \in Leaves
      /\ DOMAIN ns[y].rids # {}
      /\ \A l \in DOMAIN ns[x].rids : l \in Nat /\ l < g.lo[y]
      /\ \A l \in DOMAIN ns[y].rids : l \in Nat /\ g.lo[y] <= l
  BY <1>1 DEF Stocked
<1>3. /\ ns[x].rids \in Maps /\ ns[y].rids \in Maps
      /\ DOMAIN ns[y].rids \subseteq Nat
      /\ ns[y].rids \in [DOMAIN ns[y].rids -> Rids \cup {LoadRid}]
  BY <1>2, LeafHas
<1>4. k \in DOMAIN ns[y].rids /\ \A l \in DOMAIN ns[y].rids : k <= l BY <1>2, <1>3, MinIs DEF FirstKey
<1> HIDE DEF k
<1>5. k \in Nat /\ g.lo[y] <= k /\ ns[y].rids[k] \in Rids \cup {LoadRid} BY <1>2, <1>3, <1>4
<1> DEFINE rid == ns[y].rids[k]
<1>r. rid \in Rids \cup {LoadRid} BY <1>5
<1>6. /\ b \in Maps /\ DOMAIN b = DOMAIN ns[y].rids \ {k}
      /\ \A l \in DOMAIN ns[y].rids \ {k} : b[l] = ns[y].rids[l]
  BY <1>3, WithoutIs
<1>7. /\ a \in Maps /\ DOMAIN a = DOMAIN ns[x].rids \cup {k}
      /\ \A l \in DOMAIN ns[x].rids \cup {k} : a[l] = IF l = k THEN ns[y].rids[k] ELSE ns[x].rids[l]
  <2> HIDE DEF rid
  <2>1. /\ With(ns[x].rids, k, rid) \in Maps
        /\ DOMAIN With(ns[x].rids, k, rid) = DOMAIN ns[x].rids \cup {k}
        /\ \A l \in DOMAIN ns[x].rids \cup {k} :
             With(ns[x].rids, k, rid)[l] = IF l = k THEN rid ELSE ns[x].rids[l]
    BY <1>3, <1>5, <1>r, WithIs
  <2>2. a = With(ns[x].rids, k, rid) BY DEF rid
  <2> HIDE DEF a
  <2> QED BY <2>1, <2>2 DEF rid
<1>8. DOMAIN b # {} BY <1>2, <1>6, FewestIs
<1>9. moved = two /\ moved[y] = Leaf(b, ns[y].next) /\ moved[p] = ns[p] 
  <2>1. a = With(ns[x].rids, k, ns[y].rids[k]) /\ b = Without(ns[y].rids, {k}) OBVIOUS
  <2> HIDE DEF a, b
  <2>2. /\ moved = two /\ moved[y] = Leaf(b, ns[y].next)
        /\ \A z \in DOMAIN ns : z # x /\ z # y => moved[z] = ns[z]
    <3>1. Moved(ns, y, x, b, a, moved) BY <1>1, <1>2, <2>1, MovedIs
    <3> QED BY <3>1 DEF Moved
  <2> QED BY <1>1, <2>2
<1>10. Leaf(b, ns[y].next).rids = b
  <2>1. ns[y].next \in Nat BY <1>2, LeafHas
  <2> QED BY <1>6, <2>1, LeafFrom
<1> HIDE DEF a, b
<1>11. f \in DOMAIN b /\ \A l \in DOMAIN b : f <= l
  <2>1. DOMAIN b \subseteq Nat BY <1>3, <1>6
  <2> QED BY <1>8, <2>1, MinIs
<1>12. FirstKey(moved[y]) = f BY <1>9, <1>10 DEF FirstKey
<1> HIDE DEF f
<1>13. f \in Nat /\ k < f
  <2>1. f \in DOMAIN ns[y].rids /\ f # k BY <1>6, <1>11
  <2>2. f \in Nat /\ k <= f BY <1>2, <1>4, <2>1
  <2> QED BY <1>5, <2>1, <2>2
<1>14. Shared(ns, x, y, a, b, f)
  <2>1. ASSUME NEW l \in DOMAIN a PROVE l < f /\ From(ns, x, y, l, a[l])
    <3>1. CASE l = k BY <1>4, <1>7, <1>13, <3>1 DEF From
    <3>2. CASE l # k
      <4>1. l \in DOMAIN ns[x].rids /\ a[l] = ns[x].rids[l] BY <1>7, <3>2
      <4>2. l \in Nat /\ l < g.lo[y] BY <1>2, <4>1
      <4>3. l < f BY <1>1, <1>5, <1>13, <4>2
      <4> QED BY <4>1, <4>3 DEF From
    <3> QED BY <3>1, <3>2
  <2>2. ASSUME NEW l \in DOMAIN b PROVE f <= l /\ From(ns, x, y, l, b[l])
    <3>1. l \in DOMAIN ns[y].rids /\ b[l] = ns[y].rids[l] BY <1>6
    <3> QED BY <1>11, <3>1 DEF From
  <2>3. \A l \in DOMAIN ns[x].rids \cup DOMAIN ns[y].rids : l \in DOMAIN a \/ l \in DOMAIN b
    BY <1>6, <1>7
  <2> QED BY <2>1, <2>2, <2>3 DEF Shared
<1>15. DOMAIN a # {} BY <1>7
<1> HIDE DEF moved
<1>16. \E g2 : /\ Shape([two EXCEPT ![p] = SetEntryKey(ns[p], y, f)], root, g2) /\ g2.left = 0
               /\ Filed([two EXCEPT ![p] = SetEntryKey(ns[p], y, f)], root, g2, W, {})
  BY <1>6, <1>7, <1>11, <1>13, <1>14, <1>15, ShiftFiled
<1> HIDE DEF two
<1>17. Borrow(ns, p, y, x, k, y).nodes = [moved EXCEPT ![p] = SetEntryKey(@, y, FirstKey(moved[y]))]
  BY DEF Borrow, moved, Lent
<1>18. [moved EXCEPT ![p] = SetEntryKey(@, y, FirstKey(moved[y]))] =
         [two EXCEPT ![p] = SetEntryKey(ns[p], y, f)]
  BY <1>9, <1>12
<1>19. HoldsAll(Borrow(ns, p, y, x, k, y).nodes, root, W) BY <1>16, <1>17, <1>18 DEF HoldsAll
<1> QED BY <1>19 DEF k

(* A merge that finds the separator keeps the tree, and all that it holds.  It finds
   it by the right leaf's first key, which need not be the separator: see
   DeletedIsGone. *)
LEMMA PairMerges ==
  ASSUME BTreeAssumption,
         NEW ns, NEW root, NEW g, Shape(ns, root, g), g.left = 0, NEW W, Filed(ns, root, g, W, {}),
         NEW p, NEW j, NEW x, NEW y, Pair(ns, g, p, j, x, y), Aside(ns, g, p, j, x, y),
         ~Merge(ns, p, x, y).missed
  PROVE  HoldsAll(Merge(ns, p, x, y).nodes, root, W)
<1> DEFINE k == FirstKey(ns[y])
           both == [l \in DOMAIN ns[x].rids \cup DOMAIN ns[y].rids |->
                      IF l \in DOMAIN ns[y].rids THEN ns[y].rids[l] ELSE ns[x].rids[l]]
           end == Leaf(both, ns[y].next)
<1>1. /\ Stocked(ns, x, y, g.lo[y]) /\ g.lo[y] \in Nat /\ ns \in Seq(Nodes) /\ p \in DOMAIN ns
      /\ p # x /\ p # y /\ x # y
  BY PairHolds
<1>2. /\ x \in DOMAIN ns /\ y \in DOMAIN ns /\ ns[x] \in Leaves /\ ns[y] \in Leaves
      /\ DOMAIN ns[y].rids # {}
  BY <1>1 DEF Stocked
<1>3. Typed(ns, g) BY DEF Shape
<1>p. /\ p \in g.L /\ y \in g.L /\ g.level[y] = 0 /\ g.level[p] = 1
      /\ j \in 1..Len(ns[p].entries) /\ y = Child(ns[p], j) /\ ns[p].entries[j].key = g.lo[y]
  BY DEF Pair
<1>4. k \in DOMAIN ns[y].rids /\ k \in Nat
  <2>1. DOMAIN ns[y].rids \subseteq Nat BY <1>2, LeafHas
  <2> QED BY <1>2, <2>1, MinIs DEF FirstKey
<1>5. Routes(ns[p], k) BY DEF Merge
<1> HIDE DEF k
<1>6. PICK i \in DOMAIN ns[p].entries : ns[p].entries[i].key = k BY <1>5 DEF Routes
<1>7. k = ns[p].entries[j].key
  <2>1. ns[p] \in Routers /\ Good(ns[p], g, g.level[p], g.lo[p], g.hi[p], Known(g))
    <3>1. g.level[p] > 0 BY <1>p
    <3> QED BY <1>p, <3>1, BoundsGrow
  <2>2. i \in Slots(ns[p]) /\ i # 0 BY <1>6, <2>1, RouterHas DEF Slots
  <2> DEFINE c == Child(ns[p], i)
  <2>3. c \in g.L /\ g.level[c] + 1 = 1 /\ g.lo[c] = k
    <3>1. c \in g.L /\ g.level[c] + 1 = g.level[p] /\ g.lo[c] = KeyAt(ns[p], i, g.lo[p])
      BY <2>1, <2>2 DEF Good
    <3> QED BY <1>6, <1>p, <2>2, <3>1 DEF KeyAt
  <2> HIDE DEF c
  <2>4. g.level[c] = 0 /\ g.level[c] = g.level[y]
    <3>1. g.level[c] \in Nat BY <1>3, <2>3, TypesOf
    <3> QED BY <1>p, <2>3, <3>1
  <2>5. Covers(g, c, k) BY <2>3, CoversLo
  <2>6. Covers(g, y, k) BY <1>4, <1>p DEF Filed
  <2>7. c = y BY <1>4, <1>p, <2>3, <2>4, <2>5, <2>6, SamePage
  <2> QED BY <1>p, <2>3, <2>7
<1>8. both \in Maps /\ DOMAIN both = DOMAIN ns[x].rids \cup DOMAIN ns[y].rids
  <2>1. /\ DOMAIN ns[x].rids \subseteq Nat /\ DOMAIN ns[y].rids \subseteq Nat
        /\ IsFiniteSet(DOMAIN ns[x].rids) /\ IsFiniteSet(DOMAIN ns[y].rids)
        /\ ns[x].rids \in [DOMAIN ns[x].rids -> Rids \cup {LoadRid}]
        /\ ns[y].rids \in [DOMAIN ns[y].rids -> Rids \cup {LoadRid}]
    BY <1>2, LeafHas
  <2> DEFINE S == DOMAIN ns[x].rids \cup DOMAIN ns[y].rids
  <2>2. S \in SUBSET Nat /\ IsFiniteSet(S) BY <2>1, FS_Union
  <2>3. both \in [S -> Rids \cup {LoadRid}] BY <2>1
  <2> HIDE DEF S, both
  <2>4. both \in Maps /\ DOMAIN both = S BY <2>2, <2>3, MapIs
  <2> QED BY <2>4 DEF S
<1>9. \A l \in DOMAIN both : From(ns, x, y, l, both[l]) BY DEF From
<1>10. DOMAIN both # {} BY <1>2, <1>8
<1> DEFINE ns2 == [[ns EXCEPT ![x] = end] EXCEPT ![p] = DropEntry(ns[p], ns[p].entries[j].key)]
<1>11. Merge(ns, p, x, y).nodes = [ns EXCEPT ![x] = end, ![p] = DropEntry(@, k)] BY DEF Merge, k
<1> HIDE DEF both
<1>12. \E g2 : Shape(ns2, root, g2) /\ g2.left = 0 /\ Filed(ns2, root, g2, W, {})
  BY <1>8, <1>9, <1>10, MergeFiled
<1>13. [ns EXCEPT ![x] = end, ![p] = DropEntry(@, k)] = ns2 BY <1>1, <1>7
<1> QED BY <1>11, <1>12, <1>13 DEF HoldsAll

(* handleLeafUnderflow keeps the tree whichever of its branches it takes, when it
   finds the separator.  The next leaf of the chain may be under another router: then
   it finds none. *)
LEMMA UnderflowKeeps ==
  ASSUME BTreeAssumption,
         NEW ns, NEW root, NEW g, Shape(ns, root, g), g.left = 0, NEW W, Filed(ns, root, g, W, {}),
         NEW p \in g.L, g.level[p] = 1, NEW i \in Slots(ns[p]), NEW id, id = Child(ns[p], i),
         ~Underflow(ns, p, id).missed
  PROVE  HoldsAll(Underflow(ns, p, id).nodes, root, W)
<1> DEFINE left == LeftSibling(ns[p], id)
           right == ns[id].next
           u == Underflow(ns, p, id)
           m == Len(ns[p].entries)
<1>0. Typed(ns, g) BY DEF Shape
<1>1. g.level[p] > 0 BY DEF Shape
<1>2. ns[p] \in Routers /\ Good(ns[p], g, g.level[p], g.lo[p], g.hi[p], Known(g)) BY <1>1, BoundsGrow
<1>3. m \in Nat /\ DOMAIN ns[p].entries = 1..m /\ Slots(ns[p]) = 0..m BY <1>2, RouterHas DEF Slots
<1>4. left = IF i = 0 THEN 0 ELSE Child(ns[p], i - 1) BY <1>1, LeftIs
<1>5. u = IF left # 0
          THEN IF Count(ns[left]) > MinLeafEntries
               THEN Borrow(ns, p, left, id, Max(DOMAIN ns[left].rids), id)
               ELSE Merge(ns, p, left, id)
          ELSE IF right # 0
          THEN IF Count(ns[right]) > MinLeafEntries
               THEN Borrow(ns, p, right, id, FirstKey(ns[right]), right)
               ELSE Merge(ns, p, id, right)
          ELSE [nodes |-> ns, missed |-> FALSE]
  BY DEF Underflow
<1>6. ~u.missed OBVIOUS
<1> HIDE DEF u, left, right, m
<1>7. SUFFICES HoldsAll(u.nodes, root, W) BY DEF u
<1>8. CASE i # 0
  <2> DEFINE x == Child(ns[p], i - 1)
  <2>1. i \in 1..Len(ns[p].entries) /\ i - 1 \in Slots(ns[p]) BY <1>3, <1>8 DEF m
  <2>2. Pair(ns, g, p, i, x, id) /\ Aside(ns, g, p, i, x, id) BY <2>1, PairIs
  <2>3. left = x BY <1>4, <1>8
  <2>4. left # 0
    <3>1. x \in g.L BY <1>2, <2>1 DEF Good
    <3>2. g.L \subseteq 1..Len(ns) BY <1>0, TypesOf
    <3> QED BY <2>3, <3>1, <3>2
  <2> HIDE DEF x
  <2>5. CASE Count(ns[x]) > MinLeafEntries
    <3>1. u = Borrow(ns, p, x, id, Max(DOMAIN ns[x].rids), id) BY <1>5, <2>3, <2>4, <2>5
    <3>2. HoldsAll(Borrow(ns, p, x, id, Max(DOMAIN ns[x].rids), id).nodes, root, W)
      BY <2>2, <2>5, LeftLends
    <3> QED BY <3>1, <3>2
  <2>6. CASE ~(Count(ns[x]) > MinLeafEntries)
    <3>1. u = Merge(ns, p, x, id) BY <1>5, <2>3, <2>4, <2>6
    <3>2. ~Merge(ns, p, x, id).missed BY <1>6, <3>1
    <3>3. HoldsAll(Merge(ns, p, x, id).nodes, root, W) BY <2>2, <3>2, PairMerges
    <3> QED BY <3>1, <3>3
  <2> QED BY <2>5, <2>6
<1>9. CASE i = 0 /\ right = 0
  <2>1. u = [nodes |-> ns, missed |-> FALSE] BY <1>4, <1>5, <1>9
  <2> QED BY <2>1 DEF HoldsAll
<1>10. CASE i = 0 /\ right # 0
  <2>1. left = 0 BY <1>4, <1>10
  <2>2. m # 0
    <3> SUFFICES ASSUME m = 0 PROVE FALSE OBVIOUS
    <3>1. DOMAIN ns[p].entries = {} BY <1>3
    <3>2. ~HasChild(ns[p], right) /\ ~Routes(ns[p], FirstKey(ns[right]))
      BY <3>1 DEF HasChild, Routes
    <3>3. CASE Count(ns[right]) > MinLeafEntries
      <4>1. u = Borrow(ns, p, right, id, FirstKey(ns[right]), right) BY <1>5, <1>10, <2>1, <3>3
      <4>2. u.missed = ~HasChild(ns[p], right) BY <4>1 DEF Borrow
      <4> QED BY <1>6, <3>2, <4>2
    <3>4. CASE ~(Count(ns[right]) > MinLeafEntries)
      <4>1. u = Merge(ns, p, id, right) BY <1>5, <1>10, <2>1, <3>4
      <4>2. u.missed = ~Routes(ns[p], FirstKey(ns[right])) BY <4>1 DEF Merge
      <4> QED BY <1>6, <3>2, <4>2
    <3> QED BY <3>3, <3>4
  <2> DEFINE y == Child(ns[p], 1)
  <2>3. 1 \in 1..Len(ns[p].entries) BY <1>3, <2>2 DEF m
  <2>4. Pair(ns, g, p, 1, Child(ns[p], 1 - 1), y) /\ Aside(ns, g, p, 1, Child(ns[p], 1 - 1), y)
    BY <2>3, PairIs
  <2>5. Child(ns[p], 1 - 1) = id BY <1>10
  <2> HIDE DEF y
  <2>6. Pair(ns, g, p, 1, id, y) /\ Aside(ns, g, p, 1, id, y) BY <2>4, <2>5
  <2>7. right = y BY <2>6 DEF Pair, right
  <2>8. CASE Count(ns[y]) > MinLeafEntries
    <3>1. u = Borrow(ns, p, y, id, FirstKey(ns[y]), y) BY <1>5, <1>10, <2>1, <2>7, <2>8
    <3>2. HoldsAll(Borrow(ns, p, y, id, FirstKey(ns[y]), y).nodes, root, W) BY <2>6, <2>8, RightLends
    <3> QED BY <3>1, <3>2
  <2>9. CASE ~(Count(ns[y]) > MinLeafEntries)
    <3>1. u = Merge(ns, p, id, y) BY <1>5, <1>10, <2>1, <2>7, <2>9
    <3>2. ~Merge(ns, p, id, y).missed BY <1>6, <3>1
    <3>3. HoldsAll(Merge(ns, p, id, y).nodes, root, W) BY <2>6, <3>2, PairMerges
    <3> QED BY <3>1, <3>3
  <2> QED BY <2>8, <2>9
<1> QED BY <1>8, <1>9, <1>10

-----------------------------------------------------------------------------
(* A whole deletion, and a lookup. *)

IsTree(t) == t = [root |-> t.root, nodes |-> t.nodes]

(* BPlusTree.Delete: from a tree that holds W to one that holds W without the key,
   through borrowings and merges, when no merge missed its separator. *)
THEOREM DeleteKeeps ==
  ASSUME BTreeAssumption, NEW t, IsTree(t), NEW W, Kept(t, W, {}), NEW k \in Nat, Deletable(t, k),
         ~Deleted(t, k).missed
  PROVE  Kept(Deleted(t, k).tree, Without(W, {k}), {}) /\ IsTree(Deleted(t, k).tree)
<1> DEFINE W2 == Without(W, {k})
           path == Path(t, k)
           id == Last(path)
           ns == [t.nodes EXCEPT ![id].rids = Without(@, {k})]
           ns2 == [t.nodes EXCEPT ![id] = Leaf(Without(t.nodes[id].rids, {k}), t.nodes[id].next)]
           end == IF id = t.root \/ Count(ns[id]) >= MinLeafEntries
                  THEN [nodes |-> ns, missed |-> FALSE]
                  ELSE Underflow(ns, path[Len(path) - 1], id)
<1>1. Deleted(t, k) = [tree |-> [t EXCEPT !.nodes = end.nodes], missed |-> end.missed]
  BY DEF Deleted
<1>2. PICK g : Shape(t.nodes, t.root, g) /\ Filed(t.nodes, t.root, g, W, {}) /\ g.left = 0
  BY DEF Kept
<1>p. LeafPath(t, g, k, path, id)
  <2> HIDE DEF path
  <2> QED BY <1>2, LeafAtEnd DEF path
<1>3. ns = ns2
  <2> HIDE DEF id
  <2>1. t.nodes[id] \in Leaves BY <1>p DEF LeafPath
  <2>2. [t.nodes EXCEPT ![id].rids = Without(t.nodes[id].rids, {k})] = ns2 BY <2>1, WithRids
  <2> QED BY <2>2
<1>d. id = t.root \/ Count(t.nodes[id]) > 1 BY DEF Deletable
<1>4. /\ path \in Seq(Nat) /\ Len(path) \in Nat /\ Len(path) >= 1
      /\ id = path[Len(path)] /\ id \in g.L /\ g.level[id] = 0 /\ Covers(g, id, k)
      /\ id \in DOMAIN t.nodes /\ t.nodes[id] \in Leaves
      /\ id # t.root => Len(path) >= 2
      /\ \A i \in 1..Len(path) : path[i] \in g.L /\ g.level[path[i]] = Len(path) - i
      /\ \A i \in 1..(Len(path) - 1) : \E j \in Slots(t.nodes[path[i]]) :
                                          path[i + 1] = Child(t.nodes[path[i]], j)
  <2> HIDE DEF path, id
  <2> QED BY <1>p DEF LeafPath
<1> HIDE DEF path, id, end, ns, ns2
<1>5. DOMAIN t.nodes[id].rids \ {k} = {} => id = t.root /\ g.left = 0
  <2> SUFFICES ASSUME DOMAIN t.nodes[id].rids \ {k} = {} PROVE id = t.root BY <1>2
  <2> SUFFICES ASSUME id # t.root PROVE FALSE OBVIOUS
  <2>1. Cardinality(DOMAIN t.nodes[id].rids) > 1 BY <1>d DEF Count
  <2>2. IsFiniteSet(DOMAIN t.nodes[id].rids) BY <1>4, LeafHas
  <2> QED BY <2>1, <2>2, OneMore
<1>6. /\ Shape(ns2, t.root, g) /\ Filed(ns2, t.root, g, W2, {})
      /\ DOMAIN ns2 = DOMAIN t.nodes /\ \A x \in DOMAIN t.nodes : x # id => ns2[x] = t.nodes[x]
  BY <1>2, <1>4, <1>5, TakeFiled DEF ns2
<1> HIDE DEF W2
<1>7. ~end.missed BY <1>1
<1>8. HoldsAll(end.nodes, t.root, W2)
  <2>1. CASE id = t.root \/ Count(ns[id]) >= MinLeafEntries
    <3>1. end.nodes = ns2 BY <1>3, <2>1 DEF end
    <3> QED BY <1>2, <1>6, <3>1 DEF HoldsAll
  <2>2. CASE ~(id = t.root \/ Count(ns[id]) >= MinLeafEntries)
    <3> DEFINE p == path[Len(path) - 1]
    <3>1. end = Underflow(ns2, p, id) BY <1>3, <2>2 DEF end
    <3>2. Len(path) - 1 \in 1..(Len(path) - 1) /\ Len(path) - 1 \in 1..Len(path)
          /\ (Len(path) - 1) + 1 = Len(path) /\ Len(path) - (Len(path) - 1) = 1
      BY <1>4, <2>2
    <3>3. p \in g.L /\ g.level[p] = 1 BY <1>4, <3>2
    <3>4. PICK j \in Slots(t.nodes[p]) : id = Child(t.nodes[p], j) BY <1>4, <3>2
    <3> HIDE DEF p
    <3>5. ns2[p] = t.nodes[p]
      <4>1. p # id BY <1>4, <3>3
      <4>2. Typed(t.nodes, g) BY <1>2 DEF Shape
      <4> QED BY <1>6, <3>3, <4>1, <4>2 DEF Typed
    <3>6. j \in Slots(ns2[p]) /\ id = Child(ns2[p], j) BY <3>4, <3>5
    <3>7. ~Underflow(ns2, p, id).missed BY <1>7, <3>1
    <3>8. HoldsAll(Underflow(ns2, p, id).nodes, t.root, W2)
      BY <1>2, <1>6, <3>3, <3>6, <3>7, UnderflowKeeps
    <3> QED BY <3>1, <3>8
  <2> QED BY <2>1, <2>2
<1>9. /\ Deleted(t, k).tree = [t EXCEPT !.nodes = end.nodes]
      /\ [t EXCEPT !.nodes = end.nodes] = [root |-> t.root, nodes |-> end.nodes]
  BY <1>1 DEF IsTree
<1>10. Deleted(t, k).tree = [root |-> t.root, nodes |-> end.nodes] BY <1>9
<1>11. Kept([root |-> t.root, nodes |-> end.nodes], W2, {}) BY <1>8 DEF HoldsAll, Kept
<1> QED BY <1>10, <1>11 DEF W2, IsTree

(* BPlusTree.Find returns what the tree holds for the key. *)
THEOREM FindIs ==
  ASSUME NEW t, NEW W, Kept(t, W, {}), NEW k \in Nat
  PROVE  Find(t, k) = IF k \in DOMAIN W THEN {W[k]} ELSE {}
<1> DEFINE id == Last(Path(t, k))
<1>1. PICK g : Shape(t.nodes, t.root, g) /\ Filed(t.nodes, t.root, g, W, {}) /\ g.left = 0
  BY DEF Kept
<1>2. LeafPath(t, g, k, Path(t, k), id) BY <1>1, LeafAtEnd
<1>3. Find(t, k) = IF k \in DOMAIN t.nodes[id].rids THEN {t.nodes[id].rids[k]} ELSE {} BY DEF Find
<1>4. id \in g.L /\ g.level[id] = 0 /\ Covers(g, id, k) BY <1>2 DEF LeafPath
<1> HIDE DEF id
<1>5. CASE k \in DOMAIN t.nodes[id].rids
  <2>1. k \in DOMAIN W /\ W[k] = t.nodes[id].rids[k] BY <1>1, <1>4, <1>5 DEF Filed
  <2> QED BY <1>3, <1>5, <2>1
<1>6. CASE k \notin DOMAIN t.nodes[id].rids
  <2>1. k \notin DOMAIN W
    <3> SUFFICES ASSUME k \in DOMAIN W PROVE FALSE OBVIOUS
    <3>1. PICK q \in g.L : g.level[q] = 0 /\ k \in DOMAIN t.nodes[q].rids BY <1>1 DEF Filed
    <3>2. Covers(g, q, k) BY <1>1, <3>1 DEF Filed
    <3>3. q = id BY <1>1, <1>4, <3>1, <3>2, SamePage
    <3> QED BY <1>6, <3>1, <3>3
  <2> QED BY <1>3, <1>6, <2>1
<1> QED BY <1>5, <1>6

-----------------------------------------------------------------------------
(* The calls, one after another. *)

Record(s) == s = [tree |-> s.tree, want |-> s.want, doubt |-> s.doubt, missed |-> s.missed]
Sound(s)  ==
  /\ Record(s) /\ DOMAIN s.want \subseteq TreeKeys /\ s.doubt \subseteq TreeKeys
  /\ ~s.missed => IsTree(s.tree) /\ Kept(s.tree, s.want, s.doubt)

(* An insertion keeps the state sound. *)
LEMMA InsertSound ==
  ASSUME BTreeAssumption, NEW s, Sound(s), s.doubt = {}, NEW k \in TreeKeys,
         NEW rid \in Rids \cup {LoadRid}, NEW pages \in Nat
  PROVE  Sound(AfterInsert(s, k, rid, pages))
<1> DEFINE r == Inserted(s.tree, k, rid, pages)
           W2 == With(s.want, k, rid)
           d == IF r.failed THEN {k} ELSE {}
           w == IF r.failed THEN s.want ELSE W2
           e == AfterInsert(s, k, rid, pages)
<1>1. e = [s EXCEPT !.tree = r.tree, !.doubt = d, !.want = IF r.failed THEN @ ELSE With(@, k, rid)]
  BY DEF AfterInsert
<1>2. e = [tree |-> r.tree, want |-> w, doubt |-> d, missed |-> s.missed]
  <2> HIDE DEF r, d, e
  <2> QED BY <1>1 DEF Sound, Record
<1>3. IsTree(r.tree) BY DEF Inserted, IsTree
<1>k. k \in Nat BY DEF BTreeAssumption
<1>n. DOMAIN w \subseteq TreeKeys /\ d \subseteq TreeKeys
  <2>1. DOMAIN W2 = DOMAIN s.want \cup {k} BY DEF With
  <2> HIDE DEF W2
  <2> QED BY <2>1 DEF Sound
<1>4. ASSUME ~s.missed PROVE Kept(r.tree, w, d)
  <2>1. Kept(s.tree, s.want, {}) BY <1>4 DEF Sound
  <2>2. IF r.failed THEN Kept(r.tree, s.want, {k}) ELSE Kept(r.tree, W2, {})
    <3> DEFINE T == s.tree
               W == s.want
    <3> HIDE DEF T, W
    <3>1. LET q == Inserted(T, k, rid, pages)
          IN  IF q.failed THEN Kept(q.tree, W, {k}) ELSE Kept(q.tree, With(W, k, rid), {})
      <4>1. Kept(T, W, {}) BY <2>1 DEF T, W
      <4> QED BY <1>k, <4>1, InsertKeeps
    <3> QED BY <3>1 DEF T, W
  <2> HIDE DEF r, W2
  <2> QED BY <2>2
<1> HIDE DEF e, r, w, d
<1>5. e.tree = r.tree /\ e.want = w /\ e.doubt = d /\ e.missed = s.missed BY <1>2
<1>6. Sound(e) BY <1>2, <1>3, <1>4, <1>5, <1>n DEF Sound, Record
<1> QED BY <1>6 DEF e

(* A deletion keeps the state sound. *)
LEMMA DeleteSound ==
  ASSUME BTreeAssumption, NEW s, Sound(s), s.doubt = {}, NEW k \in Nat, Deletable(s.tree, k)
  PROVE  Sound(AfterDelete(s, k))
<1> DEFINE r == Deleted(s.tree, k)
           e == AfterDelete(s, k)
           T == s.tree
           W == s.want
<1>1. e = [s EXCEPT !.tree = r.tree, !.want = Without(@, {k}), !.missed = @ \/ r.missed]
  BY DEF AfterDelete
<1>2. e = [tree |-> r.tree, want |-> Without(W, {k}), doubt |-> s.doubt, missed |-> (s.missed \/ r.missed)]
  <2> HIDE DEF r, e
  <2> QED BY <1>1 DEF Sound, Record
<1> HIDE DEF e
<1>5. /\ e.tree = r.tree /\ e.want = Without(W, {k}) /\ e.doubt = s.doubt
      /\ (e.missed <=> (s.missed \/ r.missed))
  <2> HIDE DEF r
  <2> QED BY <1>2
<1>3. ASSUME ~e.missed PROVE IsTree(e.tree) /\ Kept(e.tree, e.want, e.doubt)
  <2>1. ~s.missed /\ ~r.missed BY <1>3, <1>5
  <2>2. Kept(T, W, {}) /\ IsTree(T) BY <2>1 DEF Sound
  <2>3. Deletable(T, k) /\ ~Deleted(T, k).missed BY <2>1
  <2> HIDE DEF T, W
  <2>4. Kept(Deleted(T, k).tree, Without(W, {k}), {}) /\ IsTree(Deleted(T, k).tree)
    BY <2>2, <2>3, DeleteKeeps
  <2>5. e.tree = Deleted(T, k).tree /\ e.want = Without(W, {k}) /\ e.doubt = {} BY <1>5 DEF T
  <2> QED BY <2>4, <2>5
<1>4. Record(e)
  <2> HIDE DEF r, W
  <2> QED BY <1>2 DEF Record
<1>n. DOMAIN e.want \subseteq TreeKeys /\ e.doubt \subseteq TreeKeys
  <2>1. DOMAIN Without(W, {k}) = DOMAIN W \ {k} BY DEF Without, Restrict
  <2> HIDE DEF r
  <2> QED BY <1>5, <2>1 DEF Sound
<1>6. Sound(e) BY <1>3, <1>4, <1>n DEF Sound
<1> QED BY <1>6 DEF e

(* CreateBPlusTree makes a sound state: a root that is an empty leaf. *)
LEMMA FreshSound == Sound(Fresh)
<1> DEFINE none == [k \in {} |-> LoadRid]
           t == Fresh.tree
           zero == [p \in Nat |-> 0]
           g == [L |-> {1}, level |-> zero, lo |-> zero, hi |-> zero, pos |-> zero,
                 left |-> 0, right |-> 0]
<1>1. <<>> = none OBVIOUS
<1>2. <<>> \in Maps /\ DOMAIN <<>> = {}
  <2>1. none \in [{} -> Rids \cup {LoadRid}] OBVIOUS
  <2>2. {} \in SUBSET Nat /\ IsFiniteSet({}) BY FS_EmptySet
  <2> HIDE DEF none
  <2>3. none \in Maps /\ DOMAIN none = {} BY <2>1, <2>2, MapIs
  <2> QED BY <1>1, <2>3
<1> DEFINE leaf == Leaf(<<>>, 0)
<1>3. leaf \in Nodes /\ IsLeaf(leaf) /\ leaf.rids = <<>> /\ leaf.next = 0
  BY <1>2, LeafFrom
<1>4. t = [root |-> 1, nodes |-> <<leaf>>] /\ Fresh.want = <<>> /\ Fresh.doubt = {} BY DEF Fresh
<1> HIDE DEF leaf, t
<1>5. t.root = 1 /\ t.nodes = <<leaf>> BY <1>4
<1>6. <<leaf>> \in Seq(Nodes) /\ DOMAIN <<leaf>> = {1} /\ <<leaf>>[1] = leaf BY <1>3
<1>7. /\ g \in Ghosts /\ g.L = {1} /\ g.left = 0 /\ g.right = 0
      /\ \A p \in Nat : g.level[p] = 0 /\ g.lo[p] = 0 /\ g.hi[p] = 0 /\ g.pos[p] = 0
  <2>1. zero \in [Nat -> Nat] /\ {1} \in SUBSET Nat OBVIOUS
  <2> QED BY <2>1 DEF Ghosts
<1> HIDE DEF g
<1> DEFINE ns == <<leaf>>
<1>8. /\ ns \in Seq(Nodes) /\ DOMAIN ns = {1} /\ ns[1] = leaf BY <1>6
<1> HIDE DEF ns
<1>9. Known(g)[1] = 0 BY <1>7 DEF Known
<1>10. Typed(ns, g) BY <1>3, <1>7, <1>8 DEF Typed
<1>11. Rooted(1, g) /\ Apart(g) /\ Routed(ns, g) /\ Halved(g)
  BY <1>7, <1>9 DEF Rooted, Apart, Routed, Halved
<1>12. Chained(ns, g) BY <1>3, <1>7, <1>8 DEF Chained
<1>13. Shape(ns, 1, g) BY <1>10, <1>11, <1>12 DEF Shape
<1>14. Filed(ns, 1, g, <<>>, {}) BY <1>2, <1>3, <1>7, <1>8 DEF Filed
<1>15. Kept(t, <<>>, {}) BY <1>5, <1>7, <1>13, <1>14 DEF Kept, ns
<1>16. IsTree(t) BY <1>4 DEF IsTree
<1>17. Record(Fresh) BY DEF Fresh, Record
<1> QED BY <1>2, <1>4, <1>15, <1>16, <1>17 DEF Sound, t

(* A call of a load keeps the state sound. *)
LEMMA CalledSound ==
  ASSUME BTreeAssumption, NEW s, Sound(s), NEW k \in Int, k \in TreeKeys \/ -k \in TreeKeys
  PROVE  Sound(Called(s, k))
<1>0. \A l \in TreeKeys : l \in Nat BY DEF BTreeAssumption
<1>1. CASE s.doubt # {} BY <1>1 DEF Called
<1>2. CASE s.doubt = {} /\ k > 0
  <2>1. k \in TreeKeys /\ LoadRid \in Rids \cup {LoadRid} /\ Enough \in Nat
    <3>1. -k \notin Nat BY <1>2
    <3> QED BY <1>0, <3>1 DEF Enough
  <2>2. Sound(AfterInsert(s, k, LoadRid, Enough)) BY <1>2, <2>1, InsertSound
  <2> QED BY <1>2, <2>2 DEF Called
<1>3. CASE s.doubt = {} /\ ~(k > 0)
  <2> DEFINE l == -k
  <2>1. l \in Nat BY <1>3
  <2> HIDE DEF l
  <2>2. Deletable(s.tree, l) => Sound(AfterDelete(s, l)) BY <1>3, <2>1, DeleteSound
  <2> QED BY <1>3, <2>2 DEF Called, l
<1> QED BY <1>1, <1>2, <1>3

AfterOf(load) ==
  CHOOSE f : f = [i \in 0..Len(load) |-> IF i = 0 THEN Fresh ELSE Called(f[i - 1], load[i])]

(* The recursion over a load computes what its equation says. *)
LEMMA AfterIs ==
  ASSUME NEW load, Len(load) \in Nat
  PROVE  \A i \in 0..Len(load) : AfterOf(load)[i] =
           IF i = 0 THEN Fresh ELSE Called(AfterOf(load)[i - 1], load[i])
<1> DEFINE n == Len(load)
           F(f, i) == IF i = 0 THEN Fresh ELSE Called(f[i - 1], load[i])
           Is(f) == f = [i \in 0..n |-> F(f, i)]
           after == CHOOSE f : Is(f)
           S == {d \in Nat : \A f : DOMAIN f = 0..n =>
                                ~ \A i \in 0..n : i <= d => f[i] = F(f, i)}
<1>0. after = AfterOf(load) BY DEF AfterOf
<1> HIDE DEF n
<1>n. n \in Nat BY DEF n
<1>1. S = {}
  <2> SUFFICES ASSUME S # {} PROVE FALSE OBVIOUS
  <2>1. S \subseteq Nat OBVIOUS
  <2>2. PICK d \in S : \A m \in S : d <= m
    <3> HIDE DEF S
    <3> QED BY <2>1, LeastExists
  <2>3. d \in Nat BY <2>2
  <2>4. CASE d = 0
    <3> DEFINE f == [i \in 0..n |-> Fresh]
    <3>1. \A i \in 0..n : i <= d => f[i] = F(f, i)
      <4>1. \A i \in 0..n : i <= d => i = 0 BY <2>4
      <4> QED BY <4>1
    <3>2. DOMAIN f = 0..n OBVIOUS
    <3> HIDE DEF f
    <3> QED BY <2>2, <3>1, <3>2
  <2>5. CASE d > 0
    <3>1. d - 1 \in Nat /\ ~(d <= d - 1) BY <2>3, <2>5
    <3>2. d - 1 \notin S BY <2>2, <3>1
    <3>3. PICK f : DOMAIN f = 0..n /\ \A i \in 0..n : i <= d - 1 => f[i] = F(f, i)
      BY <3>1, <3>2
    <3> DEFINE h == [i \in 0..n |-> F(f, i)]
    <3>4. ASSUME NEW i \in 0..n, i <= d PROVE h[i] = F(h, i)
      <4>1. CASE i = 0 BY <4>1
      <4>2. CASE i # 0
        <5>1. i - 1 \in 0..n /\ i - 1 <= d - 1 BY <1>n, <2>3, <3>4, <4>2
        <5>2. f[i - 1] = F(f, i - 1) BY <3>3, <5>1
        <5>3. h[i - 1] = F(f, i - 1) BY <5>1
        <5>4. h[i - 1] = f[i - 1] BY <5>2, <5>3
        <5> QED BY <5>4
      <4> QED BY <4>1, <4>2
    <3>5. DOMAIN h = 0..n OBVIOUS
    <3> HIDE DEF h
    <3> QED BY <2>2, <3>4, <3>5
  <2> QED BY <2>3, <2>4, <2>5
<1>2. \E f : Is(f)
  <2>1. n \notin S BY <1>1
  <2>2. PICK f : DOMAIN f = 0..n /\ \A i \in 0..n : i <= n => f[i] = F(f, i) BY <1>n, <2>1
  <2>3. \A i \in 0..n : f[i] = F(f, i) BY <1>n, <2>2
  <2> DEFINE h == [i \in 0..n |-> F(f, i)]
  <2>4. ASSUME NEW i \in 0..n PROVE F(f, i) = F(h, i)
    <3>1. CASE i = 0 BY <3>1
    <3>2. CASE i # 0
      <4>1. i - 1 \in 0..n BY <1>n, <3>2
      <4>2. h[i - 1] = F(f, i - 1) BY <4>1
      <4>3. h[i - 1] = f[i - 1] BY <2>3, <4>1, <4>2
      <4> QED BY <4>3
    <3> QED BY <3>1, <3>2
  <2>5. h = [i \in 0..n |-> F(h, i)] BY <2>4
  <2> QED BY <2>5
<1>3. Is(after)
  <2> HIDE DEF Is
  <2> QED BY <1>2
<1>4. \A i \in 0..n : after[i] = F(after, i)
  <2> HIDE DEF after
  <2> QED BY <1>3
<1> HIDE DEF after
<1> QED BY <1>0, <1>4 DEF n

(* The state after any load is sound. *)
LEMMA LoadedSound ==
  ASSUME BTreeAssumption, NEW load \in Loads PROVE Sound(Loaded(load))
<1> DEFINE n == Len(load)
           f == AfterOf(load)
           S == {i \in 0..n : ~Sound(f[i])}
<1> DEFINE K == {k \in Int : k \in TreeKeys \/ -k \in TreeKeys}
<1>1. load \in Seq(K) BY DEF BTreeAssumption
<1>2. n \in Nat /\ \A i \in 1..n : load[i] \in Int /\ (load[i] \in TreeKeys \/ -load[i] \in TreeKeys)
  <2> HIDE DEF K
  <2>1. n \in Nat /\ \A i \in 1..n : load[i] \in K BY <1>1, LenProperties, ElementOfSeq
  <2> USE DEF K
  <2> QED BY <2>1
<1>3. \A i \in 0..n : f[i] = IF i = 0 THEN Fresh ELSE Called(f[i - 1], load[i])
  <2>1. Len(load) \in Nat BY <1>2
  <2> QED BY <2>1, AfterIs
<1>4. Loaded(load) = f[n] BY DEF Loaded, AfterOf
<1> HIDE DEF f, n
<1>5. S = {}
  <2> SUFFICES ASSUME S # {} PROVE FALSE OBVIOUS
  <2>1. S \subseteq Nat BY <1>2
  <2>2. PICK i \in S : \A m \in S : i <= m
    <3> HIDE DEF S
    <3> QED BY <2>1, LeastExists
  <2>3. i \in 0..n /\ ~Sound(f[i]) BY <2>2
  <2>4. i # 0 BY <1>3, <2>3, FreshSound
  <2>5. i - 1 \in 0..n /\ ~(i <= i - 1) /\ i \in 1..n BY <1>2, <2>3, <2>4
  <2>6. Sound(f[i - 1]) BY <2>2, <2>5
  <2>7. Sound(Called(f[i - 1], load[i])) BY <1>2, <2>5, <2>6, CalledSound
  <2> QED BY <1>3, <2>3, <2>4, <2>7
<1>6. n \in 0..n BY <1>2
<1> QED BY <1>4, <1>5, <1>6

-----------------------------------------------------------------------------
(* The tree of every state. *)

Inv ==
  /\ DOMAIN want \subseteq TreeKeys /\ doubt \subseteq TreeKeys
  /\ ~missed => IsTree(tree) /\ Kept(tree, want, doubt)

(* The invariant holds after any load. *)
LEMMA InitKept == ASSUME BTreeAssumption, Init PROVE Inv
<1>1. PICK load \in Loads : LET s == Loaded(load)
                            IN  tree = s.tree /\ want = s.want /\ doubt = s.doubt /\ missed = s.missed
  BY DEF Init
<1>2. Sound(Loaded(load)) BY LoadedSound
<1> QED BY <1>1, <1>2 DEF Sound, Inv

(* The invariant says that the state is sound. *)
LEMMA NowSound == ASSUME Inv PROVE Sound(Now)
BY DEF Inv, Sound, Record, Now

(* Every call keeps the invariant. *)
LEMMA NextKept == ASSUME BTreeAssumption, Inv, [Next]_vars PROVE Inv'
<1>1. Sound(Now) BY NowSound
<1>2. ASSUME NEW s, Sound(s), Become(s) PROVE Inv' BY <1>2 DEF Sound, Become, Inv
<1>3. CASE UNCHANGED vars
  <2>1. tree' = tree /\ want' = want /\ doubt' = doubt /\ missed' = missed BY <1>3 DEF vars
  <2> QED BY <2>1 DEF Inv
<1>4. ASSUME NEW k \in TreeKeys, NEW rid \in Rids, NEW pages \in {0, 1, 2, Enough}, Insert(k, rid, pages)
      PROVE  Inv'
  <2>1. Now.doubt = {} BY <1>4 DEF Insert, Call, Now
  <2>2. rid \in Rids \cup {LoadRid} /\ pages \in Nat BY DEF BTreeAssumption, Enough
  <2>3. Sound(AfterInsert(Now, k, rid, pages)) BY <1>1, <2>1, <2>2, InsertSound
  <2> QED BY <1>2, <1>4, <2>3 DEF Insert
<1>5. ASSUME NEW k \in TreeKeys, Delete(k) PROVE Inv'
  <2>1. Now.doubt = {} /\ Deletable(Now.tree, k) BY <1>5 DEF Delete, Call, Now
  <2>2. k \in Nat BY DEF BTreeAssumption
  <2>3. Sound(AfterDelete(Now, k)) BY <1>1, <2>1, <2>2, DeleteSound
  <2> QED BY <1>2, <1>5, <2>3 DEF Delete
<1> QED BY <1>3, <1>4, <1>5 DEF Next

(* Lookups are exact where the invariant holds. *)
LEMMA FindKept == ASSUME BTreeAssumption, Inv PROVE FindExact
<1> SUFFICES ASSUME ~missed, doubt = {}, NEW k \in TreeKeys
             PROVE  Find(tree, k) = IF k \in DOMAIN want THEN {want[k]} ELSE {}
  BY DEF FindExact
<1>1. k \in Nat /\ Kept(tree, want, {}) BY DEF BTreeAssumption, Inv
<1> QED BY <1>1, FindIs

-----------------------------------------------------------------------------
(* TreeKeys in order. *)

(* The rank of a member is less than the number of members. *)
LEMMA RankIs ==
  ASSUME NEW S, S \subseteq Nat, IsFiniteSet(S), NEW k
  PROVE  Rank(S, k) \in Nat /\ Cardinality(S) \in Nat /\ (k \in S => Rank(S, k) < Cardinality(S))
<1> DEFINE U == {j \in S : j < k}
<1>1. IsFiniteSet(U) /\ Cardinality(U) \in Nat /\ Cardinality(S) \in Nat
  <2>1. U \subseteq S OBVIOUS
  <2> HIDE DEF U
  <2> QED BY <2>1, FS_Subset, FS_CardinalityType
<1>2. ASSUME k \in S PROVE Cardinality(U) < Cardinality(S)
  <2>1. U \subseteq S \ {k} BY <1>2
  <2>2. IsFiniteSet(S \ {k}) /\ Cardinality(S \ {k}) = Cardinality(S) - 1 BY <1>2, FS_RemoveElement
  <2> HIDE DEF U
  <2>3. Cardinality(U) <= Cardinality(S \ {k}) BY <2>1, <2>2, FS_Subset
  <2> QED BY <1>1, <2>2, <2>3
<1> QED BY <1>1, <1>2 DEF Rank

(* What Sorted returns. *)
LEMMA SortedIs ==
  ASSUME NEW S, S \subseteq Nat, IsFiniteSet(S)
  PROVE  /\ Cardinality(S) \in Nat /\ Sorted(S) \in Seq({Sorted(S)[i] : i \in 1..Cardinality(S)})
         /\ Len(Sorted(S)) = Cardinality(S) /\ DOMAIN Sorted(S) = 1..Cardinality(S)
         /\ \A i \in 1..Cardinality(S) : Sorted(S)[i] = Min({k \in S : Rank(S, k) = i - 1})
<1> DEFINE n == Cardinality(S)
           s == Sorted(S)
           X == {s[i] : i \in 1..n}
<1>1. n \in Nat BY FS_CardinalityType
<1>2. s = [i \in 1..n |-> Min({k \in S : Rank(S, k) = i - 1})] BY DEF Sorted
<1> HIDE DEF n, s
<1>3. DOMAIN s = 1..n /\ \A i \in 1..n : s[i] = Min({k \in S : Rank(S, k) = i - 1}) BY <1>2
<1>4. s \in [1..n -> X]
  <2>1. \A i \in 1..n : s[i] \in X OBVIOUS
  <2>2. s = [i \in 1..n |-> s[i]] BY <1>2
  <2> HIDE DEF X
  <2> QED BY <2>1, <2>2
<1> HIDE DEF X
<1>5. s \in Seq(X) /\ Len(s) = n
  <2>1. s \in Seq(X) BY <1>1, <1>4, SeqDef
  <2> QED BY <1>1, <1>3, <2>1, LenProperties
<1> QED BY <1>1, <1>3, <1>5 DEF n, s, X

(* No keys in order. *)
LEMMA NoneSorted == Sorted({}) = <<>>
<1>1. Cardinality({}) = 0 BY FS_EmptySet
<1>2. 1..0 = {} OBVIOUS
<1>3. DOMAIN Sorted({}) = {} BY <1>1, <1>2 DEF Sorted
<1>4. Sorted({}) = [i \in {} |-> Min({k \in {} : Rank({}, k) = i - 1})] BY <1>1, <1>2 DEF Sorted
<1> QED BY <1>4

(* Nothing is added to a sequence. *)
LEMMA SortedNone ==
  ASSUME NEW S, S \subseteq Nat, IsFiniteSet(S) PROVE Sorted(S) \o <<>> = Sorted(S)
<1> DEFINE X == {Sorted(S)[i] : i \in 1..Cardinality(S)}
<1>1. Sorted(S) \in Seq(X) BY SortedIs
<1> HIDE DEF X
<1> QED BY <1>1, ConcatEmptySeq

(* When all of A is below all of B, the keys of both in order are those of A and then
   those of B. *)
LEMMA JoinSorted ==
  ASSUME NEW A, A \subseteq Nat, IsFiniteSet(A), NEW B, B \subseteq Nat, IsFiniteSet(B),
         \A a \in A, b \in B : a < b
  PROVE  Sorted(A) \o Sorted(B) = Sorted(A \cup B)
<1> DEFINE n == Cardinality(A)
           m == Cardinality(B)
           C == A \cup B
<1>1. n \in Nat /\ m \in Nat BY FS_CardinalityType
<1>2. C \subseteq Nat /\ IsFiniteSet(C) /\ A \cap B = {}
  <2>1. ASSUME NEW k \in A \cap B PROVE FALSE
    <3>1. k < k /\ k \in Nat OBVIOUS
    <3> QED BY <3>1
  <2> QED BY <2>1, FS_Union
<1>3. Cardinality(C) = n + m
  <2>1. Cardinality(C) = n + m - Cardinality(A \cap B) BY FS_Union
  <2>2. Cardinality(A \cap B) = 0 BY <1>2, FS_EmptySet
  <2> QED BY <1>1, <2>1, <2>2
<1>4. ASSUME NEW k \in A PROVE Rank(C, k) = Rank(A, k) /\ Rank(A, k) \in Nat /\ Rank(A, k) < n
  <2>1. ASSUME NEW j \in B PROVE ~(j < k)
    <3>1. j \in Nat /\ k \in Nat /\ k < j OBVIOUS
    <3> QED BY <3>1
  <2>2. {j \in C : j < k} = {j \in A : j < k} BY <2>1
  <2> QED BY <2>2, RankIs DEF Rank
<1>5. ASSUME NEW k \in B PROVE Rank(C, k) = n + Rank(B, k) /\ Rank(B, k) \in Nat
  <2> DEFINE U == {j \in B : j < k}
  <2>1. {j \in C : j < k} = A \cup U OBVIOUS
  <2>2. U \subseteq B OBVIOUS
  <2>3. Rank(B, k) = Cardinality(U) /\ Rank(C, k) = Cardinality(A \cup U) BY <2>1 DEF Rank
  <2> HIDE DEF U
  <2>4. IsFiniteSet(U) BY <2>2, FS_Subset
  <2>5. A \cap U = {} BY <1>2, <2>2
  <2>6. Cardinality(A \cup U) = n + Cardinality(U) - Cardinality(A \cap U) BY <2>4, FS_Union
  <2>7. Cardinality(A \cap U) = 0 BY <2>5, FS_EmptySet
  <2>8. Cardinality(U) \in Nat BY <2>4, FS_CardinalityType
  <2> QED BY <1>1, <2>3, <2>6, <2>7, <2>8
<1> HIDE DEF n, m
<1>6. ASSUME NEW i \in 1..n PROVE Sorted(C)[i] = Sorted(A)[i] /\ i \in 1..(n + m)
  <2>1. {k \in C : Rank(C, k) = i - 1} = {k \in A : Rank(A, k) = i - 1}
    <3>1. ASSUME NEW k \in C, Rank(C, k) = i - 1 PROVE k \in A /\ Rank(A, k) = i - 1
      <4>1. k \notin B
        <5> SUFFICES ASSUME k \in B PROVE FALSE OBVIOUS
        <5>1. Rank(C, k) = n + Rank(B, k) /\ Rank(B, k) \in Nat BY <1>5
        <5> QED BY <1>1, <3>1, <5>1
      <4>2. k \in A BY <4>1
      <4> QED BY <1>4, <3>1, <4>2
    <3>2. ASSUME NEW k \in A, Rank(A, k) = i - 1 PROVE k \in C /\ Rank(C, k) = i - 1
      BY <1>4, <3>2
    <3> HIDE DEF C
    <3> QED BY <3>1, <3>2
  <2>2. i \in 1..(n + m) BY <1>1
  <2>3. Sorted(A)[i] = Min({k \in A : Rank(A, k) = i - 1}) BY SortedIs DEF n
  <2>4. i \in 1..Cardinality(C) BY <1>3, <2>2
  <2> HIDE DEF C
  <2>5. Sorted(C)[i] = Min({k \in C : Rank(C, k) = i - 1}) BY <1>2, <2>4, SortedIs
  <2> QED BY <2>1, <2>2, <2>3, <2>5
<1>7. ASSUME NEW i \in (n + 1)..(n + m) PROVE Sorted(C)[i] = Sorted(B)[i - n] /\ i - n \in 1..m
  <2>0. i - n \in 1..m /\ i \in 1..(n + m) BY <1>1
  <2>1. {k \in C : Rank(C, k) = i - 1} = {k \in B : Rank(B, k) = (i - n) - 1}
    <3>1. ASSUME NEW k \in C, Rank(C, k) = i - 1 PROVE k \in B /\ Rank(B, k) = (i - n) - 1
      <4>1. k \notin A
        <5> SUFFICES ASSUME k \in A PROVE FALSE OBVIOUS
        <5>1. Rank(C, k) < n /\ Rank(C, k) \in Nat BY <1>4
        <5> QED BY <1>1, <3>1, <5>1
      <4>2. k \in B BY <4>1
      <4>3. Rank(C, k) = n + Rank(B, k) /\ Rank(B, k) \in Nat BY <1>5, <4>2
      <4> QED BY <1>1, <3>1, <4>2, <4>3
    <3>2. ASSUME NEW k \in B, Rank(B, k) = (i - n) - 1 PROVE k \in C /\ Rank(C, k) = i - 1
      <4>1. Rank(C, k) = n + Rank(B, k) /\ Rank(B, k) \in Nat BY <1>5
      <4> QED BY <1>1, <3>2, <4>1
    <3> HIDE DEF C
    <3> QED BY <3>1, <3>2
  <2>3. Sorted(B)[i - n] = Min({k \in B : Rank(B, k) = (i - n) - 1}) BY <2>0, SortedIs DEF m
  <2>4. i \in 1..Cardinality(C) BY <1>3, <2>0
  <2> HIDE DEF C
  <2>5. Sorted(C)[i] = Min({k \in C : Rank(C, k) = i - 1}) BY <1>2, <2>4, SortedIs
  <2> QED BY <2>0, <2>1, <2>3, <2>5
<1> DEFINE X == {Sorted(A)[i] : i \in 1..Cardinality(A)}
           Y == {Sorted(B)[i] : i \in 1..Cardinality(B)}
           r == Sorted(A) \o Sorted(B)
<1>8. Sorted(A) \in Seq(X) /\ Len(Sorted(A)) = n /\ Sorted(B) \in Seq(Y) /\ Len(Sorted(B)) = m
  BY SortedIs DEF n, m
<1>9. DOMAIN Sorted(C) = 1..(n + m)
  <2> HIDE DEF C
  <2> QED BY <1>2, <1>3, SortedIs
<1> HIDE DEF X, Y, C
<1>10. Sorted(A) \in Seq(X \cup Y) /\ Sorted(B) \in Seq(X \cup Y)
  <2>1. Sorted(A) \in [1..n -> X] /\ Sorted(B) \in [1..m -> Y] BY <1>8, LenProperties
  <2>2. Sorted(A) \in [1..n -> X \cup Y] /\ Sorted(B) \in [1..m -> X \cup Y] BY <2>1
  <2> QED BY <1>1, <2>2, SeqDef
<1>11. /\ r \in Seq(X \cup Y) /\ Len(r) = n + m
       /\ \A i \in 1..(n + m) : r[i] = IF i <= n THEN Sorted(A)[i] ELSE Sorted(B)[i - n]
  BY <1>8, <1>10, ConcatProperties
<1> HIDE DEF r
<1>12. DOMAIN r = 1..(n + m) /\ r = [i \in 1..(n + m) |-> r[i]] BY <1>11, LenProperties
<1>13. Sorted(C) = [i \in 1..(n + m) |-> Sorted(C)[i]]
  <2>1. Sorted(C) = [i \in 1..Cardinality(C) |-> Min({k \in C : Rank(C, k) = i - 1})] BY DEF Sorted
  <2> QED BY <1>3, <2>1
<1>14. ASSUME NEW i \in 1..(n + m) PROVE r[i] = Sorted(C)[i]
  <2>1. CASE i <= n
    <3>1. i \in 1..n BY <2>1
    <3> QED BY <1>6, <1>11, <2>1, <3>1
  <2>2. CASE ~(i <= n)
    <3>1. i \in (n + 1)..(n + m) BY <1>1, <2>2
    <3> QED BY <1>7, <1>11, <2>2, <3>1
  <2> QED BY <2>1, <2>2
<1>15. r = Sorted(C) BY <1>12, <1>13, <1>14
<1> QED BY <1>15 DEF r, C

-----------------------------------------------------------------------------
(* A scan. *)

Ahead(ns, p, first, lo) == {k \in DOMAIN ns[p].rids : p = first => lo <= k}
Yield(ns, first, lo, hi, p, rest) ==
  Sorted({k \in Ahead(ns, p, first, lo) : k <= hi}) \o
    (IF ns[p].next = 0 \/ \E k \in Ahead(ns, p, first, lo) : k > hi THEN <<>> ELSE rest)
AlongOf(ns, first, lo, hi) ==
  CHOOSE f : f = [p \in {q \in DOMAIN ns : IsLeaf(ns[q])} |-> Yield(ns, first, lo, hi, p, f[ns[p].next])]

(* A scan is the walk along the chain from the leaf of its first key. *)
LEMMA ScannedIs ==
  ASSUME NEW t, NEW lo, NEW hi
  PROVE  Scanned(t, lo, hi) = AlongOf(t.nodes, Last(Path(t, lo)), lo, hi)[Last(Path(t, lo))]
BY DEF Scanned, AlongOf, Yield, Ahead

(* Finitely many numbers have a bound. *)
LEMMA Bounded ==
  ASSUME NEW n \in Nat, NEW f, \A p \in 1..n : f[p] \in Nat
  PROVE  \E b \in Nat : \A p \in 1..n : f[p] < b
<1> DEFINE Bound(m) == \E b \in Nat : \A p \in 1..m : f[p] < b
           T == {m \in 0..n : ~Bound(m)}
<1>1. T = {}
  <2> SUFFICES ASSUME T # {} PROVE FALSE OBVIOUS
  <2>1. T \subseteq Nat OBVIOUS
  <2>2. PICK m \in T : \A x \in T : m <= x
    <3> HIDE DEF T
    <3> QED BY <2>1, LeastExists
  <2>3. m \in 0..n /\ ~Bound(m) BY <2>2
  <2>4. m # 0
    <3>1. \A p \in 1..0 : f[p] < 0 OBVIOUS
    <3> QED BY <2>3, <3>1
  <2>5. \A x \in 0..n : x \notin T => Bound(x) OBVIOUS
  <2> HIDE DEF T, Bound
  <2>6. m - 1 \in 0..n /\ ~(m <= m - 1) /\ m \in 1..n BY <2>3, <2>4
  <2>7. Bound(m - 1) BY <2>2, <2>5, <2>6
  <2>8. PICK b \in Nat : \A p \in 1..(m - 1) : f[p] < b BY <2>7 DEF Bound
  <2> DEFINE v == f[m]
             c == b + v + 1
  <2>9. v \in Nat BY <2>6
  <2> HIDE DEF v
  <2>10. c \in Nat /\ b <= c /\ v < c BY <2>9
  <2> HIDE DEF c
  <2>11. ASSUME NEW p \in 1..m PROVE f[p] < c
    <3>1. CASE p = m BY <2>10, <3>1 DEF v
    <3>2. CASE p # m
      <4>1. p \in 1..(m - 1) /\ p \in 1..n BY <2>6, <3>2
      <4>2. f[p] < b /\ f[p] \in Nat BY <2>8, <4>1
      <4> DEFINE w == f[p]
      <4> HIDE DEF w
      <4>3. w < b /\ w \in Nat BY <4>2 DEF w
      <4>4. w < c BY <2>10, <4>3
      <4> QED BY <4>4 DEF w
    <3> QED BY <3>1, <3>2
  <2>12. Bound(m) BY <2>10, <2>11 DEF Bound
  <2> QED BY <2>3, <2>12
<1>2. n \in 0..n OBVIOUS
<1>3. Bound(n) BY <1>1, <1>2
<1> QED BY <1>3

(* The recursion along the chain computes what its equation says: the chain comes to
   an end, for pos gets smaller. *)
LEMMA AlongIs ==
  ASSUME NEW ns, NEW root, NEW g, Shape(ns, root, g), NEW first, NEW lo, NEW hi
  PROVE  \A p \in DOMAIN ns : g.level[p] = 0 =>
           AlongOf(ns, first, lo, hi)[p] =
             Yield(ns, first, lo, hi, p, AlongOf(ns, first, lo, hi)[ns[p].next])
<1> DEFINE Ps == {q \in DOMAIN ns : IsLeaf(ns[q])}
           F(f, p) == Yield(ns, first, lo, hi, p, f[ns[p].next])
           Is(f) == f = [p \in Ps |-> F(f, p)]
           along == CHOOSE f : Is(f)
           S == {d \in Nat : \A f : DOMAIN f = Ps => ~ \A p \in Ps : g.pos[p] < d => f[p] = F(f, p)}
<1>0. along = AlongOf(ns, first, lo, hi) BY DEF AlongOf
<1>1. Typed(ns, g) /\ Chained(ns, g) BY DEF Shape
<1>2. /\ \A p \in DOMAIN ns : p \in Ps <=> g.level[p] = 0
      /\ \A p \in Ps : p \in DOMAIN ns
      /\ \A p \in DOMAIN ns : p \in Nat /\ g.pos[p] \in Nat
      /\ DOMAIN ns = 1..Len(ns) /\ Len(ns) \in Nat
  <2>1. DOMAIN ns = 1..Len(ns) /\ Len(ns) \in Nat /\ \A p \in Nat : g.pos[p] \in Nat BY <1>1, TypesOf
  <2>2. \A p \in DOMAIN ns : p \in Nat BY <2>1
  <2>3. \A p \in DOMAIN ns : IsLeaf(ns[p]) <=> g.level[p] = 0 BY <1>1 DEF Typed
  <2> QED BY <2>1, <2>2, <2>3
<1>3. ASSUME NEW p \in Ps, ns[p].next # 0
      PROVE  ns[p].next \in Ps /\ g.pos[ns[p].next] \in Nat /\ g.pos[p] \in Nat
             /\ g.pos[ns[p].next] < g.pos[p]
  BY <1>1, <1>2, <1>3 DEF Chained
<1> HIDE DEF Ps
<1>4. ASSUME NEW p \in Ps, ns[p].next = 0, NEW f, NEW h PROVE F(f, p) = F(h, p) BY <1>4 DEF Yield
<1>5. ASSUME NEW p \in Ps, NEW f, NEW h, f[ns[p].next] = h[ns[p].next] PROVE F(f, p) = F(h, p)
  BY <1>5
<1> HIDE DEF F
<1>6. S = {}
  <2> SUFFICES ASSUME S # {} PROVE FALSE OBVIOUS
  <2>1. S \subseteq Nat OBVIOUS
  <2>2. PICK d \in S : \A m \in S : d <= m
    <3> HIDE DEF S
    <3> QED BY <2>1, LeastExists
  <2>3. d \in Nat BY <2>2
  <2>4. CASE d = 0
    <3> DEFINE f == [p \in Ps |-> 0]
    <3>1. \A p \in Ps : g.pos[p] < d => f[p] = F(f, p)
      <4>1. \A p \in Ps : ~(g.pos[p] < 0) BY <1>2
      <4> QED BY <2>4, <4>1
    <3>2. DOMAIN f = Ps OBVIOUS
    <3> HIDE DEF f
    <3> QED BY <2>2, <3>1, <3>2
  <2>5. CASE d > 0
    <3>1. d - 1 \in Nat /\ ~(d <= d - 1) BY <2>3, <2>5
    <3>2. d - 1 \notin S BY <2>2, <3>1
    <3>3. PICK f : DOMAIN f = Ps /\ \A p \in Ps : g.pos[p] < d - 1 => f[p] = F(f, p)
      BY <3>1, <3>2
    <3> DEFINE h == [p \in Ps |-> F(f, p)]
    <3>4. ASSUME NEW p \in Ps, g.pos[p] < d PROVE h[p] = F(h, p)
      <4>1. CASE ns[p].next = 0
        <5>1. F(f, p) = F(h, p) BY <1>4, <4>1
        <5> QED BY <5>1
      <4>2. CASE ns[p].next # 0
        <5>1. ns[p].next \in Ps /\ g.pos[ns[p].next] < d - 1 BY <1>3, <2>3, <3>4, <4>2
        <5>2. f[ns[p].next] = F(f, ns[p].next) BY <3>3, <5>1
        <5>3. h[ns[p].next] = F(f, ns[p].next) BY <5>1
        <5>4. F(f, p) = F(h, p)
          <6>1. f[ns[p].next] = h[ns[p].next] BY <5>2, <5>3
          <6> HIDE DEF h
          <6> QED BY <1>5, <6>1
        <5> QED BY <5>4
      <4> QED BY <4>1, <4>2
    <3>5. DOMAIN h = Ps OBVIOUS
    <3> HIDE DEF h
    <3> QED BY <2>2, <3>4, <3>5
  <2> QED BY <2>3, <2>4, <2>5
<1>7. PICK top \in Nat : \A p \in Ps : g.pos[p] < top
  <2>1. \A p \in 1..Len(ns) : g.pos[p] \in Nat BY <1>2
  <2>2. PICK b \in Nat : \A p \in 1..Len(ns) : g.pos[p] < b BY <1>2, <2>1, Bounded
  <2>3. \A p \in Ps : p \in 1..Len(ns) BY <1>2
  <2> QED BY <2>2, <2>3
<1>8. \E f : Is(f)
  <2>1. top \notin S BY <1>6
  <2>2. PICK f : DOMAIN f = Ps /\ \A p \in Ps : g.pos[p] < top => f[p] = F(f, p) BY <2>1
  <2>3. \A p \in Ps : f[p] = F(f, p) BY <1>7, <2>2
  <2> DEFINE h == [p \in Ps |-> F(f, p)]
  <2>4. ASSUME NEW p \in Ps PROVE F(f, p) = F(h, p)
    <3>1. CASE ns[p].next = 0 BY <1>4, <3>1
    <3>2. CASE ns[p].next # 0
      <4>1. ns[p].next \in Ps BY <1>3, <3>2
      <4>2. h[ns[p].next] = F(f, ns[p].next) BY <4>1
      <4>3. h[ns[p].next] = f[ns[p].next] BY <2>3, <4>1, <4>2
      <4> HIDE DEF h
      <4> QED BY <1>5, <4>3
    <3> QED BY <3>1, <3>2
  <2>5. h = [p \in Ps |-> F(h, p)] BY <2>4
  <2> QED BY <2>5
<1>9. Is(along)
  <2> HIDE DEF Is
  <2> QED BY <1>8
<1>10. \A p \in Ps : along[p] = F(along, p)
  <2> HIDE DEF along
  <2> QED BY <1>9
<1> HIDE DEF along
<1> QED BY <1>0, <1>2, <1>10 DEF F

(* The keys that are in leaves, and those that are still to come at p. *)
Content(ns, g) == {k \in Nat : \E q \in g.L : g.level[q] = 0 /\ k \in DOMAIN ns[q].rids}
ToCome(ns, g, lo, hi, p) == {k \in Content(ns, g) : g.lo[p] <= k /\ lo <= k /\ k <= hi}

(* One leaf of a scan: what it yields comes before what the rest of the chain yields,
   and they are all the keys to come. *)
LEMMA ToComeIs ==
  ASSUME NEW ns, NEW root, NEW g, Shape(ns, root, g), NEW W, NEW D, Filed(ns, root, g, W, D),
         NEW lo \in Nat, NEW hi \in Nat, NEW first \in g.L, g.level[first] = 0,
         \A k \in Content(ns, g) : Before(g, first, first) \/ g.hi[first] = 0 \/ k < g.hi[first] \/ lo <= k,
         NEW p \in g.L, g.level[p] = 0, p = first \/ Before(g, first, p), NEW rest,
         ns[p].next # 0 => rest = Sorted(ToCome(ns, g, lo, hi, ns[p].next))
  PROVE  Yield(ns, first, lo, hi, p, rest) = Sorted(ToCome(ns, g, lo, hi, p))
<1> DEFINE R == DOMAIN ns[p].rids
           H == Ahead(ns, p, first, lo)
           A == {k \in H : k <= hi}
           T == ToCome(ns, g, lo, hi, p)
           n == ns[p].next
           N == ToCome(ns, g, lo, hi, n)
<1>1. Typed(ns, g) /\ Apart(g) /\ Chained(ns, g) BY DEF Shape
<1>2. /\ g.L \subseteq DOMAIN ns /\ g.L \subseteq Nat
      /\ \A z \in g.L : g.level[z] \in Nat /\ g.lo[z] \in Nat /\ g.hi[z] \in Nat
  BY <1>1, TypesOf DEF Typed
<1>3. ns[p] \in Leaves BY <1>1, <1>2, LeafOf
<1>4. R \subseteq Nat /\ IsFiniteSet(R) BY <1>3, LeafHas
<1>5. ASSUME NEW q \in g.L, g.level[q] = 0, NEW k \in DOMAIN ns[q].rids
      PROVE  k \in Nat /\ Covers(g, q, k) /\ k \in Content(ns, g)
  <2>1. ns[q] \in Leaves BY <1>1, <1>2, <1>5, LeafOf
  <2>2. k \in Nat BY <2>1, LeafHas
  <2> QED BY <1>5, <2>2 DEF Filed, Content
<1>6. ASSUME NEW k \in Content(ns, g), Covers(g, p, k) PROVE k \in R
  <2>1. PICK q \in g.L : g.level[q] = 0 /\ k \in DOMAIN ns[q].rids BY DEF Content
  <2>2. k \in Nat /\ Covers(g, q, k) BY <1>5, <2>1
  <2>3. q = p BY <1>6, <2>1, <2>2, SamePage
  <2> QED BY <2>1, <2>3
<1>7. H \subseteq R BY DEF Ahead
<1>8. ASSUME NEW k \in R PROVE (k \in H <=> lo <= k) /\ k \in Nat
  <2>1. k \in Nat /\ Covers(g, p, k) /\ k \in Content(ns, g) BY <1>5
  <2>2. CASE p = first BY <2>1, <2>2 DEF Ahead
  <2>3. CASE p # first
    <3>1. Before(g, first, p) BY <2>3
    <3>2. g.hi[first] # 0 /\ g.hi[first] <= g.lo[p] /\ g.lo[p] <= k
      BY <2>1, <3>1 DEF Before, Covers, Within
    <3>3. g.hi[first] \in Nat /\ g.lo[p] \in Nat /\ g.lo[first] \in Nat BY <1>2
    <3>4. ~(k < g.hi[first]) BY <2>1, <3>2, <3>3
    <3>5. ~Before(g, first, first) BY <1>1, <3>2, <3>3 DEF Before, Apart
    <3>6. lo <= k BY <2>1, <3>2, <3>4, <3>5
    <3> QED BY <2>1, <2>3, <3>6 DEF Ahead
  <2> QED BY <2>2, <2>3
<1> HIDE DEF H
<1>9. A \subseteq T
  <2>1. ASSUME NEW k \in A PROVE k \in T
    <3>1. k \in R /\ k <= hi BY <1>7
    <3>2. Covers(g, p, k) /\ k \in Content(ns, g) BY <1>5, <3>1
    <3>3. lo <= k BY <1>8, <3>1
    <3> QED BY <3>1, <3>2, <3>3 DEF ToCome, Covers, Within
  <2> QED BY <2>1
<1>10. ASSUME NEW k \in T, k \in R PROVE k \in A
  <2>1. lo <= k /\ k <= hi BY DEF ToCome
  <2> QED BY <1>8, <1>10, <2>1
<1>11. A \subseteq Nat /\ IsFiniteSet(A)
  <2>1. A \subseteq R BY <1>7
  <2> HIDE DEF A, R
  <2> QED BY <1>4, <2>1, FS_Subset
<1>12. n = 0 <=> g.hi[p] = 0 BY <1>1 DEF Chained
<1>t. \A k \in T : k \in Nat /\ k \in Content(ns, g) /\ g.lo[p] <= k /\ lo <= k /\ k <= hi
  BY DEF ToCome, Content
<1>y. Yield(ns, first, lo, hi, p, rest) =
        Sorted(A) \o (IF n = 0 \/ \E k \in H : k > hi THEN <<>> ELSE rest)
  BY DEF Yield, H
<1> HIDE DEF R, A, T, n, N
<1>13. CASE n = 0 \/ \E k \in H : k > hi
  <2>1. ASSUME NEW k \in T PROVE k \in A
    <3>0. k \in Nat /\ k \in Content(ns, g) /\ g.lo[p] <= k /\ k <= hi BY <1>t
    <3>1. CASE n = 0
      <4>1. Covers(g, p, k) BY <1>12, <3>0, <3>1 DEF Covers, Within
      <4> QED BY <1>6, <1>10, <3>0, <4>1
    <3>2. CASE \E l \in H : l > hi
      <4>1. PICK l \in H : l > hi BY <3>2
      <4>2. l \in Nat /\ Covers(g, p, l) BY <1>5, <1>7, <4>1 DEF R
      <4>3. g.hi[p] \in Nat BY <1>2
      <4>4. Covers(g, p, k) BY <3>0, <4>1, <4>2, <4>3 DEF Covers, Within
      <4> QED BY <1>6, <1>10, <3>0, <4>4
    <3> QED BY <1>13, <3>1, <3>2
  <2>2. A = T BY <1>9, <2>1
  <2>3. Yield(ns, first, lo, hi, p, rest) = Sorted(A) \o <<>> BY <1>y, <1>13
  <2>4. Sorted(A) \o <<>> = Sorted(A) BY <1>11, SortedNone
  <2> QED BY <2>2, <2>3, <2>4 DEF T
<1>14. CASE ~(n = 0 \/ \E k \in H : k > hi)
  <2>1. n \in g.L /\ g.lo[n] = g.hi[p] /\ g.hi[p] # 0 BY <1>1, <1>12, <1>14 DEF Chained, n
  <2>2. g.lo[p] \in Nat /\ g.hi[p] \in Nat /\ g.lo[p] < g.hi[p] BY <1>1, <1>2, <2>1 DEF Apart
  <2>3. \A k : k \in N <=> /\ k \in Content(ns, g) /\ k \in Nat
                           /\ g.hi[p] <= k /\ lo <= k /\ k <= hi
    BY <2>1 DEF N, ToCome, Content
  <2>4. ASSUME NEW k \in T PROVE k \in A \cup N
    <3>0. k \in Nat /\ k \in Content(ns, g) /\ g.lo[p] <= k /\ lo <= k /\ k <= hi BY <1>t
    <3>1. CASE k < g.hi[p]
      <4>1. Covers(g, p, k) BY <3>0, <3>1 DEF Covers, Within
      <4> QED BY <1>6, <1>10, <3>0, <4>1
    <3>2. CASE ~(k < g.hi[p])
      <4>1. g.hi[p] <= k BY <2>2, <3>0, <3>2
      <4> QED BY <2>3, <3>0, <4>1
    <3> QED BY <3>1, <3>2
  <2>5. ASSUME NEW k \in N PROVE k \in T
    <3>1. k \in Content(ns, g) /\ k \in Nat /\ g.hi[p] <= k /\ lo <= k /\ k <= hi BY <2>3
    <3>2. g.lo[p] <= k BY <2>2, <3>1
    <3> QED BY <3>1, <3>2 DEF T, ToCome
  <2>6. A \cup N = T BY <1>9, <2>4, <2>5
  <2>7. N \subseteq Nat /\ IsFiniteSet(N)
    <3>1. N \subseteq 0..hi BY <2>3
    <3>2. IsFiniteSet(0..hi) BY FS_Interval
    <3>3. N \subseteq Nat BY <2>3
    <3> QED BY <3>1, <3>2, <3>3, FS_Subset
  <2>8. ASSUME NEW a \in A, NEW b \in N PROVE a < b
    <3>1. a \in T BY <1>9
    <3>2. a \in H BY DEF A
    <3>3. a \in Nat /\ Covers(g, p, a) BY <1>5, <1>7, <3>2 DEF R
    <3>4. b \in Nat /\ g.hi[p] <= b BY <2>3
    <3> QED BY <2>1, <2>2, <3>3, <3>4 DEF Covers, Within
  <2>9. Sorted(A) \o Sorted(N) = Sorted(A \cup N) BY <1>11, <2>7, <2>8, JoinSorted
  <2>10. rest = Sorted(N) BY <1>14 DEF n, N
  <2>11. Yield(ns, first, lo, hi, p, rest) = Sorted(A) \o rest BY <1>y, <1>14
  <2> QED BY <2>6, <2>9, <2>10, <2>11 DEF T
<1> QED BY <1>13, <1>14

(* A walk along the chain yields all the keys to come, in order. *)
LEMMA AlongHas ==
  ASSUME NEW ns, NEW root, NEW g, Shape(ns, root, g), NEW W, NEW D, Filed(ns, root, g, W, D),
         NEW lo \in Nat, NEW hi \in Nat, NEW first \in g.L, g.level[first] = 0,
         \A k \in Content(ns, g) : Before(g, first, first) \/ g.hi[first] = 0 \/ k < g.hi[first] \/ lo <= k
  PROVE  AlongOf(ns, first, lo, hi)[first] = Sorted(ToCome(ns, g, lo, hi, first))
<1> DEFINE f == AlongOf(ns, first, lo, hi)
           Ps == {p \in g.L : g.level[p] = 0 /\ (p = first \/ Before(g, first, p))}
           Right(p) == f[p] = Sorted(ToCome(ns, g, lo, hi, p))
           S == {d \in Nat : \E p \in Ps : g.pos[p] = d /\ ~Right(p)}
<1>1. Typed(ns, g) /\ Apart(g) /\ Chained(ns, g) BY DEF Shape
<1>2. /\ g.L \subseteq DOMAIN ns /\ g.L \subseteq Nat
      /\ \A z \in g.L : g.lo[z] \in Nat /\ g.hi[z] \in Nat /\ g.pos[z] \in Nat
  BY <1>1, TypesOf DEF Typed
<1>3. \A p \in DOMAIN ns : g.level[p] = 0 => f[p] = Yield(ns, first, lo, hi, p, f[ns[p].next])
  BY AlongIs
<1> HIDE DEF f
<1>4. ASSUME NEW p \in Ps, ns[p].next # 0
      PROVE  ns[p].next \in Ps /\ g.pos[ns[p].next] < g.pos[p]
  <2> DEFINE n == ns[p].next
  <2>1. n \in g.L /\ g.lo[n] = g.hi[p] /\ g.hi[p] # 0 BY <1>1, <1>4 DEF Chained
  <2>2. g.level[n] = 0 /\ g.pos[n] < g.pos[p]
    <3>1. p \in DOMAIN ns BY <1>2
    <3> QED BY <1>1, <1>4, <3>1 DEF Chained
  <2> HIDE DEF n
  <2>3. Before(g, first, n)
    <3>1. CASE p = first
      <4>1. g.hi[first] # 0 /\ g.lo[n] = g.hi[first] BY <2>1, <3>1
      <4> QED BY <1>2, <4>1 DEF Before
    <3>2. CASE Before(g, first, p)
      <4>1. g.hi[first] # 0 /\ g.hi[first] <= g.lo[p] BY <3>2 DEF Before
      <4>2. g.lo[p] < g.hi[p] BY <1>1, <2>1 DEF Apart
      <4>3. g.hi[first] \in Nat /\ g.lo[p] \in Nat /\ g.hi[p] \in Nat BY <1>2
      <4> QED BY <2>1, <4>1, <4>2, <4>3 DEF Before
    <3> QED BY <3>1, <3>2
  <2> QED BY <2>1, <2>2, <2>3 DEF n
<1>5. S = {}
  <2> SUFFICES ASSUME S # {} PROVE FALSE OBVIOUS
  <2>1. S \subseteq Nat OBVIOUS
  <2>2. PICK d \in S : \A m \in S : d <= m
    <3> HIDE DEF S
    <3> QED BY <2>1, LeastExists
  <2>3. PICK p \in Ps : g.pos[p] = d /\ ~Right(p) BY <2>2
  <2>4. p \in g.L /\ g.level[p] = 0 /\ (p = first \/ Before(g, first, p)) OBVIOUS
  <2>5. ASSUME ns[p].next # 0 PROVE Right(ns[p].next)
    <3>1. ns[p].next \in Ps /\ g.pos[ns[p].next] < g.pos[p] BY <1>4, <2>5
    <3>2. g.pos[ns[p].next] \in Nat /\ g.pos[p] \in Nat BY <1>2, <3>1
    <3>3. ~(d <= g.pos[ns[p].next]) BY <2>3, <3>1, <3>2
    <3>4. g.pos[ns[p].next] \notin S BY <2>2, <3>3
    <3> QED BY <3>1, <3>2, <3>4
  <2> DEFINE rest == f[ns[p].next]
  <2>6. ns[p].next # 0 => rest = Sorted(ToCome(ns, g, lo, hi, ns[p].next)) BY <2>5
  <2>7. f[p] = Yield(ns, first, lo, hi, p, rest) BY <1>2, <1>3, <2>4
  <2> HIDE DEF rest
  <2>8. Yield(ns, first, lo, hi, p, rest) = Sorted(ToCome(ns, g, lo, hi, p))
    BY <2>4, <2>6, ToComeIs
  <2> QED BY <2>3, <2>7, <2>8
<1>6. first \in Ps /\ g.pos[first] \in Nat BY <1>2
<1>7. Right(first) BY <1>5, <1>6
<1> QED BY <1>7 DEF f

(* Scans are exact where the invariant holds. *)
LEMMA ScanKept == ASSUME BTreeAssumption, Inv PROVE ScanExact
<1> SUFFICES ASSUME ~missed, NEW lo \in (IF doubt = {} THEN TreeKeys ELSE {Min(TreeKeys)}), NEW hi \in TreeKeys
             PROVE  \E D \in SUBSET doubt :
                      Scanned(tree, lo, hi) =
                        Sorted({k \in (DOMAIN want \ doubt) \cup D : lo <= k /\ k <= hi})
  BY DEF ScanExact
<1>1. PICK g : /\ Shape(tree.nodes, tree.root, g) /\ Filed(tree.nodes, tree.root, g, want, doubt)
               /\ doubt = {} => g.left = 0
  BY DEF Inv, Kept
<1>2. DOMAIN want \subseteq TreeKeys /\ doubt \subseteq TreeKeys BY DEF Inv
<1>3. TreeKeys \subseteq Nat /\ TreeKeys # {} BY DEF BTreeAssumption
<1>4. Min(TreeKeys) \in TreeKeys /\ \A k \in TreeKeys : Min(TreeKeys) <= k BY <1>3, MinIs
<1>5. lo \in TreeKeys /\ (doubt # {} => lo = Min(TreeKeys)) BY <1>4
<1>6. lo \in Nat /\ hi \in Nat BY <1>3, <1>5
<1> DEFINE ns == tree.nodes
           first == Last(Path(tree, lo))
           C == Content(ns, g)
<1>7. first \in g.L /\ g.level[first] = 0 /\ g.lo[first] <= lo /\ (doubt = {} => Covers(g, first, lo))
  <2> DEFINE path == Path(tree, lo)
             n == Len(path)
  <2>1. IsPath(ns, g, lo, tree.root, path) BY <1>1, <1>6, PathIs
  <2> HIDE DEF path
  <2>2. /\ n = g.level[tree.root] + 1
        /\ \A i \in 1..n : path[i] \in g.L /\ g.level[path[i]] = n - i /\ Inside(g, path[i], lo)
    BY <2>1 DEF IsPath
  <2>3. g.level[tree.root] \in Nat
    <3>1. Typed(ns, g) /\ tree.root \in g.L BY <1>1 DEF Shape, Rooted
    <3> QED BY <3>1, TypesOf
  <2>4. Last(path) = path[n] BY DEF Last
  <2> HIDE DEF n
  <2>5. n \in 1..n /\ n - n = 0 BY <2>2, <2>3
  <2>6. path[n] \in g.L /\ g.level[path[n]] = 0 /\ Inside(g, path[n], lo) BY <2>2, <2>5
  <2>7. first = path[n] BY <2>4 DEF path
  <2> HIDE DEF first
  <2> QED BY <1>1, <2>6, <2>7 DEF Inside
<1>8. Scanned(tree, lo, hi) = AlongOf(ns, first, lo, hi)[first] BY ScannedIs
<1> HIDE DEF first
<1>9. \A k \in C : k \in Nat /\ (k \in doubt \/ k \in DOMAIN want) BY <1>1 DEF Content, Filed
<1>10. \A k \in DOMAIN want \ doubt : k \in C
  <2>1. \A k \in DOMAIN want : k \in Nat BY <1>2, <1>3
  <2> QED BY <1>1, <2>1 DEF Content, Filed
<1> HIDE DEF C
<1>11. ASSUME NEW k \in C PROVE Before(g, first, first) \/ g.hi[first] = 0 \/ k < g.hi[first] \/ lo <= k
  <2>1. CASE doubt = {}
    <3>1. g.hi[first] = 0 \/ lo < g.hi[first] BY <1>7, <2>1 DEF Covers, Within
    <3>2. g.hi[first] \in Nat
      <4>1. Typed(ns, g) BY <1>1 DEF Shape
      <4> QED BY <1>7, <4>1, TypesOf
    <3> QED BY <1>6, <1>9, <3>1, <3>2
  <2>2. CASE doubt # {}
    <3>1. k \in TreeKeys BY <1>2, <1>9
    <3> QED BY <1>4, <1>5, <2>2, <3>1
  <2> QED BY <2>1, <2>2
<1>12. AlongOf(ns, first, lo, hi)[first] = Sorted(ToCome(ns, g, lo, hi, first))
  <2> HIDE DEF ns
  <2> QED BY <1>1, <1>6, <1>7, <1>11, AlongHas DEF C, ns
<1> DEFINE D == C \cap doubt
           E == {k \in (DOMAIN want \ doubt) \cup D : lo <= k /\ k <= hi}
<1>13. ToCome(ns, g, lo, hi, first) = E
  <2>1. C = (DOMAIN want \ doubt) \cup D BY <1>9, <1>10
  <2>2. ToCome(ns, g, lo, hi, first) = {k \in C : g.lo[first] <= k /\ lo <= k /\ k <= hi}
    BY DEF ToCome, C
  <2>3. g.lo[first] \in Nat
    <3>1. Typed(ns, g) BY <1>1 DEF Shape
    <3> QED BY <1>7, <3>1, TypesOf
  <2>4. \A k \in C : lo <= k => g.lo[first] <= k BY <1>6, <1>7, <1>9, <2>3
  <2>5. ToCome(ns, g, lo, hi, first) = {k \in C : lo <= k /\ k <= hi} BY <2>2, <2>4
  <2> QED BY <2>1, <2>5
<1>14. D \in SUBSET doubt OBVIOUS
<1>15. Scanned(tree, lo, hi) = Sorted(E) BY <1>8, <1>12, <1>13
<1> QED BY <1>14, <1>15

-----------------------------------------------------------------------------
(* The tree stays a tree that holds what was put into it: over any number of calls,
   from any load, whatever pages there are to allocate - until a merge misses its
   separator. *)
THEOREM TreeStaysWhole == ASSUME BTreeAssumption PROVE Spec => []Inv
<1>1. Init => Inv
  BY InitKept
<1>2. Inv /\ [Next]_vars => Inv'
  BY NextKept
<1> QED BY <1>1, <1>2, PTL DEF Spec
==============================================================================
