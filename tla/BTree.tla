------------------------------- MODULE BTree ---------------------------------
(* The on-disk B+ tree of internal/index: leaves that hold entries and are
   chained from left to right, internal nodes that route keys to children, splits
   on the way up from a full leaf, borrowing and merging of leaves that run low.
   Every write holds the tree's lock for the whole call, so a call is one step.

   A node is a leaf [rids, next] or a router [child0, entries]; pages are numbered
   in the order they are allocated, 0 is no page.  The header fields that nothing
   reads (IsRoot, ParentPageID) are left out. *)
EXTENDS Integers, SequencesExt

CONSTANTS
  TreeKeys,         \* the keys that are inserted and deleted
  Rids,             \* the places of a record
  MaxLeafEntries, MaxInternalKeys,
  Loads,            \* the calls before, in order: k inserted key k, -k deleted it
  LoadRid,          \* where the records that are left of them are
  MaxOps            \* bound on the calls of a behaviour

BTreeAssumption ==
  /\ TreeKeys \subseteq Nat /\ TreeKeys # {} /\ MaxOps \in Nat
  /\ Loads \subseteq Seq({k \in Int : k \in TreeKeys \/ -k \in TreeKeys})
  /\ MaxLeafEntries \in Nat /\ MaxLeafEntries >= 4
  /\ MaxInternalKeys \in Nat /\ MaxInternalKeys >= 3

VARIABLES
  tree,     \* [root, nodes]
  want,     \* what the calls that were acknowledged add up to
  doubt,    \* the key of an insertion that failed: the engine has halted
  missed,   \* a merge or a borrowing left the routers as they were
  ops
vars == <<tree, want, doubt, missed, ops>>

MinLeafEntries == MaxLeafEntries \div 2

Leaf(rids, next)        == [rids |-> rids, next |-> next]
Router(child0, entries) == [child0 |-> child0, entries |-> entries]
IsLeaf(n)     == "rids" \in DOMAIN n
Entry(k, c)   == [key |-> k, child |-> c]
FirstKey(n)   == Min(DOMAIN n.rids)
Count(n)      == Cardinality(DOMAIN n.rids)

----------------------------------------------------------------------------
(* The nodes. *)

Rank(S, k) == Cardinality({j \in S : j < k})
Sorted(S)  == [i \in 1..Cardinality(S) |-> Min({k \in S : Rank(S, k) = i - 1})]

\* The entries below the m-th key of a leaf, and the others.
Lower(rids, m) == Restrict(rids, {k \in DOMAIN rids :
                      Cardinality({j \in DOMAIN rids : j < k}) < m})
With(rids, k, rid)  == [j \in DOMAIN rids \cup {k} |-> IF j = k THEN rid ELSE rids[j]]
Without(rids, S)    == Restrict(rids, DOMAIN rids \ S)

LookupBelow(n, k) == \* mutant: a key that equals a separator goes to its left
  LET i == Cardinality({j \in DOMAIN n.entries : n.entries[j].key < k})
  IN  IF i = 0 THEN n.child0 ELSE n.entries[i].child
Lookup(n, k) ==
  LET i == Cardinality({j \in DOMAIN n.entries : n.entries[j].key <= k})
  IN  IF i = 0 THEN n.child0 ELSE n.entries[i].child

AddEntry(n, k, c) ==
  LET i == Cardinality({j \in DOMAIN n.entries : n.entries[j].key < k})
  IN  [n EXCEPT !.entries = InsertAt(@, i + 1, Entry(k, c))]

\* InternalNode.Delete: by key; nothing happens when no entry has it.
DropEntry(n, k) ==
  LET at == {i \in DOMAIN n.entries : n.entries[i].key = k}
  IN  IF at = {} THEN n ELSE [n EXCEPT !.entries = RemoveAt(@, Min(at))]

SetEntryKey(n, c, k) ==
  [n EXCEPT !.entries = [j \in DOMAIN @ |-> IF @[j].child = c THEN Entry(k, c) ELSE @[j]]]

ChildrenOf(n) == <<n.child0>> \o [j \in DOMAIN n.entries |-> n.entries[j].child]

\* The pages from the root to the leaf of k.
Path(t, k) ==
  LET from[p \in DOMAIN t.nodes] ==
        IF IsLeaf(t.nodes[p]) THEN <<p>> ELSE <<p>> \o from[Lookup(t.nodes[p], k)]
  IN  from[t.root]

----------------------------------------------------------------------------
(* Insertion.  "pages" is how many more pages can be allocated; a call that
   needs one more fails and leaves what it has done so far. *)

NewPage(ns, n)  == Append(ns, n)
NewPageID(ns)   == Len(ns) + 1

\* A separator on its way up: the left half is "left", the new page "right".
CreateNewRoot(st) ==
  IF st.pages = 0 THEN [st EXCEPT !.failed = TRUE, !.up = FALSE]
  ELSE [st EXCEPT !.nodes = NewPage(@, Router(st.left, <<Entry(st.key, st.right)>>)),
                  !.root = NewPageID(st.nodes), !.up = FALSE, !.pages = @ - 1]

\* The separator is between its halves, where the right one can be found.
InsertIntoParent(parentID, st) ==
  LET parent == st.nodes[parentID]
      mid == MaxInternalKeys \div 2
      promoted == parent.entries[mid + 1]
      lower == [parent EXCEPT !.entries = SubSeq(@, 1, mid)]
      upper == Router(promoted.child, SubSeq(parent.entries, mid + 2, MaxInternalKeys))
      inLower == st.key < promoted.key
      split == [st EXCEPT
        !.nodes = NewPage([@ EXCEPT ![parentID] =
                              IF inLower THEN AddEntry(lower, st.key, st.right) ELSE lower],
                          IF inLower THEN upper ELSE AddEntry(upper, st.key, st.right)),
        !.pages = @ - 1,
        !.key = promoted.key, !.left = parentID, !.right = NewPageID(st.nodes)]
  IN  IF ~st.up THEN st
      ELSE IF Len(parent.entries) < MaxInternalKeys
      THEN [st EXCEPT !.nodes[parentID] = AddEntry(@, st.key, st.right), !.up = FALSE]
      ELSE IF st.pages = 0 THEN [st EXCEPT !.failed = TRUE, !.up = FALSE]
      ELSE IF parentID = st.root THEN CreateNewRoot(split) ELSE split

SplitUnlinked(ns, id) == \* mutant: the left half keeps its old next page
  LET lower == Lower(ns[id].rids, MaxLeafEntries \div 2)
  IN  NewPage([ns EXCEPT ![id] = Leaf(lower, @.next)],
              Leaf(Without(ns[id].rids, DOMAIN lower), ns[id].next))
SplitLeaf(ns, id) ==
  LET lower == Lower(ns[id].rids, MaxLeafEntries \div 2)
  IN  NewPage([ns EXCEPT ![id] = Leaf(lower, NewPageID(ns))],
              Leaf(Without(ns[id].rids, DOMAIN lower), ns[id].next))

\* Insert: a full leaf is split even when the key is in it.
Inserted(t, k, rid, pages) ==
  LET path == Path(t, k)
      id == Last(path)
      st == [nodes |-> t.nodes, root |-> t.root, pages |-> pages, failed |-> FALSE,
             up |-> FALSE, key |-> k, left |-> id, right |-> NewPageID(t.nodes)]
      halves == SplitLeaf(t.nodes, id)
      splitKey == FirstKey(halves[st.right])
      split == [st EXCEPT
        !.nodes = [halves EXCEPT ![IF k < splitKey THEN id ELSE st.right].rids = With(@, k, rid)],
        !.pages = @ - 1, !.up = TRUE, !.key = splitKey]
      climb[i \in 1..Len(path)] ==
        IF i = Len(path) THEN split ELSE InsertIntoParent(path[i], climb[i + 1])
      end == IF Count(t.nodes[id]) < MaxLeafEntries
             THEN [st EXCEPT !.nodes[id].rids = With(@, k, rid)]
             ELSE IF pages = 0 THEN [st EXCEPT !.failed = TRUE]
             ELSE IF id = t.root THEN CreateNewRoot(split)
             ELSE climb[1]
  IN  [tree |-> [root |-> end.root, nodes |-> end.nodes], failed |-> end.failed]

----------------------------------------------------------------------------
(* Deletion. *)

LeftSibling(parent, id) ==
  LET cs == ChildrenOf(parent)
      at == CHOOSE i \in DOMAIN cs : cs[i] = id /\ \A j \in 1..(i - 1) : cs[j] # id
  IN  IF at = 1 THEN 0 ELSE cs[at - 1]

Routes(n, k)    == \E j \in DOMAIN n.entries : n.entries[j].key = k
HasChild(n, c)  == \E j \in DOMAIN n.entries : n.entries[j].child = c

\* "from" gives its key k to "to"; the parent's separator of page "of" follows.
Borrow(ns, parentID, from, to, k, of) ==
  LET moved == [ns EXCEPT ![from].rids = Without(@, {k}),
                          ![to].rids = With(@, k, ns[from].rids[k])]
  IN  [nodes |-> [moved EXCEPT ![parentID] = SetEntryKey(@, of, FirstKey(moved[of]))],
       missed |-> ~HasChild(ns[parentID], of)]

\* "left" takes what "right" holds; the parent loses the separator that equals
\* right's first key, if it has one.
Merge(ns, parentID, left, right) ==
  LET k == FirstKey(ns[right])
      both == [j \in DOMAIN ns[left].rids \cup DOMAIN ns[right].rids |->
                 IF j \in DOMAIN ns[right].rids THEN ns[right].rids[j] ELSE ns[left].rids[j]]
  IN  [nodes |-> [ns EXCEPT ![left] = Leaf(both, ns[right].next),
                            ![parentID] = DropEntry(@, k)],
       missed |-> ~Routes(ns[parentID], k)]

\* handleLeafUnderflow: the left sibling first, then the next leaf of the chain.
Underflow(ns, parentID, id) ==
  LET left == LeftSibling(ns[parentID], id)
      right == ns[id].next
  IN  IF left # 0
      THEN IF Count(ns[left]) > MinLeafEntries
           THEN Borrow(ns, parentID, left, id, Max(DOMAIN ns[left].rids), id)
           ELSE Merge(ns, parentID, left, id)
      ELSE IF right # 0
      THEN IF Count(ns[right]) > MinLeafEntries
           THEN Borrow(ns, parentID, right, id, FirstKey(ns[right]), right)
           ELSE Merge(ns, parentID, id, right)
      ELSE [nodes |-> ns, missed |-> FALSE]

Deleted(t, k) ==
  LET path == Path(t, k)
      id == Last(path)
      ns == [t.nodes EXCEPT ![id].rids = Without(@, {k})]
      end == IF id = t.root \/ Count(ns[id]) >= MinLeafEntries
             THEN [nodes |-> ns, missed |-> FALSE]
             ELSE Underflow(ns, path[Len(path) - 1], id)
  IN  [tree |-> [t EXCEPT !.nodes = end.nodes], missed |-> end.missed]

----------------------------------------------------------------------------
(* Reads. *)

Find(t, k) ==
  LET rids == t.nodes[Last(Path(t, k))].rids
  IN  IF k \in DOMAIN rids THEN {rids[k]} ELSE {}

\* What a cursor yields from lo on, leaf by leaf, while nothing is written: the
\* engine's read lock is held until the cursor is closed.  In the first leaf it
\* starts at lo, in each up to the first key beyond hi.
Scanned(t, lo, hi) ==
  LET first == Last(Path(t, lo))
      along[p \in {q \in DOMAIN t.nodes : IsLeaf(t.nodes[q])}] ==
        LET n == t.nodes[p]
            ahead == {k \in DOMAIN n.rids : p = first => lo <= k}
        IN  Sorted({k \in ahead : k <= hi}) \o
              (IF n.next = 0 \/ \E k \in ahead : k > hi THEN <<>> ELSE along[n.next])
  IN  along[first]

----------------------------------------------------------------------------
(* The calls.  s is the state between two of them. *)

Enough == 8 \* pages: more than a call can need in the trees of Loads

AfterInsert(s, k, rid, pages) ==
  LET r == Inserted(s.tree, k, rid, pages)
  IN  [s EXCEPT !.tree = r.tree,
                !.doubt = IF r.failed THEN {k} ELSE {},
                !.want = IF r.failed THEN @ ELSE With(@, k, rid)]

\* The key is there, and no leaf but the root is emptied.  Delete has no such guard:
\* without the key it returns ErrKeyNotFound and changes nothing, and handleLeafUnderflow
\* goes by the 0th key of the leaf, in an empty one whatever was in its place before.
Deletable(t, k) ==
  LET id == Last(Path(t, k))
  IN  Find(t, k) # {} /\ (id = t.root \/ Count(t.nodes[id]) > 1)

AfterDelete(s, k) ==
  LET r == Deleted(s.tree, k)
  IN  [s EXCEPT !.tree = r.tree, !.want = Without(@, {k}), !.missed = @ \/ r.missed]

\* CreateBPlusTree, and the calls of a load: none that follows a failure.
Fresh == [tree |-> [root |-> 1, nodes |-> <<Leaf(<<>>, 0)>>],
          want |-> <<>>, doubt |-> {}, missed |-> FALSE]
Called(s, k) ==
  IF s.doubt # {} THEN s
  ELSE IF k > 0 THEN AfterInsert(s, k, LoadRid, Enough)
  ELSE IF Deletable(s.tree, -k) THEN AfterDelete(s, -k) ELSE s
Loaded(load) ==
  LET after[i \in 0..Len(load)] == IF i = 0 THEN Fresh ELSE Called(after[i - 1], load[i])
  IN  after[Len(load)]

----------------------------------------------------------------------------
Now == [tree |-> tree, want |-> want, doubt |-> doubt, missed |-> missed]
Become(s) == tree' = s.tree /\ want' = s.want /\ doubt' = s.doubt /\ missed' = s.missed

Init ==
  /\ \E load \in Loads :
       LET s == Loaded(load)
       IN  tree = s.tree /\ want = s.want /\ doubt = s.doubt /\ missed = s.missed
  /\ ops = 0

Call == doubt = {} /\ ops < MaxOps /\ ops' = ops + 1

Insert(k, rid, pages) == Call /\ Become(AfterInsert(Now, k, rid, pages))
Delete(k) == Call /\ Deletable(tree, k) /\ Become(AfterDelete(Now, k))

Next ==
  \/ \E k \in TreeKeys, rid \in Rids, pages \in {0, 1, 2, Enough} : Insert(k, rid, pages)
  \/ \E k \in TreeKeys : Delete(k)
Spec == Init /\ [][Next]_vars

----------------------------------------------------------------------------
\* A lookup finds a key exactly when it was inserted and not deleted since, at
\* the place it was put last, across any splits, borrowings and merges - as long
\* as no merge missed its separator (missed) and no split ended halfway.
FindExact ==
  ~missed /\ doubt = {} =>
    \A k \in TreeKeys : Find(tree, k) = (IF k \in DOMAIN want THEN {want[k]} ELSE {})

\* A scan of any range from any key yields exactly the keys that are there, once
\* and in ascending order; it still does, from the lowest key on, after a split
\* that ran out of pages halfway, but for the key of the call that failed, which
\* may be there or not.
ScanExact ==
  LET Froms == IF doubt = {} THEN TreeKeys ELSE {Min(TreeKeys)}
  IN  ~missed => \A lo \in Froms, hi \in TreeKeys : lo <= hi =>
        \E D \in SUBSET doubt :
          Scanned(tree, lo, hi) =
            Sorted({k \in (DOMAIN want \ doubt) \cup D : lo <= k /\ k <= hi})

\* A deleted key is gone from the tree: no scan yields it.  It does not hold: see
\* Merge.
DeletedIsGone ==
  \A k \in TreeKeys \ (DOMAIN want \cup doubt) : ~Contains(Scanned(tree, 0, Max(TreeKeys)), k)
==============================================================================
