----------------------------- MODULE KVOpsProofs -----------------------------
(***************************************************************************)
(* What the operations of a request do to a map, for any number of them.   *)
(***************************************************************************)
EXTENDS KVOps, WellFoundedInduction, TLAPS

(* A set of naturals has a least element, a bounded one a greatest. *)
LEMMA LeastExists ==
  ASSUME NEW S, S \subseteq Nat, S # {} PROVE \E n \in S : \A m \in S : n <= m
<1> DEFINE Less == {p \in Nat \X Nat : p[1] < p[2]}
<1>1. IsWellFoundedOn(Less, Nat) BY NatLessThanWellFounded DEF OpToRel
<1>2. PICK n \in S : \A m \in S : ~(<<m, n>> \in Less) BY <1>1, WFMin
<1>3. \A m \in S : ~(m < n) BY <1>2
<1> QED BY <1>2, <1>3

LEMMA GreatestExists ==
  ASSUME NEW b \in Nat, NEW S, S \subseteq 0..b, S # {}
  PROVE  \E n \in S : \A m \in S : m <= n
<1> DEFINE T == {d \in 0..b : b - d \in S}
<1>1. T \subseteq Nat OBVIOUS
<1>2. PICK s \in S : s \in 0..b OBVIOUS
<1>3. b - s \in T BY <1>2
<1>4. PICK d \in T : \A e \in T : d <= e
  <2> HIDE DEF T
  <2> QED BY <1>1, <1>3, LeastExists
<1>5. \A m \in S : b - m \in T OBVIOUS
<1>6. \A m \in S : d <= b - m BY <1>4, <1>5
<1> WITNESS b - d \in S
<1> QED BY <1>4, <1>6

----------------------------------------------------------------------------
(* Operation i of ops is the last that touches key k. *)
LastTouch(ops, i, k) ==
  /\ i \in 1..Len(ops) /\ ops[i].key = k
  /\ \A j \in (i + 1)..Len(ops) : ops[j].key # k
Touched(ops, k) == \E i \in 1..Len(ops) : ops[i].key = k

LEMMA LastTouchExists ==
  ASSUME NEW ops \in Seq(Ops), NEW k, Touched(ops, k)
  PROVE  \E i : LastTouch(ops, i, k)
<1> DEFINE S == {i \in 1..Len(ops) : ops[i].key = k}
<1>1. Len(ops) \in Nat /\ S \subseteq 0..Len(ops) /\ S # {} BY DEF Touched
<1>2. PICK i \in S : \A j \in S : j <= i BY <1>1, GreatestExists
<1>3. \A j \in (i + 1)..Len(ops) : ops[j].key # k BY <1>1, <1>2
<1> QED BY <1>2, <1>3 DEF LastTouch

LEMMA LastTouchUnique ==
  ASSUME NEW ops \in Seq(Ops), NEW k, NEW i, NEW j, LastTouch(ops, i, k), LastTouch(ops, j, k)
  PROVE  i = j
BY DEF LastTouch

(* It decides the value; a key that no operation touches keeps its own. *)
LEMMA TouchedValue ==
  ASSUME NEW m, NEW ops \in Seq(Ops), NEW k \in Keys, NEW i, LastTouch(ops, i, k)
  PROVE  ApplyOps(m, ops)[k] = ops[i].val
<1> DEFINE last == CHOOSE n \in 1..Len(ops) :
                     ops[n].key = k /\ \A j \in (n + 1)..Len(ops) : ops[j].key # k
<1>1. LastTouch(ops, last, k) BY DEF LastTouch
<1>2. last = i
  <2> HIDE DEF last
  <2> QED BY <1>1, LastTouchUnique
<1>3. ApplyOps(m, ops)[k] = ops[last].val
  BY DEF ApplyOps, ApplyPrefix, LastTouch
<1> QED BY <1>2, <1>3

LEMMA UntouchedValue ==
  ASSUME NEW m, NEW ops, NEW k \in Keys, ~Touched(ops, k)
  PROVE  ApplyOps(m, ops)[k] = m[k]
BY DEF ApplyOps, ApplyPrefix, Touched

(* A request takes a map to a map. *)
LEMMA ApplyOpsType ==
  ASSUME NEW m \in Maps, NEW ops \in Seq(Ops) PROVE ApplyOps(m, ops) \in Maps
<1>1. ASSUME NEW k \in Keys PROVE ApplyOps(m, ops)[k] \in Vals \cup {None}
  <2>1. CASE Touched(ops, k)
    <3>1. PICK i : LastTouch(ops, i, k) BY <2>1, LastTouchExists
    <3>2. ops[i] \in Ops BY <3>1 DEF LastTouch
    <3>3. ops[i].val \in Vals \cup {None} BY <3>2 DEF Ops
    <3>4. ApplyOps(m, ops)[k] = ops[i].val BY <3>1, TouchedValue
    <3> QED BY <3>3, <3>4
  <2>2. CASE ~Touched(ops, k)
    BY <2>2, UntouchedValue DEF Maps
  <2> QED BY <2>1, <2>2
<1>2. ApplyOps(m, ops) = [k \in Keys |-> ApplyOps(m, ops)[k]] BY DEF ApplyOps, ApplyPrefix
<1> QED BY <1>1, <1>2 DEF Maps

(* No operations change nothing. *)
LEMMA ApplyNothing == ASSUME NEW m \in Maps PROVE ApplyOps(m, << >>) = m
BY DEF ApplyOps, ApplyPrefix, Maps

(* Operations logged one after the other have the effect of both: a log may be
   cut into records anywhere. *)
THEOREM ApplyConcat ==
  ASSUME NEW m \in Maps, NEW a \in Seq(Ops), NEW b \in Seq(Ops)
  PROVE  ApplyOps(m, a \o b) = ApplyOps(ApplyOps(m, a), b)
<1> DEFINE c == a \o b
<1>0. /\ c \in Seq(Ops) /\ Len(c) = Len(a) + Len(b) /\ Len(a) \in Nat /\ Len(b) \in Nat
      /\ \A i \in 1..Len(a) : c[i] = a[i]
      /\ \A i \in 1..Len(b) : c[Len(a) + i] = b[i]
  OBVIOUS
<1>1. \A i \in 1..Len(c) : i \in 1..Len(a) \/ (i - Len(a) \in 1..Len(b) /\ i = Len(a) + (i - Len(a)))
  BY <1>0
<1> HIDE DEF c
<1>2. ASSUME NEW k \in Keys PROVE ApplyOps(m, c)[k] = ApplyOps(ApplyOps(m, a), b)[k]
  <2>1. CASE Touched(b, k)
    <3>1. PICK i : LastTouch(b, i, k) BY <2>1, LastTouchExists
    <3>2. LastTouch(c, Len(a) + i, k)
      <4>1. Len(a) + i \in 1..Len(c) /\ c[Len(a) + i].key = k BY <1>0, <3>1 DEF LastTouch
      <4>2. ASSUME NEW j \in (Len(a) + i + 1)..Len(c) PROVE c[j].key # k
        <5>1. j - Len(a) \in (i + 1)..Len(b) /\ j - Len(a) \in 1..Len(b) /\ j = Len(a) + (j - Len(a))
          BY <1>0, <3>1 DEF LastTouch
        <5>2. c[j] = b[j - Len(a)] BY <1>0, <5>1
        <5> QED BY <3>1, <5>1, <5>2 DEF LastTouch
      <4> QED BY <4>1, <4>2 DEF LastTouch
    <3>3. c[Len(a) + i] = b[i] BY <1>0, <3>1 DEF LastTouch
    <3> QED BY <1>0, <3>1, <3>2, <3>3, TouchedValue
  <2>2. CASE ~Touched(b, k) /\ Touched(a, k)
    <3>1. PICK i : LastTouch(a, i, k) BY <2>2, LastTouchExists
    <3>2. LastTouch(c, i, k)
      <4>1. i \in 1..Len(c) /\ c[i].key = k BY <1>0, <3>1 DEF LastTouch
      <4>2. ASSUME NEW j \in (i + 1)..Len(c) PROVE c[j].key # k
        <5>0. j \in 1..Len(c) BY <1>0, <3>1 DEF LastTouch
        <5>1. CASE j \in 1..Len(a)
          BY <1>0, <3>1, <5>1 DEF LastTouch
        <5>2. CASE j - Len(a) \in 1..Len(b) /\ j = Len(a) + (j - Len(a))
          <6>1. c[j] = b[j - Len(a)] BY <1>0, <5>2
          <6> QED BY <2>2, <5>2, <6>1 DEF Touched
        <5> QED BY <1>1, <5>0, <5>1, <5>2
      <4> QED BY <4>1, <4>2 DEF LastTouch
    <3>3. c[i] = a[i] BY <1>0, <3>1 DEF LastTouch
    <3>4. ApplyOps(m, c)[k] = a[i].val BY <1>0, <3>2, <3>3, TouchedValue
    <3>5. ApplyOps(m, a)[k] = a[i].val BY <3>1, TouchedValue
    <3> QED BY <2>2, <3>4, <3>5, UntouchedValue
  <2>3. CASE ~Touched(b, k) /\ ~Touched(a, k)
    <3>1. ~Touched(c, k) BY <1>0, <1>1, <2>3 DEF Touched
    <3> QED BY <2>3, <3>1, UntouchedValue
  <2> QED BY <2>1, <2>2, <2>3
<1>3. ApplyOps(m, c) = [k \in Keys |-> ApplyOps(m, c)[k]]
      /\ ApplyOps(ApplyOps(m, a), b) = [k \in Keys |-> ApplyOps(ApplyOps(m, a), b)[k]]
  BY DEF ApplyOps, ApplyPrefix
<1>4. ApplyOps(m, c) = ApplyOps(ApplyOps(m, a), b)
  BY <1>2, <1>3
<1> QED BY <1>4 DEF c
==============================================================================
