-------------------------- MODULE BufferPoolProofs --------------------------
(***************************************************************************)
(* The safety of BufferPool, for any number of goroutines, pages and       *)
(* frames: the invariants of the module hold in every reachable state.     *)
(*                                                                         *)
(* They are inductive only together with Allocated.  A frame may be taken  *)
(* when its pin count is zero; PinExact turns that into "nobody holds the  *)
(* page", Allocated into "nobody has changed it since", and NoLostUpdate   *)
(* into "its frame is dirty or the file is up to date", so that writing a  *)
(* dirty victim back keeps NoLostUpdate and forgetting it keeps HeldStays. *)
(*                                                                         *)
(* The end of the module is about findVictim: it gives a second chance,    *)
(* and its loop computes what Victim, Swept and HandAfter say.             *)
(***************************************************************************)
EXTENDS BufferPool, FiniteSetTheorems, WellFoundedInduction, TLAPS

(* A page beyond the end of the file is in no frame; a goroutine looks for a
   page of the file that it does not hold; it has changed only what it holds. *)
Allocated ==
  /\ \A p \in Pages : p >= numPages => pageTable[p] = NoFrame
  /\ \A t \in Threads : want[t] # NoPage => want[t] < numPages /\ want[t] \notin held[t]
  /\ \A t \in Threads : wrote[t] \subseteq held[t]

Inv == /\ TypeOK /\ TableConsistent /\ PinExact /\ HeldStays /\ NoLostUpdate
       /\ Allocated

-----------------------------------------------------------------------------
(* The clock hand always points at a frame. *)
LEMMA AtInFrames == ASSUME TypeOK, NEW i \in Nat PROVE At(i) \in Frames
<1>1. NumFrames \in Nat /\ NumFrames > 0 BY PoolAssumption
<1>2. hand + i \in Nat BY DEF TypeOK, Frames
<1>3. (hand + i) % NumFrames \in 0..(NumFrames - 1) BY <1>1, <1>2
<1> QED BY <1>3 DEF At, Frames

(* The reference bits stay Booleans. *)
LEMMA SweptType == ASSUME TypeOK, NEW i PROVE Swept(i) \in [Frames -> BOOLEAN]
BY DEF Swept, TypeOK

(* The holders of a page in the next state. *)
NextHolders(p) == {t \in Threads : p \in held'[t]}

(* The holders of a page are finitely many. *)
LEMMA HoldersFinite == ASSUME NEW p PROVE IsFiniteSet(Holders(p))
BY PoolAssumption, FS_Subset, Holders(p) \in SUBSET Threads DEF Holders

(* findVictim returns a frame that nobody holds the page of, and the write of
   evictFrame leaves the file with the last change to it. *)
LEMMA VictimFree ==
  ASSUME Inv, NEW i \in 0..(2 * NumFrames - 1), Victim(i)
  PROVE  /\ At(i) \in Frames /\ pin[At(i)] = 0
         /\ frame[At(i)] # NoPage => Holders(frame[At(i)]) = {}
<1>0. NumFrames \in Nat /\ i \in Nat BY PoolAssumption
<1>1. At(i) \in Frames BY <1>0, AtInFrames DEF Inv
<1>2. pin[At(i)] = 0 BY <1>1 DEF Victim, Takes, Inv, PinExact
<1>3. ASSUME frame[At(i)] # NoPage PROVE Holders(frame[At(i)]) = {}
  <2>1. Cardinality(Holders(frame[At(i)])) = 0 BY <1>1, <1>2, <1>3 DEF Inv, PinExact
  <2> QED BY <2>1, HoldersFinite, FS_EmptySet
<1> QED BY <1>1, <1>2, <1>3

LEMMA WriteBackKeeps ==
  ASSUME Inv, NEW f \in Frames, frame[f] # NoPage => Holders(frame[f]) = {}
  PROVE  /\ WriteBack(f) \in [Pages -> Nat]
         /\ frame[f] # NoPage => WriteBack(f)[frame[f]] = latest[frame[f]]
         /\ \A q \in Pages : q # frame[f] => WriteBack(f)[q] = disk[q]
<1>1. WriteBack(f) \in [Pages -> Nat] BY DEF Inv, TypeOK, WriteBack
<1>2. ASSUME frame[f] # NoPage PROVE WriteBack(f)[frame[f]] = latest[frame[f]]
  <2>1. frame[f] \in Pages /\ pageTable[frame[f]] = f
    BY <1>2 DEF Inv, TypeOK, TableConsistent
  <2>2. \A t \in Threads : frame[f] \notin wrote[t]
    BY <1>2 DEF Inv, Allocated, Holders
  <2>3. f # NoFrame BY PoolAssumption
  <2>4. ver[f] = latest[frame[f]] /\ (disk[frame[f]] = latest[frame[f]] \/ dirty[f])
    BY <2>1, <2>2, <2>3 DEF Inv, NoLostUpdate
  <2> QED BY <1>2, <2>1, <2>4 DEF Inv, TypeOK, WriteBack
<1>3. \A q \in Pages : q # frame[f] => WriteBack(f)[q] = disk[q]
  BY DEF Inv, TypeOK, WriteBack
<1> QED BY <1>1, <1>2, <1>3

-----------------------------------------------------------------------------
(* A page that is in no frame, and hence held by nobody, is installed in the
   victim's frame for goroutine t. *)
LEMMA InstallStep ==
  ASSUME Inv, NEW t \in Threads, NEW p \in Pages, NEW i \in 0..(2 * NumFrames - 1),
         NEW v \in Nat, NEW d \in BOOLEAN, Install(i, p, v, d),
         pageTable[p] = NoFrame,
         held' = [held EXCEPT ![t] = @ \cup {p}], wrote' = wrote,
         latest' = [latest EXCEPT ![p] = v], disk[p] = v \/ d
  PROVE  /\ frame' \in [Frames -> Pages \cup {NoPage}] /\ pin' \in [Frames -> Nat]
         /\ dirty' \in [Frames -> BOOLEAN] /\ ref' \in [Frames -> BOOLEAN]
         /\ ver' \in [Frames -> Nat] /\ disk' \in [Pages -> Nat]
         /\ pageTable' \in [Pages -> Frames \cup {NoFrame}] /\ hand' \in Frames
         /\ held' \in [Threads -> SUBSET Pages] /\ latest' \in [Pages -> Nat]
         /\ TableConsistent' /\ PinExact' /\ HeldStays' /\ NoLostUpdate'
         /\ \A q \in Pages : q # p => pageTable'[q] \in {pageTable[q], NoFrame}
<1> DEFINE f == At(i)
<1>1. Victim(i) BY DEF Install
<1>2. f \in Frames /\ pin[f] = 0 /\ (frame[f] # NoPage => Holders(frame[f]) = {})
  BY <1>1, VictimFree
<1>3. /\ WriteBack(f) \in [Pages -> Nat]
      /\ frame[f] # NoPage => WriteBack(f)[frame[f]] = latest[frame[f]]
      /\ \A q \in Pages : q # frame[f] => WriteBack(f)[q] = disk[q]
  BY <1>2, WriteBackKeeps
<1>4. /\ frame' = [frame EXCEPT ![f] = p] /\ pin' = [pin EXCEPT ![f] = 1]
      /\ dirty' = [dirty EXCEPT ![f] = d] /\ ref' = [Swept(i) EXCEPT ![f] = TRUE]
      /\ ver' = [ver EXCEPT ![f] = v] /\ pageTable' = [Forget(f) EXCEPT ![p] = f]
      /\ hand' = At(i + 1) /\ disk' = WriteBack(f)
  BY DEF Install, HandAfter
<1>5. \A q \in Pages : pageTable'[q] = IF q = p THEN f ELSE IF q = frame[f] THEN NoFrame
                                       ELSE pageTable[q]
  BY <1>4 DEF Forget
<1>6. frame[f] # p /\ f # NoFrame /\ p # NoPage
  BY <1>2, PoolAssumption DEF Inv, TableConsistent
<1>7. Holders(p) = {} BY DEF Inv, HeldStays, Holders
<1>8. NextHolders(p) = {t} /\ \A q : q # p => NextHolders(q) = Holders(q)
  BY <1>7 DEF Holders, NextHolders, Inv, TypeOK
<1>9. TableConsistent'
  <2>1. ASSUME NEW q \in Pages, pageTable'[q] # NoFrame PROVE frame'[pageTable'[q]] = q
    <3>1. CASE q = p BY <1>2, <1>4, <1>5, <3>1 DEF Inv, TypeOK
    <3>2. CASE q # p
      <4>1. pageTable'[q] = pageTable[q] /\ q # frame[f] BY <1>5, <2>1, <3>2
      <4>2. pageTable[q] \in Frames /\ frame[pageTable[q]] = q
        BY <2>1, <4>1 DEF Inv, TypeOK, TableConsistent
      <4> QED BY <1>4, <4>1, <4>2 DEF Inv, TypeOK
    <3> QED BY <3>1, <3>2
  <2>2. ASSUME NEW g \in Frames, frame'[g] # NoPage PROVE pageTable'[frame'[g]] = g
    <3>1. CASE g = f BY <1>2, <1>4, <1>5, <3>1 DEF Inv, TypeOK
    <3>2. CASE g # f
      <4>1. frame'[g] = frame[g] BY <1>4, <3>2 DEF Inv, TypeOK
      <4>2. frame[g] \in Pages /\ pageTable[frame[g]] = g
        BY <2>2, <4>1 DEF Inv, TypeOK, TableConsistent
      <4>3. frame[g] # p /\ frame[g] # frame[f]
        BY <1>2, <3>2, <4>2, PoolAssumption DEF Inv, TableConsistent
      <4> QED BY <1>5, <4>1, <4>2, <4>3
    <3> QED BY <3>1, <3>2
  <2> QED BY <2>1, <2>2 DEF TableConsistent
<1>10. PinExact'
  <2> SUFFICES ASSUME NEW g \in Frames
               PROVE  pin'[g] = IF frame'[g] = NoPage THEN 0
                                ELSE Cardinality(NextHolders(frame'[g]))
    BY DEF PinExact, Holders, NextHolders
  <2>1. CASE g = f
    <3>1. frame'[g] = p /\ pin'[g] = 1 BY <1>2, <1>4, <2>1 DEF Inv, TypeOK
    <3> QED BY <3>1, <1>6, <1>8, FS_Singleton
  <2>2. CASE g # f
    <3>1. frame'[g] = frame[g] /\ pin'[g] = pin[g] BY <1>4, <2>2 DEF Inv, TypeOK
    <3>2. frame[g] # p BY <1>2, PoolAssumption DEF Inv, TableConsistent
    <3> QED BY <3>1, <3>2, <1>8 DEF Inv, PinExact
  <2> QED BY <2>1, <2>2
<1>11. HeldStays'
  <2> SUFFICES ASSUME NEW u \in Threads, NEW q \in held'[u], q # p
               PROVE  pageTable'[q] # NoFrame
    BY <1>5, <1>6 DEF HeldStays, Inv, TypeOK
  <2>1. q \in held[u] /\ q \in Pages BY DEF Inv, TypeOK
  <2>2. pageTable[q] # NoFrame BY <2>1 DEF Inv, HeldStays
  <2>3. q # frame[f] BY <1>2, <2>1, PoolAssumption DEF Holders
  <2> QED BY <1>5, <2>1, <2>2, <2>3
<1>12. NoLostUpdate'
  <2> SUFFICES ASSUME NEW q \in Pages
               PROVE  \/ pageTable'[q] = NoFrame /\ disk'[q] = latest'[q]
                      \/ /\ pageTable'[q] # NoFrame
                         /\ ver'[pageTable'[q]] = latest'[q]
                         /\ \/ disk'[q] = latest'[q]
                            \/ dirty'[pageTable'[q]]
                            \/ \E u \in Threads : q \in wrote'[u]
    BY DEF NoLostUpdate
  <2>1. CASE q = p
    <3>1. pageTable'[q] = f /\ ver'[f] = v /\ dirty'[f] = d /\ latest'[q] = v
      BY <1>2, <1>4, <1>5, <2>1 DEF Inv, TypeOK
    <3>2. disk'[q] = disk[p] BY <1>3, <1>4, <1>6, <2>1
    <3> QED BY <3>1, <3>2, <1>6, <2>1
  <2>2. CASE q # p /\ q = frame[f]
    BY <1>3, <1>4, <1>5, <2>2, PoolAssumption DEF Inv, TypeOK
  <2>3. CASE q # p /\ q # frame[f]
    <3>1. pageTable'[q] = pageTable[q] /\ disk'[q] = disk[q] /\ latest'[q] = latest[q]
      BY <1>3, <1>4, <1>5, <2>3 DEF Inv, TypeOK
    <3>2. pageTable[q] # NoFrame => pageTable[q] \in Frames /\ pageTable[q] # f
      BY <2>3 DEF Inv, TypeOK, TableConsistent
    <3>3. pageTable[q] # NoFrame => /\ ver'[pageTable[q]] = ver[pageTable[q]]
                                    /\ dirty'[pageTable[q]] = dirty[pageTable[q]]
      BY <1>4, <3>2 DEF Inv, TypeOK
    <3> QED BY <3>1, <3>3 DEF Inv, NoLostUpdate
  <2> QED BY <2>1, <2>2, <2>3
<1>13. /\ frame' \in [Frames -> Pages \cup {NoPage}] /\ pin' \in [Frames -> Nat]
       /\ dirty' \in [Frames -> BOOLEAN] /\ ver' \in [Frames -> Nat]
       /\ disk' \in [Pages -> Nat] /\ pageTable' \in [Pages -> Frames \cup {NoFrame}]
       /\ held' \in [Threads -> SUBSET Pages] /\ latest' \in [Pages -> Nat]
  BY <1>2, <1>3, <1>4 DEF Inv, TypeOK, Forget
<1>14. ref' \in [Frames -> BOOLEAN] /\ hand' \in Frames
  <2>1. i + 1 \in Nat BY PoolAssumption
  <2> QED BY <1>4, <2>1, SweptType, AtInFrames DEF Inv
<1>15. \A q \in Pages : q # p => pageTable'[q] \in {pageTable[q], NoFrame}
  BY <1>5
<1> HIDE DEF f
<1> QED BY <1>9, <1>10, <1>11, <1>12, <1>13, <1>14, <1>15

(* A fetch that finds the page in a frame. *)
LEMMA HitStep ==
  ASSUME Inv, NEW t \in Threads, NEW p \in Pages, p \notin held[t], Hit(t, p),
         wrote' = wrote, latest' = latest, numPages' = numPages,
         want' \in [Threads -> Pages \cup {NoPage}],
         \A u \in Threads : want'[u] \in {want[u], NoPage},
         want'[t] = NoPage
  PROVE  Inv'
<1> DEFINE f == pageTable[p]
<1>1. f \in Frames /\ f # NoFrame /\ frame[f] = p /\ p # NoPage
  BY PoolAssumption DEF Hit, Inv, TypeOK, TableConsistent
<1>2. /\ pin' = [pin EXCEPT ![f] = @ + 1] /\ ref' = [ref EXCEPT ![f] = TRUE]
      /\ held' = [held EXCEPT ![t] = @ \cup {p}]
      /\ UNCHANGED <<frame, dirty, ver, pageTable, hand, disk>>
  BY DEF Hit
<1>3. TypeOK' BY <1>1, <1>2 DEF Inv, TypeOK
<1>4. TableConsistent' BY <1>2 DEF Inv, TableConsistent
<1>5. PinExact'
  <2> SUFFICES ASSUME NEW g \in Frames
               PROVE  pin'[g] = IF frame[g] = NoPage THEN 0
                                ELSE Cardinality(NextHolders(frame[g]))
    BY <1>2 DEF PinExact, Holders, NextHolders
  <2>1. CASE g = f
    <3>1. NextHolders(p) = Holders(p) \cup {t} /\ t \notin Holders(p)
      BY <1>2 DEF NextHolders, Holders, Inv, TypeOK
    <3>2. Cardinality(NextHolders(p)) = Cardinality(Holders(p)) + 1
      BY <3>1, HoldersFinite, FS_AddElement
    <3>3. pin'[f] = pin[f] + 1 /\ pin[f] = Cardinality(Holders(p))
      BY <1>1, <1>2 DEF Inv, TypeOK, PinExact
    <3> QED BY <1>1, <2>1, <3>2, <3>3
  <2>2. CASE g # f
    <3>1. frame[g] # NoPage => frame[g] # p BY <1>1, <2>2 DEF Inv, TableConsistent
    <3>2. frame[g] # NoPage => NextHolders(frame[g]) = Holders(frame[g])
      BY <1>2, <3>1 DEF NextHolders, Holders, Inv, TypeOK
    <3> QED BY <1>2, <2>2, <3>2 DEF Inv, TypeOK, PinExact
  <2> QED BY <2>1, <2>2
<1>6. HeldStays' BY <1>1, <1>2 DEF Inv, TypeOK, HeldStays
<1>7. NoLostUpdate' BY <1>2 DEF Inv, NoLostUpdate
<1>8. Allocated' BY <1>2 DEF Inv, TypeOK, Allocated
<1> QED BY <1>3, <1>4, <1>5, <1>6, <1>7, <1>8 DEF Inv

(* A fetch, or an allocation, that finds no frame, or fails in the middle. *)
LEMMA InstallFailsStep ==
  ASSUME Inv, InstallFails, UNCHANGED <<numPages, held, wrote, latest>>,
         want' \in [Threads -> Pages \cup {NoPage}],
         \A u \in Threads : want'[u] \in {want[u], NoPage}
  PROVE  Inv'
<1> SUFFICES ASSUME TRUE PROVE /\ TypeOK' /\ TableConsistent' /\ PinExact' /\ HeldStays'
                               /\ NoLostUpdate'
                               /\ \A p \in Pages : pageTable'[p] \in {pageTable[p], NoFrame}
  BY DEF Inv, Allocated
<1>1. CASE UNCHANGED <<frame, pin, dirty, ver, pageTable, disk>> /\ hand' \in Frames
           /\ ref' \in [Frames -> BOOLEAN]
  BY <1>1 DEF Inv, TypeOK, TableConsistent, PinExact, HeldStays, NoLostUpdate, Holders
<1>2. ASSUME NEW i \in 0..(2 * NumFrames - 1), Victim(i), hand' = At(i + 1),
             frame' = [frame EXCEPT ![At(i)] = NoPage], pin' = [pin EXCEPT ![At(i)] = 0],
             dirty' = [dirty EXCEPT ![At(i)] = FALSE],
             ref' = [Swept(i) EXCEPT ![At(i)] = FALSE],
             pageTable' = Forget(At(i)), disk' = WriteBack(At(i)), ver' = ver
      PROVE  /\ TypeOK' /\ TableConsistent' /\ PinExact' /\ HeldStays' /\ NoLostUpdate'
             /\ \A p \in Pages : pageTable'[p] \in {pageTable[p], NoFrame}
  <2> DEFINE f == At(i)
  <2>1. f \in Frames /\ pin[f] = 0 /\ (frame[f] # NoPage => Holders(frame[f]) = {})
    BY <1>2, VictimFree
  <2>2. /\ WriteBack(f) \in [Pages -> Nat]
        /\ frame[f] # NoPage => WriteBack(f)[frame[f]] = latest[frame[f]]
        /\ \A q \in Pages : q # frame[f] => WriteBack(f)[q] = disk[q]
    BY <2>1, WriteBackKeeps
  <2>3. i + 1 \in Nat BY PoolAssumption
  <2>4. hand' \in Frames /\ ref' \in [Frames -> BOOLEAN]
    BY <1>2, <2>1, <2>3, SweptType, AtInFrames DEF Inv
  <2>5. \A q \in Pages : pageTable'[q] = IF q = frame[f] THEN NoFrame ELSE pageTable[q]
    BY <1>2 DEF Forget
  <2>6. /\ frame' = [frame EXCEPT ![f] = NoPage] /\ pin' = [pin EXCEPT ![f] = 0]
        /\ dirty' = [dirty EXCEPT ![f] = FALSE] /\ disk' = WriteBack(f)
    BY <1>2
  <2>7. pageTable' \in [Pages -> Frames \cup {NoFrame}]
    BY <1>2 DEF Forget, Inv, TypeOK
  <2> HIDE DEF f
  <2>8. TypeOK' BY <1>2, <2>1, <2>2, <2>4, <2>6, <2>7 DEF Inv, TypeOK
  <2>9. TableConsistent'
    <3>1. ASSUME NEW q \in Pages, pageTable'[q] # NoFrame PROVE frame'[pageTable'[q]] = q
      <4>1. pageTable'[q] = pageTable[q] /\ q # frame[f] BY <2>5, <3>1
      <4>2. pageTable[q] \in Frames /\ frame[pageTable[q]] = q
        BY <3>1, <4>1 DEF Inv, TypeOK, TableConsistent
      <4> QED BY <2>6, <4>1, <4>2 DEF Inv, TypeOK
    <3>2. ASSUME NEW g \in Frames, frame'[g] # NoPage PROVE pageTable'[frame'[g]] = g
      <4>1. frame'[g] = frame[g] /\ g # f BY <2>1, <2>6, <3>2 DEF Inv, TypeOK
      <4>2. frame[g] \in Pages /\ pageTable[frame[g]] = g
        BY <3>2, <4>1 DEF Inv, TypeOK, TableConsistent
      <4>3. frame[g] # frame[f]
        BY <2>1, <3>2, <4>1, <4>2 DEF Inv, TableConsistent
      <4> QED BY <2>5, <4>1, <4>2, <4>3
    <3> QED BY <3>1, <3>2 DEF TableConsistent
  <2>10. PinExact'
    <3> SUFFICES ASSUME NEW g \in Frames
                 PROVE  pin'[g] = IF frame'[g] = NoPage THEN 0
                                  ELSE Cardinality(Holders(frame'[g]))
      BY DEF PinExact, Holders
    <3>1. CASE g = f BY <2>6, <3>1 DEF Inv, TypeOK
    <3>2. CASE g # f
      <4>1. frame'[g] = frame[g] /\ pin'[g] = pin[g] BY <2>6, <3>2 DEF Inv, TypeOK
      <4> QED BY <4>1 DEF Inv, PinExact
    <3> QED BY <3>1, <3>2
  <2>11. HeldStays'
    <3> SUFFICES ASSUME NEW u \in Threads, NEW q \in held[u] PROVE pageTable'[q] # NoFrame
      BY DEF HeldStays
    <3>1. q \in Pages /\ pageTable[q] # NoFrame BY DEF Inv, TypeOK, HeldStays
    <3>2. q # frame[f] BY <2>1, <3>1, PoolAssumption DEF Holders
    <3> QED BY <2>5, <3>1, <3>2
  <2>12. NoLostUpdate'
    <3> SUFFICES ASSUME NEW q \in Pages
                 PROVE  \/ pageTable'[q] = NoFrame /\ disk'[q] = latest[q]
                        \/ /\ pageTable'[q] # NoFrame
                           /\ ver[pageTable'[q]] = latest[q]
                           /\ \/ disk'[q] = latest[q]
                              \/ dirty'[pageTable'[q]]
                              \/ \E u \in Threads : q \in wrote[u]
      BY <1>2 DEF NoLostUpdate
    <3>1. CASE q = frame[f] BY <2>2, <2>5, <2>6, <3>1, PoolAssumption
    <3>2. CASE q # frame[f]
      <4>1. pageTable'[q] = pageTable[q] /\ disk'[q] = disk[q] BY <2>2, <2>5, <2>6, <3>2
      <4>2. pageTable[q] # NoFrame => pageTable[q] \in Frames /\ pageTable[q] # f
        BY <3>2 DEF Inv, TypeOK, TableConsistent
      <4>3. pageTable[q] # NoFrame => dirty'[pageTable[q]] = dirty[pageTable[q]]
        BY <2>6, <4>2 DEF Inv, TypeOK
      <4> QED BY <4>1, <4>3 DEF Inv, NoLostUpdate
    <3> QED BY <3>1, <3>2
  <2> QED BY <2>5, <2>8, <2>9, <2>10, <2>11, <2>12
<1>3. CASE Exhausted /\ UNCHANGED <<frameVars, pageTable, hand, disk>>
  BY <1>1, <1>3 DEF frameVars, Inv, TypeOK
<1>4. CASE \E i \in 0..(2 * NumFrames - 1) : Victim(i) /\ hand' = HandAfter(i)
                /\ ref' = Swept(i) /\ UNCHANGED <<frame, pin, dirty, ver, pageTable, disk>>
  <2>1. PICK i \in 0..(2 * NumFrames - 1) :
           /\ hand' = At(i + 1) /\ ref' = Swept(i)
           /\ UNCHANGED <<frame, pin, dirty, ver, pageTable, disk>>
    BY <1>4 DEF HandAfter
  <2>2. i + 1 \in Nat BY PoolAssumption
  <2> QED BY <1>1, <2>1, <2>2, SweptType, AtInFrames DEF Inv
<1> QED BY <1>2, <1>3, <1>4 DEF InstallFails, HandAfter

(* The step of a goroutine that unpins a page it holds. *)
LEMMA UnpinStep ==
  ASSUME Inv, NEW t \in Threads, NEW p \in Pages, NEW d \in BOOLEAN, UnpinPage(t, p, d)
  PROVE  Inv'
<1> DEFINE f == pageTable[p]
<1>1. p \in held[t] BY DEF UnpinPage
<1>2. f \in Frames /\ f # NoFrame /\ frame[f] = p /\ p # NoPage
  BY <1>1, PoolAssumption DEF Inv, TypeOK, HeldStays, TableConsistent
<1>3. t \in Holders(p) /\ pin[f] = Cardinality(Holders(p)) /\ pin[f] # 0
  <2>1. t \in Holders(p) BY <1>1 DEF Holders
  <2>2. pin[f] = Cardinality(Holders(p)) BY <1>2 DEF Inv, PinExact
  <2> QED BY <2>1, <2>2, HoldersFinite, FS_EmptySet
<1>4. /\ dirty' = Mark(f, d) /\ pin' = [pin EXCEPT ![f] = @ - 1]
      /\ held' = [held EXCEPT ![t] = @ \ {p}] /\ wrote' = [wrote EXCEPT ![t] = @ \ {p}]
      /\ p \in wrote[t] => d
      /\ UNCHANGED <<frame, ref, ver, pageTable, hand, disk, numPages, want, latest>>
  BY <1>2, <1>3 DEF UnpinPage
<1> HIDE DEF f
<1>5. TypeOK'
  <2>1. pin[f] \in Nat /\ pin[f] - 1 \in Nat BY <1>2, <1>3 DEF Inv, TypeOK
  <2> QED BY <1>2, <1>4, <2>1 DEF Inv, TypeOK, Mark
<1>6. TableConsistent' BY <1>4 DEF Inv, TableConsistent
<1>7. PinExact'
  <2> SUFFICES ASSUME NEW g \in Frames
               PROVE  pin'[g] = IF frame[g] = NoPage THEN 0
                                ELSE Cardinality(NextHolders(frame[g]))
    BY <1>4 DEF PinExact, Holders, NextHolders
  <2>1. CASE g = f
    <3>1. NextHolders(p) = Holders(p) \ {t}
      BY <1>4 DEF NextHolders, Holders, Inv, TypeOK
    <3>2. Cardinality(NextHolders(p)) = Cardinality(Holders(p)) - 1
      BY <1>3, <3>1, HoldersFinite, FS_RemoveElement
    <3> QED BY <1>2, <1>3, <1>4, <2>1, <3>2 DEF Inv, TypeOK
  <2>2. CASE g # f
    <3>1. frame[g] # NoPage => frame[g] # p
      BY <2>2 DEF f, Inv, TableConsistent
    <3>2. frame[g] # NoPage => NextHolders(frame[g]) = Holders(frame[g])
      BY <1>4, <3>1 DEF NextHolders, Holders, Inv, TypeOK
    <3> QED BY <1>4, <2>2, <3>2 DEF Inv, TypeOK, PinExact
  <2> QED BY <2>1, <2>2
<1>8. HeldStays' BY <1>4 DEF Inv, TypeOK, HeldStays
<1>9. NoLostUpdate'
  <2> SUFFICES ASSUME NEW q \in Pages, pageTable[q] # NoFrame, disk[q] # latest[q],
                      ~dirty'[pageTable[q]]
               PROVE  \E u \in Threads : q \in wrote'[u]
    BY <1>4 DEF Inv, NoLostUpdate
  <2>1. pageTable[q] \in Frames BY DEF Inv, TypeOK
  <2>2. ~dirty[pageTable[q]] /\ (pageTable[q] = f => ~d)
    BY <1>2, <1>4, <2>1 DEF Inv, TypeOK, Mark
  <2>3. PICK u \in Threads : q \in wrote[u] BY <2>2 DEF Inv, NoLostUpdate
  <2>4. q # p \/ u # t BY <1>4, <2>2, <2>3 DEF f
  <2> QED BY <1>4, <2>3, <2>4 DEF Inv, TypeOK
<1>10. Allocated' BY <1>4 DEF Inv, TypeOK, Allocated
<1> QED BY <1>5, <1>6, <1>7, <1>8, <1>9, <1>10 DEF Inv

(* The step of a holder that changes its page. *)
LEMMA ChangeStep ==
  ASSUME Inv, NEW t \in Threads, NEW p \in Pages, Change(t, p)
  PROVE  Inv'
<1>1. /\ p \in held[t] /\ latest' = [latest EXCEPT ![p] = @ + 1]
      /\ ver' = [f \in Frames |-> IF frame[f] = p THEN latest[p] + 1 ELSE ver[f]]
      /\ wrote' = [wrote EXCEPT ![t] = @ \cup {p}]
      /\ UNCHANGED <<frame, pin, dirty, ref, pageTable, hand, disk, numPages, want, held>>
  BY DEF Change
<1>2. TypeOK' BY <1>1 DEF Inv, TypeOK
<1>3. TableConsistent' /\ PinExact' /\ HeldStays'
  BY <1>1 DEF Inv, TableConsistent, PinExact, HeldStays, Holders
<1>4. NoLostUpdate'
  <2> SUFFICES ASSUME NEW q \in Pages
               PROVE  \/ pageTable[q] = NoFrame /\ disk[q] = latest'[q]
                      \/ /\ pageTable[q] # NoFrame
                         /\ ver'[pageTable[q]] = latest'[q]
                         /\ \/ disk[q] = latest'[q]
                            \/ dirty[pageTable[q]]
                            \/ \E u \in Threads : q \in wrote'[u]
    BY <1>1 DEF NoLostUpdate
  <2>1. CASE q = p
    <3>1. pageTable[p] # NoFrame /\ pageTable[p] \in Frames /\ frame[pageTable[p]] = p
      BY <1>1 DEF Inv, TypeOK, HeldStays, TableConsistent
    <3>2. p \in wrote'[t] /\ ver'[pageTable[p]] = latest'[p]
      BY <1>1, <3>1 DEF Inv, TypeOK
    <3> QED BY <2>1, <3>1, <3>2
  <2>2. CASE q # p
    <3>1. latest'[q] = latest[q] BY <1>1, <2>2 DEF Inv, TypeOK
    <3>2. pageTable[q] # NoFrame => ver'[pageTable[q]] = ver[pageTable[q]]
      BY <1>1, <2>2 DEF Inv, TypeOK, TableConsistent
    <3>3. \A u \in Threads : q \in wrote[u] => q \in wrote'[u]
      BY <1>1 DEF Inv, TypeOK
    <3> QED BY <3>1, <3>2, <3>3 DEF Inv, NoLostUpdate
  <2> QED BY <2>1, <2>2
<1>5. Allocated' BY <1>1 DEF Inv, TypeOK, Allocated
<1> QED BY <1>2, <1>3, <1>4, <1>5 DEF Inv

(* The write of dirty pages, one or all of them. *)
LEMMA FlushStep ==
  ASSUME Inv, NEW S \in SUBSET Frames, Flush(S)
  PROVE  Inv'
<1> DEFINE Written(f, q) == f \in S /\ frame[f] = q /\ dirty[f]
<1>1. /\ dirty' = [f \in Frames |-> dirty[f] /\ f \notin S]
      /\ disk' = [q \in Pages |-> IF \E f \in S : Written(f, q)
                                THEN ver[CHOOSE f \in S : frame[f] = q /\ dirty[f]]
                                ELSE disk[q]]
      /\ UNCHANGED <<frame, pin, ref, ver, pageTable, hand, numPages, want, held, wrote,
                     latest>>
  BY DEF Flush
<1>2. \A q \in Pages : (\E f \in S : Written(f, q)) =>
         /\ pageTable[q] \in S /\ dirty[pageTable[q]]
         /\ disk'[q] = ver[pageTable[q]]
  <2> SUFFICES ASSUME NEW q \in Pages, NEW g \in S, Written(g, q)
               PROVE  /\ pageTable[q] \in S /\ dirty[pageTable[q]]
                      /\ disk'[q] = ver[pageTable[q]]
    OBVIOUS
  <2>0. q # NoPage BY PoolAssumption
  <2>1. \A f \in S : Written(f, q) => f = pageTable[q]
    BY <2>0 DEF Inv, TableConsistent
  <2>2. (CHOOSE f \in S : frame[f] = q /\ dirty[f]) = pageTable[q] BY <2>1
  <2> QED BY <1>1, <2>1, <2>2
<1>3. \A q \in Pages : ~(\E f \in S : Written(f, q)) => disk'[q] = disk[q] BY <1>1
<1>4. TypeOK'
  <2>1. disk' \in [Pages -> Nat]
    <3>1. \A q \in Pages : disk'[q] \in Nat BY <1>2, <1>3 DEF Inv, TypeOK
    <3> QED BY <1>1, <3>1
  <2> QED BY <1>1, <2>1 DEF Inv, TypeOK
<1>5. TableConsistent' /\ PinExact' /\ HeldStays'
  BY <1>1 DEF Inv, TableConsistent, PinExact, HeldStays, Holders
<1>6. NoLostUpdate'
  <2> SUFFICES ASSUME NEW q \in Pages
               PROVE  \/ pageTable[q] = NoFrame /\ disk'[q] = latest[q]
                      \/ /\ pageTable[q] # NoFrame
                         /\ ver[pageTable[q]] = latest[q]
                         /\ \/ disk'[q] = latest[q]
                            \/ dirty'[pageTable[q]]
                            \/ \E u \in Threads : q \in wrote[u]
    BY <1>1 DEF NoLostUpdate
  <2>1. CASE \E f \in S : Written(f, q)
    <3>1. pageTable[q] # NoFrame BY <1>2, <2>1, PoolAssumption
    <3> QED BY <1>2, <2>1, <3>1 DEF Inv, NoLostUpdate
  <2>2. CASE ~\E f \in S : Written(f, q)
    <3>1. ASSUME pageTable[q] # NoFrame, dirty[pageTable[q]] PROVE dirty'[pageTable[q]]
      <4>1. pageTable[q] \in Frames /\ frame[pageTable[q]] = q
        BY <3>1 DEF Inv, TypeOK, TableConsistent
      <4>2. pageTable[q] \notin S BY <2>2, <3>1, <4>1
      <4> QED BY <1>1, <3>1, <4>1, <4>2
    <3> QED BY <1>3, <2>2, <3>1 DEF Inv, NoLostUpdate
  <2> QED BY <2>1, <2>2
<1>7. Allocated' BY <1>1 DEF Inv, Allocated
<1> QED BY <1>4, <1>5, <1>6, <1>7 DEF Inv

-----------------------------------------------------------------------------
LEMMA InitInv == Init => Inv
<1> SUFFICES ASSUME Init PROVE Inv OBVIOUS
<1> USE PoolAssumption DEF Init
<1>1. TypeOK BY DEF TypeOK, Pages, Frames
<1>2. TableConsistent /\ PinExact /\ HeldStays /\ NoLostUpdate /\ Allocated
  BY DEF TableConsistent, PinExact, HeldStays, NoLostUpdate, Allocated
<1> QED BY <1>1, <1>2 DEF Inv

LEMMA NextInv == Inv /\ [Next]_vars => Inv'
<1> SUFFICES ASSUME Inv, [Next]_vars PROVE Inv' OBVIOUS
<1>1. ASSUME NEW t \in Threads, FetchSlow(t) PROVE Inv'
  <2> DEFINE p == want[t]
  <2>1. p \in Pages /\ p \notin held[t] /\ p < numPages
    BY <1>1 DEF FetchSlow, Inv, TypeOK, Allocated
  <2>2. /\ want' = [want EXCEPT ![t] = NoPage]
        /\ UNCHANGED <<numPages, wrote, latest>>
    BY <1>1 DEF FetchSlow
  <2>3. /\ want' \in [Threads -> Pages \cup {NoPage}] /\ want'[t] = NoPage
        /\ \A u \in Threads : want'[u] \in {want[u], NoPage}
    BY <2>2 DEF Inv, TypeOK
  <2> HIDE DEF p
  <2>4. CASE Hit(t, p) BY <2>1, <2>2, <2>3, <2>4, HitStep
  <2>5. CASE Load(t, p)
    <3>1. PICK i \in 0..(2 * NumFrames - 1) : Install(i, p, disk[p], FALSE)
      BY <2>5 DEF Load
    <3>2. pageTable[p] = NoFrame /\ held' = [held EXCEPT ![t] = @ \cup {p}]
      BY <2>5 DEF Load
    <3>3. disk[p] \in Nat /\ latest' = [latest EXCEPT ![p] = disk[p]]
      BY <2>1, <2>2, <3>2 DEF Inv, TypeOK, NoLostUpdate
    <3>4. /\ frame' \in [Frames -> Pages \cup {NoPage}] /\ pin' \in [Frames -> Nat]
          /\ dirty' \in [Frames -> BOOLEAN] /\ ref' \in [Frames -> BOOLEAN]
          /\ ver' \in [Frames -> Nat] /\ disk' \in [Pages -> Nat]
          /\ pageTable' \in [Pages -> Frames \cup {NoFrame}] /\ hand' \in Frames
          /\ held' \in [Threads -> SUBSET Pages] /\ latest' \in [Pages -> Nat]
          /\ TableConsistent' /\ PinExact' /\ HeldStays' /\ NoLostUpdate'
          /\ \A q \in Pages : q # p => pageTable'[q] \in {pageTable[q], NoFrame}
      BY <2>1, <2>2, <3>1, <3>2, <3>3, InstallStep
    <3>5. TypeOK' BY <2>2, <2>3, <3>4 DEF Inv, TypeOK
    <3>6. Allocated'
      BY <2>1, <2>2, <2>3, <3>2, <3>4 DEF Inv, TypeOK, Allocated, Pages
    <3> QED BY <3>4, <3>5, <3>6 DEF Inv
  <2>6. CASE InstallFails /\ UNCHANGED held BY <2>2, <2>3, <2>6, InstallFailsStep
  <2> QED BY <1>1, <2>4, <2>5, <2>6 DEF FetchSlow, p
<1>2. ASSUME NEW t \in Threads, NewPage(t) PROVE Inv'
  <2>1. numPages \in Pages BY <1>2, PoolAssumption DEF NewPage, Inv, TypeOK, Pages
  <2>2. PICK i \in 0..(2 * NumFrames - 1) : Install(i, numPages, 1, TRUE)
    BY <1>2 DEF NewPage
  <2>3. /\ numPages' = numPages + 1 /\ held' = [held EXCEPT ![t] = @ \cup {numPages}]
        /\ latest' = [latest EXCEPT ![numPages] = 1]
        /\ want[t] = NoPage /\ UNCHANGED <<want, wrote>>
    BY <1>2 DEF NewPage
  <2>4. pageTable[numPages] = NoFrame BY <2>1 DEF Inv, Allocated, Pages
  <2>5. /\ frame' \in [Frames -> Pages \cup {NoPage}] /\ pin' \in [Frames -> Nat]
        /\ dirty' \in [Frames -> BOOLEAN] /\ ref' \in [Frames -> BOOLEAN]
        /\ ver' \in [Frames -> Nat] /\ disk' \in [Pages -> Nat]
        /\ pageTable' \in [Pages -> Frames \cup {NoFrame}] /\ hand' \in Frames
        /\ held' \in [Threads -> SUBSET Pages] /\ latest' \in [Pages -> Nat]
        /\ TableConsistent' /\ PinExact' /\ HeldStays' /\ NoLostUpdate'
        /\ \A q \in Pages : q # numPages => pageTable'[q] \in {pageTable[q], NoFrame}
    BY <2>1, <2>2, <2>3, <2>4, InstallStep
  <2>6. TypeOK'
    <3>1. numPages' \in 0..MaxPages BY <1>2, PoolAssumption, <2>3 DEF NewPage, Inv, TypeOK
    <3> QED BY <2>3, <2>5, <3>1 DEF Inv, TypeOK
  <2>7. Allocated'
    <3>1. \A q \in Pages : q >= numPages' => pageTable'[q] = NoFrame
      <4> SUFFICES ASSUME NEW q \in Pages, q >= numPages + 1
                   PROVE  pageTable'[q] = NoFrame
        BY <2>3
      <4>1. q \in Nat /\ numPages \in Nat BY <2>1 DEF Pages
      <4>2. q >= numPages /\ q # numPages BY <4>1
      <4>3. pageTable[q] = NoFrame BY <4>2 DEF Inv, Allocated
      <4> QED BY <2>5, <4>2, <4>3
    <3>2. \A u \in Threads : want'[u] # NoPage => want'[u] < numPages' /\ want'[u] \notin held'[u]
      <4> SUFFICES ASSUME NEW u \in Threads, want[u] # NoPage
                   PROVE  want[u] < numPages + 1 /\ want[u] \notin held'[u]
        BY <2>3
      <4>1. /\ want[u] \in Nat /\ numPages \in Nat /\ u # t
            /\ want[u] < numPages /\ want[u] \notin held[u]
        BY <2>1, <2>3 DEF Inv, TypeOK, Allocated, Pages
      <4> QED BY <2>3, <4>1 DEF Inv, TypeOK
    <3>3. \A u \in Threads : wrote'[u] \subseteq held'[u]
      BY <2>3 DEF Inv, TypeOK, Allocated
    <3> QED BY <3>1, <3>2, <3>3 DEF Allocated
  <2> QED BY <2>5, <2>6, <2>7 DEF Inv
<1>3. ASSUME NEW t \in Threads, NewPageFails(t) PROVE Inv'
  BY <1>3, InstallFailsStep DEF NewPageFails, Inv, TypeOK
<1>4. ASSUME NEW t \in Threads, FlushAll(t) PROVE Inv'
  <2>1. PICK n \in 0..NumFrames : Flush(0..(n - 1)) BY <1>4 DEF FlushAll
  <2>2. 0..(n - 1) \subseteq Frames BY PoolAssumption DEF Frames
  <2> QED BY <2>1, <2>2, FlushStep
<1>5. ASSUME NEW t \in Threads, NEW p \in Pages, FetchHit(t, p) PROVE Inv'
  BY <1>5, HitStep DEF FetchHit, Inv, TypeOK
<1>6. ASSUME NEW t \in Threads, NEW p \in Pages, FetchMiss(t, p) PROVE Inv'
  BY <1>6 DEF FetchMiss, frameVars, Inv, TypeOK, TableConsistent, PinExact, HeldStays,
              NoLostUpdate, Allocated, Holders
<1>7. ASSUME NEW t \in Threads, NEW p \in Pages, Change(t, p) PROVE Inv'
  BY <1>7, ChangeStep
<1>8. ASSUME NEW t \in Threads, NEW p \in Pages, FlushPage(t, p) PROVE Inv'
  <2>1. pageTable[p] \in Frames BY <1>8 DEF FlushPage, Inv, TypeOK
  <2>2. Flush({pageTable[p]}) BY <1>8 DEF FlushPage
  <2> QED BY <2>1, <2>2, FlushStep
<1>9. ASSUME NEW t \in Threads, NEW p \in Pages, NEW d \in BOOLEAN, UnpinPage(t, p, d)
      PROVE  Inv'
  BY <1>9, UnpinStep
<1>10. CASE UNCHANGED vars
  BY <1>10 DEF vars, frameVars, Inv, TypeOK, TableConsistent, PinExact, HeldStays,
               NoLostUpdate, Allocated, Holders
<1> QED BY <1>1, <1>2, <1>3, <1>4, <1>5, <1>6, <1>7, <1>8, <1>9, <1>10 DEF Next

LEMMA Invariance == Spec => []Inv
BY InitInv, NextInv, PTL DEF Spec

(* Every field keeps its type; in particular no pin count goes below zero and
   the clock hand stays on the frames. *)
THEOREM TypeCorrect == Spec => []TypeOK
BY Invariance, PTL DEF Inv

(* FetchPage never puts a page into two frames, however goroutines that miss
   it interleave. *)
THEOREM TableIsConsistent == Spec => []TableConsistent
BY Invariance, PTL DEF Inv

(* The pin count of a frame is the number of goroutines that hold its page. *)
THEOREM PinsAreExact == Spec => []PinExact
BY Invariance, PTL DEF Inv

(* A page that is held is never evicted. *)
THEOREM PinsProtect == Spec => []HeldStays
BY Invariance, PTL DEF Inv

(* No change to a page is lost by evictions, flushes, failed reads and writes,
   and concurrent unpins. *)
THEOREM ChangesSurvive == Spec => []NoLostUpdate
BY Invariance, PTL DEF Inv

(* Each of the two rounds of a sweep visits every frame. *)
LEMMA RoundVisitsAll ==
  ASSUME TypeOK, NEW f \in Frames, NEW b \in {0, NumFrames}
  PROVE  \E i \in b..(b + NumFrames - 1) : At(i) = f
<1>0. NumFrames \in Nat \ {0} BY PoolAssumption
<1>1. hand \in 0..(NumFrames - 1) /\ f \in 0..(NumFrames - 1) BY DEF TypeOK, Frames
<1>2. f % NumFrames = f /\ (f + NumFrames) % NumFrames = f /\ (f + 2 * NumFrames) % NumFrames = f
  BY <1>0, <1>1
<1>3. CASE f >= hand
  <2> DEFINE i == b + f - hand
  <2>1. i \in b..(b + NumFrames - 1) BY <1>0, <1>1, <1>3
  <2>2. hand + i = f \/ hand + i = f + NumFrames BY <1>0, <1>1
  <2>3. (hand + i) % NumFrames = f BY <1>2, <2>2
  <2> QED BY <2>1, <2>3 DEF At
<1>4. CASE f < hand
  <2> DEFINE i == b + NumFrames + f - hand
  <2>1. i \in b..(b + NumFrames - 1) BY <1>0, <1>1, <1>4
  <2>2. hand + i = f + NumFrames \/ hand + i = f + 2 * NumFrames BY <1>0, <1>1
  <2>3. (hand + i) % NumFrames = f BY <1>2, <2>2
  <2> QED BY <2>1, <2>3 DEF At
<1> QED BY <1>0, <1>1, <1>3, <1>4

(* findVictim gives up only when every frame is pinned: a sweep of two rounds
   finds any other frame (ErrPoolExhausted). *)
THEOREM SweepFindsVictim ==
  ASSUME Inv, ~Exhausted
  PROVE  \E i \in 0..(2 * NumFrames - 1) : Takes(i)
<1>0. NumFrames \in Nat \ {0} BY PoolAssumption
<1>1. PICK f \in Frames : frame[f] = NoPage \/ pin[f] = 0 BY DEF Exhausted, Inv, TypeOK
<1>2. PICK i \in NumFrames..(NumFrames + NumFrames - 1) : At(i) = f BY RoundVisitsAll DEF Inv
<1>3. i \in 0..(2 * NumFrames - 1) /\ i >= NumFrames BY <1>0
<1> QED BY <1>1, <1>2, <1>3 DEF Takes

(* A referenced page goes in the second round only, so the first has passed over
   every frame. *)
LEMMA TakenLast ==
  ASSUME Inv, NEW i \in 0..(2 * NumFrames - 1), Victim(i), frame[At(i)] # NoPage, ref[At(i)],
         NEW g \in Frames
  PROVE  frame[g] # NoPage /\ (pin[g] = 0 => ref[g])
<1>0. NumFrames \in Nat \ {0} BY PoolAssumption
<1>1. i >= NumFrames BY DEF Victim, Takes
<1>2. PICK j \in 0..(0 + NumFrames - 1) : At(j) = g BY RoundVisitsAll DEF Inv
<1>3. j \in 0..(i - 1) /\ ~(j >= NumFrames) BY <1>0, <1>1
<1>4. ~Takes(j) BY <1>3 DEF Victim
<1> QED BY <1>2, <1>3, <1>4 DEF Takes

-----------------------------------------------------------------------------
(* The loop of findVictim, turn by turn: what it holds after n turns. *)
Turns(f, n) ==
  IF n = 0 THEN [ref |-> ref, hand |-> hand, found |-> NoFrame] ELSE Visit(f[n - 1])
Loops(f) == f = [n \in 0..(2 * NumFrames) |-> Turns(f, n)]

(* What it should hold: the victim met, or the way up to there. *)
Met(n) == \E j \in 0..(n - 1) : Victim(j)
First == CHOOSE j \in 0..(2 * NumFrames - 1) : Victim(j)
Stopped(j) == [ref |-> Swept(j), hand |-> HandAfter(j), found |-> At(j)]
Passing(n) == [ref |-> Swept(n), hand |-> At(n), found |-> NoFrame]
Course == [n \in 0..(2 * NumFrames) |-> IF Met(n) THEN Stopped(First) ELSE Passing(n)]

LEMMA LeastExists ==
  ASSUME NEW S, S \subseteq Nat, S # {} PROVE \E n \in S : \A m \in S : n <= m
<1> DEFINE Below == {pair \in Nat \X Nat : pair[1] < pair[2]}
<1>1. IsWellFoundedOn(Below, Nat) BY NatLessThanWellFounded DEF OpToRel
<1>2. PICK n \in S : \A m \in S : ~(<<m, n>> \in Below) BY <1>1, WFMin
<1>3. \A m \in S : ~(m < n) BY <1>2
<1> QED BY <1>2, <1>3

(* The first step of the sweep that takes its frame is the victim's, and the only
   one to be it. *)
LEMMA OneVictim ==
  ASSUME NEW i \in 0..(2 * NumFrames - 1), Victim(i) PROVE First = i
<1>0. NumFrames \in Nat \ {0} BY PoolAssumption
<1>1. ASSUME NEW j \in 0..(2 * NumFrames - 1), Victim(j) PROVE j = i
  <2>1. ~(j \in 0..(i - 1)) /\ ~(i \in 0..(j - 1)) BY <1>1 DEF Victim
  <2> QED BY <1>0, <2>1
<1> QED BY <1>1 DEF First

LEMMA TakerGivesVictim ==
  ASSUME NEW m \in 1..(2 * NumFrames), NEW k \in 0..(m - 1), Takes(k) PROVE Met(m)
<1>0. NumFrames \in Nat \ {0} BY PoolAssumption
<1> DEFINE S == {j \in 0..(m - 1) : Takes(j)}
<1>1. S \subseteq Nat /\ S # {} BY <1>0
<1>2. PICK i \in S : \A j \in S : i <= j
  <2> HIDE DEF S
  <2> QED BY <1>1, LeastExists
<1>3. i \in 0..(m - 1) /\ Takes(i) OBVIOUS
<1>4. ASSUME NEW j \in 0..(i - 1) PROVE ~Takes(j)
  <2>1. j \in 0..(m - 1) /\ ~(i <= j) BY <1>0, <1>3
  <2> QED BY <1>2, <2>1
<1>5. Victim(i) BY <1>0, <1>3, <1>4 DEF Victim
<1> QED BY <1>3, <1>5 DEF Met

(* Step n of the sweep meets a frame for the first time when n is in the first
   round, and has met it before when it is in the second. *)
LEMMA FirstVisits ==
  ASSUME TypeOK, NEW n \in 0..(2 * NumFrames - 1)
  PROVE  (\E j \in 0..(n - 1) : At(j) = At(n)) <=> n >= NumFrames
<1>0. NumFrames \in Nat \ {0} /\ hand \in 0..(NumFrames - 1)
  BY PoolAssumption DEF TypeOK, Frames
<1>1. ASSUME NEW x \in 0..(NumFrames - 1)
      PROVE  x % NumFrames = x /\ (x + NumFrames) % NumFrames = x /\ (x + 2 * NumFrames) % NumFrames = x
  BY <1>0
<1>2. ASSUME n >= NumFrames PROVE \E j \in 0..(n - 1) : At(j) = At(n)
  <2>1. n - NumFrames \in 0..(n - 1) BY <1>0, <1>2
  <2>2. (hand + (n - NumFrames)) % NumFrames = (hand + n) % NumFrames
    <3> DEFINE x == hand + (n - NumFrames)
    <3>1. x \in Nat /\ hand + n = x + NumFrames /\ x < 2 * NumFrames BY <1>0, <1>2
    <3>2. CASE x < NumFrames BY <1>0, <1>1, <3>1, <3>2
    <3>3. CASE x >= NumFrames
      <4> DEFINE y == x - NumFrames
      <4>1. y \in 0..(NumFrames - 1) /\ x = y + NumFrames /\ hand + n = y + 2 * NumFrames
        BY <1>0, <3>1, <3>3
      <4>2. (y + NumFrames) % NumFrames = y /\ (y + 2 * NumFrames) % NumFrames = y BY <1>1, <4>1
      <4> QED BY <4>1, <4>2
    <3> QED BY <1>0, <3>1, <3>2, <3>3
  <2> QED BY <2>1, <2>2 DEF At
<1>3. ASSUME n < NumFrames, NEW j \in 0..(n - 1), At(j) = At(n) PROVE FALSE
  <2>1. ASSUME NEW k \in 0..(NumFrames - 1)
        PROVE  (hand + k) % NumFrames = IF hand + k < NumFrames THEN hand + k ELSE hand + k - NumFrames
    <3>1. CASE hand + k < NumFrames BY <1>0, <1>1, <3>1
    <3>2. CASE hand + k >= NumFrames
      <4> DEFINE y == hand + k - NumFrames
      <4>1. y \in 0..(NumFrames - 1) /\ hand + k = y + NumFrames BY <1>0, <3>2
      <4>2. (y + NumFrames) % NumFrames = y BY <1>1, <4>1
      <4> QED BY <1>0, <3>2, <4>1, <4>2
    <3> QED BY <1>0, <3>1, <3>2
  <2>2. j \in 0..(NumFrames - 1) /\ n \in 0..(NumFrames - 1) /\ j < n BY <1>0, <1>3
  <2>3. (hand + j) % NumFrames = (hand + n) % NumFrames BY <1>3 DEF At
  <2> QED BY <1>0, <2>1, <2>2, <2>3
<1> QED BY <1>0, <1>2, <1>3

LEMMA AtNext ==
  ASSUME TypeOK, NEW n \in 0..(2 * NumFrames) PROVE (At(n) + 1) % NumFrames = At(n + 1)
<1>0. NumFrames \in Nat \ {0} /\ hand \in 0..(NumFrames - 1)
  BY PoolAssumption DEF TypeOK, Frames
<1>1. ASSUME NEW x \in 0..(NumFrames - 1)
      PROVE  /\ x % NumFrames = x /\ (x + NumFrames) % NumFrames = x
             /\ (x + 2 * NumFrames) % NumFrames = x /\ (x + 3 * NumFrames) % NumFrames = x
  BY <1>0
<1>2. PICK r \in 0..(NumFrames - 1) : \E k \in {0, NumFrames, 2 * NumFrames} : hand + n = r + k
  <2>1. CASE hand + n < NumFrames BY <1>0, <2>1
  <2>2. CASE hand + n >= NumFrames /\ hand + n < 2 * NumFrames
    BY <1>0, <2>2, hand + n = (hand + n - NumFrames) + NumFrames
  <2>3. CASE hand + n >= 2 * NumFrames
    <3>1. hand + n - 2 * NumFrames \in 0..(NumFrames - 1) BY <1>0, <2>3
    <3>2. hand + n = (hand + n - 2 * NumFrames) + 2 * NumFrames BY <1>0
    <3> QED BY <3>1, <3>2
  <2> QED BY <1>0, <2>1, <2>2, <2>3
<1>3. PICK k \in {0, NumFrames, 2 * NumFrames} : hand + n = r + k BY <1>2
<1>4. At(n) = r BY <1>0, <1>1, <1>3 DEF At
<1>5. CASE r + 1 < NumFrames
  <2>1. r + 1 \in 0..(NumFrames - 1) /\ hand + (n + 1) = (r + 1) + k BY <1>0, <1>3, <1>5
  <2>2. (r + 1) % NumFrames = r + 1 /\ ((r + 1) + k) % NumFrames = r + 1
    BY <1>0, <1>1, <1>3, <2>1
  <2> QED BY <1>4, <2>1, <2>2 DEF At
<1>6. CASE r + 1 = NumFrames
  <2>1. 0 \in 0..(NumFrames - 1) /\ hand + (n + 1) \in {NumFrames, 2 * NumFrames, 3 * NumFrames}
    BY <1>0, <1>3, <1>6
  <2>2. (0 + NumFrames) % NumFrames = 0 /\ (0 + 2 * NumFrames) % NumFrames = 0 /\ (0 + 3 * NumFrames) % NumFrames = 0
    BY <1>1, <2>1
  <2>3. (hand + (n + 1)) % NumFrames = 0 /\ (r + 1) % NumFrames = 0 BY <1>0, <1>6, <2>1, <2>2
  <2> QED BY <1>4, <2>3 DEF At
<1> QED BY <1>0, <1>5, <1>6

(* Up to the victim, the next turn clears one bit at most and moves the hand on. *)
LEMMA PassesOn ==
  ASSUME TypeOK, NEW n \in 0..(2 * NumFrames - 1), ~Takes(n)
  PROVE  Visit(Passing(n)) = Passing(n + 1)
<1>0. NumFrames \in Nat \ {0} /\ n \in Nat /\ NoFrame \notin Frames BY PoolAssumption
<1> DEFINE g == At(n)
           s == Passing(n)
<1>1. g \in Frames /\ Swept(n) \in [Frames -> BOOLEAN] /\ Swept(n + 1) \in [Frames -> BOOLEAN]
  BY <1>0, AtInFrames, SweptType
<1>2. (g + 1) % NumFrames = At(n + 1) BY <1>0, AtNext
<1>3. frame[g] # NoPage /\ (pin[g] = 0 => ref[g] /\ n < NumFrames)
  <2>1. n >= NumFrames \/ n < NumFrames BY <1>0
  <2> QED BY <2>1 DEF Takes
<1>4. \A j \in Nat : j \in 0..n <=> j \in 0..(n - 1) \/ j = n BY <1>0
<1>5. \A f \in Frames : f # g => Swept(n + 1)[f] = Swept(n)[f]
  BY <1>0, <1>4 DEF Swept
<1>6. CASE pin[g] # 0
  <2>1. Swept(n + 1)[g] = Swept(n)[g] BY <1>1, <1>6 DEF Swept
  <2>2. Swept(n + 1) = Swept(n) BY <1>1, <1>5, <2>1
  <2>3. Visit(s) = [s EXCEPT !.hand = (g + 1) % NumFrames]
    BY <1>3, <1>6 DEF Visit, Passing
  <2> QED BY <1>2, <2>2, <2>3 DEF Passing
<1>7. CASE pin[g] = 0
  <2>1. ~\E j \in 0..(n - 1) : At(j) = At(n) BY <1>0, <1>3, <1>7, FirstVisits
  <2>2. Swept(n)[g] = TRUE BY <1>1, <1>3, <1>7, <2>1 DEF Swept, TypeOK
  <2>3. Swept(n + 1)[g] = FALSE
    <3>1. n \in 0..((n + 1) - 1) /\ At(n) = g BY <1>0
    <3>2. \E j \in 0..((n + 1) - 1) : At(j) = g BY <3>1
    <3> HIDE DEF g
    <3> QED BY <1>1, <1>7, <3>2 DEF Swept
  <2>4. Swept(n + 1) = [Swept(n) EXCEPT ![g] = FALSE] BY <1>1, <1>5, <2>3
  <2>5. Visit(s) = [s EXCEPT !.hand = (g + 1) % NumFrames, !.ref[g] = FALSE]
    BY <1>3, <1>7, <2>2 DEF Visit, Passing
  <2> QED BY <1>2, <2>4, <2>5 DEF Passing
<1> QED BY <1>6, <1>7

(* At the victim the loop returns. *)
LEMMA StopsThere ==
  ASSUME TypeOK, NEW n \in 0..(2 * NumFrames - 1), Takes(n)
  PROVE  Visit(Passing(n)) = Stopped(n)
<1>0. NumFrames \in Nat \ {0} /\ n \in Nat BY PoolAssumption
<1> DEFINE g == At(n)
           s == Passing(n)
<1>1. g \in Frames BY <1>0, AtInFrames
<1>2. (g + 1) % NumFrames = HandAfter(n) BY <1>0, AtNext DEF HandAfter
<1>3. frame[g] = NoPage \/ (pin[g] = 0 /\ ~Swept(n)[g])
  <2>1. CASE pin[g] = 0 /\ n >= NumFrames
    <3>1. \E j \in 0..(n - 1) : At(j) = At(n) BY <2>1, FirstVisits
    <3> QED BY <1>1, <2>1, <3>1 DEF Swept
  <2>2. CASE pin[g] = 0 /\ ~ref[g] BY <1>1, <2>2 DEF Swept
  <2> QED BY <2>1, <2>2 DEF Takes
<1>4. Visit(s) = [s EXCEPT !.hand = (g + 1) % NumFrames, !.found = g]
  BY <1>3 DEF Visit, Passing
<1> QED BY <1>2, <1>4 DEF Passing, Stopped

(* Course is what the loop computes, turn by turn. *)
LEMMA CourseLoops == ASSUME TypeOK PROVE Loops(Course)
<1>0. NumFrames \in Nat \ {0} BY PoolAssumption
<1>1. ASSUME NEW n \in 0..(2 * NumFrames) PROVE Course[n] = Turns(Course, n)
  <2>1. CASE n = 0
    <3>1. ~Met(0) BY <1>0 DEF Met
    <3>2. Swept(0) = ref BY <1>0 DEF Swept, TypeOK
    <3>3. At(0) = hand
      <4>1. hand \in 0..(NumFrames - 1) /\ hand + 0 = hand BY <1>0 DEF TypeOK, Frames
      <4>2. hand % NumFrames = hand BY <1>0, <4>1
      <4> QED BY <4>1, <4>2 DEF At
    <3> QED BY <1>0, <2>1, <3>1, <3>2, <3>3 DEF Course, Passing, Turns
  <2>2. CASE n # 0
    <3> DEFINE m == n - 1
    <3>1. m \in 0..(2 * NumFrames - 1) /\ m \in 0..(2 * NumFrames) /\ m + 1 = n BY <1>0, <2>2
    <3>2. Turns(Course, n) = Visit(Course[m]) BY <2>2 DEF Turns
    <3>3. Met(n) <=> Met(m) \/ Victim(m) BY <1>0, <3>1 DEF Met
    <3> HIDE DEF m
    <3>4. CASE Met(m)
      <4>1. PICK j \in 0..(m - 1) : Victim(j) BY <3>4 DEF Met
      <4>2. j \in 0..(2 * NumFrames - 1) /\ j \in Nat BY <1>0, <3>1, <4>1
      <4>3. First = j /\ At(j) \in Frames BY <4>1, <4>2, OneVictim, AtInFrames
      <4>4. At(First) # NoFrame BY <4>3, PoolAssumption
      <4>5. Course[m] = Stopped(First) /\ Course[n] = Stopped(First)
        BY <3>1, <3>3, <3>4 DEF Course
      <4>6. Visit(Stopped(First)) = Stopped(First) BY <4>4 DEF Visit, Stopped
      <4> QED BY <3>2, <4>5, <4>6
    <3>5. CASE ~Met(m) /\ Victim(m)
      <4>1. First = m /\ Takes(m) BY <3>1, <3>5, OneVictim DEF Victim
      <4>2. Course[m] = Passing(m) /\ Course[n] = Stopped(m)
        BY <3>1, <3>3, <3>5, <4>1 DEF Course
      <4> QED BY <3>1, <3>2, <4>1, <4>2, StopsThere
    <3>6. CASE ~Met(m) /\ ~Victim(m)
      <4>1. \A k \in 0..(m - 1) : ~Takes(k)
        <5> SUFFICES ASSUME NEW k \in 0..(m - 1), Takes(k) PROVE FALSE OBVIOUS
        <5>1. m \in 1..(2 * NumFrames) BY <3>1
        <5> QED BY <3>6, <5>1, TakerGivesVictim
      <4>2. ~Takes(m) BY <3>1, <3>6, <4>1 DEF Victim
      <4>3. Course[m] = Passing(m) /\ Course[n] = Passing(m + 1)
        BY <3>1, <3>3, <3>6 DEF Course
      <4> QED BY <3>1, <3>2, <4>2, <4>3, PassesOn
    <3> QED BY <3>4, <3>5, <3>6
  <2> QED BY <2>1, <2>2
<1>2. Course = [n \in 0..(2 * NumFrames) |-> Course[n]] BY DEF Course
<1> QED BY <1>1, <1>2 DEF Loops

LEMMA LoopsUnique == ASSUME NEW f, NEW g, Loops(f), Loops(g) PROVE f = g
<1>0. NumFrames \in Nat \ {0} BY PoolAssumption
<1> DEFINE wrong == {n \in 0..(2 * NumFrames) : f[n] # g[n]}
<1>1. /\ f = [n \in 0..(2 * NumFrames) |-> f[n]] /\ \A n \in 0..(2 * NumFrames) : f[n] = Turns(f, n)
      /\ g = [n \in 0..(2 * NumFrames) |-> g[n]] /\ \A n \in 0..(2 * NumFrames) : g[n] = Turns(g, n)
  BY DEF Loops
<1>2. wrong = {}
  <2> SUFFICES ASSUME wrong # {} PROVE FALSE OBVIOUS
  <2>1. wrong \subseteq Nat OBVIOUS
  <2>2. PICK n \in wrong : \A m \in wrong : n <= m
    <3> HIDE DEF wrong
    <3> QED BY <2>1, LeastExists
  <2>3. n \in 0..(2 * NumFrames) /\ f[n] # g[n] BY <2>2
  <2>4. n # 0 BY <1>1, <2>3 DEF Turns
  <2>5. n - 1 \in 0..(2 * NumFrames) /\ ~(n <= n - 1) BY <1>0, <2>3, <2>4
  <2>6. f[n - 1] = g[n - 1] BY <2>2, <2>5
  <2> QED BY <1>1, <2>3, <2>4, <2>6 DEF Turns
<1> QED BY <1>1, <1>2

LEMMA SweepIsCourse == ASSUME TypeOK PROVE Sweep = Course[2 * NumFrames]
<1> DEFINE loop == CHOOSE f : Loops(f)
<1>1. Loops(loop) BY CourseLoops
<1>2. loop = Course
  <2> HIDE DEF loop
  <2> QED BY <1>1, CourseLoops, LoopsUnique
<1>3. Sweep = loop[2 * NumFrames] BY DEF Sweep, Loops, Turns
<1> QED BY <1>2, <1>3

(* findVictim finds a victim exactly when some frame may go, the first one the hand
   meets, and leaves the bits and the hand as the model says. *)
THEOREM SweepsAgree == Spec => []SweepAgrees
<1>1. ASSUME Inv PROVE SweepAgrees
  <2>0. NumFrames \in Nat \ {0} /\ TypeOK BY <1>1, PoolAssumption DEF Inv
  <2> DEFINE last == 2 * NumFrames
  <2>1. last \in 1..last /\ last \in 0..last /\ Sweep = Course[last] BY <2>0, SweepIsCourse
  <2>2. CASE Met(last)
    <3>1. PICK i \in 0..(last - 1) : Victim(i) BY <2>2 DEF Met
    <3>2. First = i /\ i \in Nat BY <3>1, OneVictim
    <3>3. Sweep = Stopped(i) BY <2>1, <2>2, <3>2 DEF Course
    <3>4. At(i) \in Frames /\ At(i) # NoFrame BY <2>0, <3>2, AtInFrames, PoolAssumption
    <3>5. ~Exhausted
      <4>1. frame[At(i)] = NoPage \/ pin[At(i)] = 0 BY <3>1 DEF Victim, Takes
      <4> QED BY <3>4, <4>1 DEF Exhausted
    <3> QED BY <3>1, <3>3, <3>4, <3>5 DEF SweepAgrees, Stopped
  <2>3. CASE ~Met(last)
    <3>1. \A k \in 0..(last - 1) : ~Takes(k) BY <2>1, <2>3, TakerGivesVictim
    <3>2. Exhausted BY <1>1, <3>1, SweepFindsVictim
    <3>3. Sweep = Passing(last) BY <2>1, <2>3 DEF Course
    <3>4. Swept(last) = ref BY <2>0, <3>2 DEF Swept, Exhausted, TypeOK
    <3>5. At(last) = hand
      <4>1. hand \in 0..(NumFrames - 1) BY <2>0 DEF TypeOK, Frames
      <4>2. (hand + 2 * NumFrames) % NumFrames = hand BY <2>0, <4>1
      <4> QED BY <4>2 DEF At
    <3> QED BY <3>2, <3>3, <3>4, <3>5 DEF SweepAgrees, Passing
  <2> QED BY <2>2, <2>3
<1> QED BY <1>1, Invariance, PTL

(* A page that was used since the hand last passed is evicted only when no frame
   is empty and every page that could go was used as well. *)
THEOREM ChancesAreGiven == Spec => SecondChance
<1> DEFINE Fair == \A f \in Frames :
                     frame[f] # NoPage /\ frame'[f] # frame[f] /\ ref[f] =>
                       \A g \in Frames : frame[g] # NoPage /\ (pin[g] = 0 => ref[g])
<1>1. ASSUME Inv, NEW i \in 0..(2 * NumFrames - 1), Victim(i), NEW p,
             frame' = [frame EXCEPT ![At(i)] = p]
      PROVE  Fair
  <2>1. SUFFICES ASSUME NEW f \in Frames, frame[f] # NoPage, frame'[f] # frame[f], ref[f],
                        NEW g \in Frames
                 PROVE  frame[g] # NoPage /\ (pin[g] = 0 => ref[g])
    OBVIOUS
  <2>2. f = At(i) BY <1>1, <2>1 DEF Inv, TypeOK
  <2> QED BY <1>1, <2>1, <2>2, TakenLast
<1>2. ASSUME frame' = frame PROVE Fair BY <1>2
<1>3. ASSUME Inv, NEW i \in 0..(2 * NumFrames - 1), NEW p, NEW v, NEW d, Install(i, p, v, d)
      PROVE  Fair
  <2>1. Victim(i) /\ frame' = [frame EXCEPT ![At(i)] = p] BY <1>3 DEF Install
  <2> HIDE DEF Fair
  <2> QED BY <1>1, <1>3, <2>1
<1>4. ASSUME Inv, InstallFails PROVE Fair
  <2>1. CASE frame' = frame BY <1>2, <2>1
  <2>2. CASE \E i \in 0..(2 * NumFrames - 1) :
               Victim(i) /\ frame' = [frame EXCEPT ![At(i)] = NoPage]
    <3> HIDE DEF Fair
    <3> QED BY <1>1, <1>4, <2>2
  <2> QED BY <1>4, <2>1, <2>2 DEF InstallFails, frameVars
<1>5. ASSUME Inv, Next PROVE Fair
  <2> HIDE DEF Fair
  <2>1. PICK t \in Threads :
          \/ FetchSlow(t) \/ NewPage(t) \/ NewPageFails(t) \/ FlushAll(t)
          \/ \E p \in Pages : \/ FetchHit(t, p) \/ FetchMiss(t, p) \/ Change(t, p) \/ FlushPage(t, p)
                              \/ \E isDirty \in BOOLEAN : UnpinPage(t, p, isDirty)
    BY <1>5 DEF Next
  <2>2. CASE FetchSlow(t)
    <3>1. CASE Hit(t, want[t]) BY <3>1, <1>2 DEF Hit
    <3>2. CASE Load(t, want[t]) BY <3>2, <1>3, <1>5 DEF Load
    <3>3. CASE InstallFails BY <3>3, <1>4, <1>5
    <3> QED BY <2>2, <3>1, <3>2, <3>3 DEF FetchSlow
  <2>3. CASE NewPage(t) BY <2>3, <1>3, <1>5 DEF NewPage
  <2>4. CASE NewPageFails(t) BY <2>4, <1>4, <1>5 DEF NewPageFails
  <2>5. CASE FlushAll(t) BY <2>5, <1>2 DEF FlushAll, Flush
  <2>6. ASSUME NEW p \in Pages, NEW isDirty \in BOOLEAN,
               \/ FetchHit(t, p) \/ FetchMiss(t, p) \/ Change(t, p) \/ FlushPage(t, p)
               \/ UnpinPage(t, p, isDirty)
        PROVE  Fair
    <3>1. frame' = frame
      BY <2>6 DEF FetchHit, Hit, FetchMiss, frameVars, Change, FlushPage, Flush, UnpinPage
    <3> QED BY <3>1, <1>2
  <2> QED BY <2>1, <2>2, <2>3, <2>4, <2>5, <2>6
<1>6. Inv /\ [Next]_vars => [Fair]_vars BY <1>5
<1> QED BY <1>6, Invariance, PTL DEF Spec, SecondChance
=============================================================================
