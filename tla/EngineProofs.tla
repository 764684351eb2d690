---------------------------- MODULE EngineProofs ----------------------------
(***************************************************************************)
(* Theorems about Engine for any keys, values, pages, log length and       *)
(* bounds.  With any set of faults: type correctness, what the log and the *)
(* meta page say about LSNs, and that a clean page is as it is on disk.    *)
(* With the faults under which the code loses nothing: a serving engine    *)
(* shows what is logged, no tuple is lost, and Engine implements KVStore.  *)
(***************************************************************************)
EXTENDS Engine, KVOpsProofs

(* A goroutine is applying a logged operation. *)
Working == pc \in {"apply", "index", "free", "unindex"}

(* A data page the file does not have yet holds no tuple. *)
Unused ==
  \A p \in DataPages : p > numData + 1 =>
    \A s \in Slots : cache.data[p][s] = Free /\ disk.data[p][s] = Free

(* The operation at hand is one of the record's, and the locals of
   applyPutInMemory have been set where they are used. *)
AtOperation ==
  /\ Working => pos \in 1..Len(cur) /\ task \in {"client", "replay"}
  /\ pc = "index" => newRid \in RIDs
  /\ pc = "free" => oldRid \in RIDs

(* An intact record has an LSN and operations. *)
Intact(log) ==
  \A n \in 1..Len(log) : ~log[n].torn => log[n].lsn \in 1..MaxLSN /\ log[n].ops # << >>

(* Recovery has read intact records only. *)
ReadSoFar ==
  /\ pc = "replay" => task = "replay" /\ replayPos \in 1..(Len(wal) + 1)
  /\ Working /\ task = "replay" => replayPos \in Readable(wal)
  /\ pc = "replay" => \A j \in 1..(replayPos - 1) : ~wal[j].torn

Inv == TypeOK /\ Unused /\ AtOperation /\ Intact(wal) /\ Intact(bak) /\ ReadSoFar

-----------------------------------------------------------------------------
(* freeSlot of page.go finds a slot if there is one. *)
LEMMA FreeSlotFound ==
  ASSUME TypeOK, NEW p \in DataPages, FreeSlots(p) # {}
  PROVE  FreeSlot(p) \in Slots
<1>1. NumSlots \in Nat BY EngineAssumption
<1>2. FreeSlots(p) \subseteq Nat BY <1>1 DEF FreeSlots, Slots
<1>3. \E s \in FreeSlots(p) : \A t \in FreeSlots(p) : s <= t BY <1>2, LeastExists
<1>4. FreeSlot(p) \in FreeSlots(p) BY <1>3 DEF FreeSlot
<1> QED BY <1>4 DEF FreeSlots

(* The LSN that OpenWAL finds is one of the log's, if there is one. *)
LEMMA HighestFound ==
  ASSUME NEW log \in Seq(LogRecords), Intact(log)
  PROVE  /\ HighestLSN(log) \in 0..MaxLSN
         /\ \A i \in Readable(log) : log[i].lsn <= HighestLSN(log)
         /\ HighestLSN(log) = 0 => Readable(log) = {}
<1>1. MaxLSN \in Nat BY EngineAssumption
<1>2. \A i \in Readable(log) : log[i].lsn \in 1..MaxLSN BY DEF Readable, Intact
<1>3. LSNs(log) \subseteq 1..MaxLSN BY <1>2 DEF LSNs
<1>4. CASE LSNs(log) = {}
  <2>1. \A i \in Readable(log) : log[i].lsn \in LSNs(log) BY Zenon DEF LSNs
  <2>2. Readable(log) = {} /\ HighestLSN(log) = 0 BY <1>4, <2>1 DEF HighestLSN
  <2> QED BY <1>1, <2>2
<1>5. CASE LSNs(log) # {}
  <2>1. LSNs(log) \subseteq 0..MaxLSN BY <1>1, <1>3
  <2>2. \E n \in LSNs(log) : \A m \in LSNs(log) : m <= n BY <1>1, <1>5, <2>1, GreatestExists
  <2>3. HighestLSN(log) \in LSNs(log) /\ \A m \in LSNs(log) : m <= HighestLSN(log)
    BY <1>5, <2>2 DEF HighestLSN
  <2> QED BY <1>1, <1>3, <2>3 DEF LSNs
<1> QED BY <1>4, <1>5

-----------------------------------------------------------------------------
(* Writing pages keeps the file well-formed and invents no tuple. *)
LEMMA WritePagesType ==
  ASSUME TypeOK, Unused, NEW S
  PROVE  /\ WritePages(S) \in Images
         /\ \A p \in DataPages : p > numData + 1 =>
              \A s \in Slots : WritePages(S).data[p][s] = Free
<1>1. /\ WritePages(S).ckpt \in Nat /\ WritePages(S).active \in DataPages
      /\ WritePages(S).leaf \in [Keys -> RIDs \cup {None}]
  BY DEF TypeOK, Images, WritePages
<1>2. /\ \A p \in DataPages : WritePages(S).data[p] \in {cache.data[p], disk.data[p]}
      /\ WritePages(S).data \in [DataPages -> [Slots -> Vals \cup {Free}]]
  BY DEF TypeOK, Images, WritePages
<1>3. WritePages(S) \in Images BY <1>1, <1>2 DEF Images, WritePages
<1> QED BY <1>2, <1>3 DEF Unused

(* freeTuple. *)
LEMMA FreeTupleKeeps ==
  ASSUME TypeOK, Unused, NEW rid \in RIDs, FreeTuple(rid), UNCHANGED <<disk, numData>>
  PROVE  /\ cache' \in Images /\ dirty' \subseteq PageIds /\ reclaim' \subseteq DataPages
         /\ Unused' /\ cache'.ckpt = cache.ckpt
<1>1. rid.page \in DataPages /\ rid.slot \in Slots BY DEF RIDs
<1>2. CASE UNCHANGED <<cache, dirty, reclaim>> BY <1>2 DEF TypeOK, Unused
<1>3. CASE /\ cache' = [cache EXCEPT !.data[rid.page][rid.slot] = Free]
           /\ dirty' = dirty \cup {rid.page}
           /\ reclaim' = IF rid.page = active THEN reclaim ELSE reclaim \cup {rid.page}
  <2>1. cache' \in Images BY <1>1, <1>3 DEF TypeOK, Images
  <2>2. dirty' \subseteq PageIds /\ reclaim' \subseteq DataPages
    BY <1>1, <1>3 DEF TypeOK, PageIds
  <2>3. \A p \in DataPages, s \in Slots :
          cache'.data[p][s] = IF p = rid.page /\ s = rid.slot THEN Free ELSE cache.data[p][s]
    BY <1>1, <1>3 DEF TypeOK, Images
  <2>4. Unused' BY <2>3 DEF Unused
  <2> QED BY <1>3, <2>1, <2>2, <2>4 DEF TypeOK, Images
<1> QED BY <1>2, <1>3 DEF FreeTuple

(* The process ends; what the next one finds is the data file. *)
LEMMA PowerOffKeeps ==
  ASSUME Inv, PowerOff(disk'), disk' \in Images, UNCHANGED <<numData, bak, hist>>,
         \A p \in DataPages : p > numData + 1 => \A s \in Slots : disk'.data[p][s] = Free,
         crashes' \in 0..MaxCrashes, wal' \in Seq(LogRecords), Intact(wal')
  PROVE  Inv'
<1>1. TypeOK'
  <2>1. 2 \in DataPages BY EngineAssumption DEF DataPages
  <2>2. cur' \in Seq(Ops) /\ pos' \in 0..Len(cur') BY DEF PowerOff
  <2>3. cache' \in Images /\ disk' \in Images BY DEF PowerOff
  <2>4. wal' \in Seq(LogRecords) /\ bak' \in Seq(LogRecords) /\ numData' \in 1..NumPages
        /\ hist' \in Maps
    BY DEF Inv, TypeOK
  <2> QED BY <2>1, <2>2, <2>3, <2>4 DEF TypeOK, PowerOff
<1>2. Unused' BY DEF PowerOff, Unused
<1>3. AtOperation' /\ ReadSoFar' BY DEF PowerOff, AtOperation, ReadSoFar, Working
<1>4. Intact(wal)' /\ Intact(bak)' BY DEF Inv, Intact
<1> QED BY <1>1, <1>2, <1>3, <1>4 DEF Inv

(* updateMeta. *)
LEMMA StampKeeps ==
  ASSUME Inv, NEW n \in Nat, NEW why \in {"checkpoint", "snapshot", "close", "recovered"},
         StampMeta(n, why), UNCHANGED <<applyVars, currentLSN, walOpen, active,
         reclaim, failed, replayVars, fileVars, hist>>
  PROVE  Inv'
<1>1. cache' \in Images /\ cache'.data = cache.data
  BY DEF Inv, TypeOK, Images, StampMeta
<1>2. TypeOK' BY <1>1 DEF Inv, TypeOK, StampMeta, PageIds, applyVars, replayVars, fileVars
<1>3. Unused' BY <1>1 DEF Inv, Unused, fileVars
<1>4. AtOperation' /\ ReadSoFar' BY DEF StampMeta, AtOperation, ReadSoFar, Working
<1>5. Intact(wal)' /\ Intact(bak)' BY DEF Inv, Intact, fileVars
<1> QED BY <1>2, <1>3, <1>4, <1>5 DEF Inv

(* The last step of an operation. *)
LEMMA OpDoneKeeps ==
  ASSUME Inv, Working, OpDone, cache' \in Images, dirty' \subseteq PageIds,
         reclaim' \subseteq DataPages, Unused',
         UNCHANGED <<currentLSN, walOpen, active, failed, base, fileVars, hist>>
  PROVE  Inv'
<1>1. /\ pos \in 1..Len(cur) /\ task \in {"client", "replay"}
      /\ task = "replay" => replayPos \in Readable(wal)
  BY DEF Inv, AtOperation, ReadSoFar
<1>2. \A i \in Readable(wal) : /\ wal[i] \in LogRecords /\ i \in 1..Len(wal)
                               /\ \A j \in 1..i : ~wal[j].torn
  BY DEF Inv, TypeOK, Readable
<1>3. \A i \in Readable(wal) : wal[i].lsn \in Nat BY <1>2 DEF LogRecords
<1>4. UNCHANGED <<disk, numData, wal, bak, crashes>> BY DEF fileVars
<1>5. CASE pos < Len(cur) /\ pc' = "apply" /\ pos' = pos + 1 /\ oldRid' = None
           /\ newRid' = None /\ UNCHANGED <<task, cur, replayPos, highest>>
  <2>1. pos' \in 1..Len(cur') BY <1>1, <1>5 DEF Inv, TypeOK
  <2>2. TypeOK' BY <1>1, <1>4, <1>5, <2>1 DEF Inv, TypeOK
  <2>3. AtOperation' BY <1>1, <1>5, <2>1 DEF AtOperation
  <2>4. ReadSoFar' BY <1>1, <1>4, <1>5 DEF ReadSoFar, Readable
  <2> QED BY <1>4, <2>2, <2>3, <2>4 DEF Inv, Intact
<1>6. CASE cur' = << >> /\ pos' = 0 /\ task = "client" /\ pc' = "idle" /\ task' = "none"
           /\ oldRid' = None /\ newRid' = None /\ UNCHANGED <<replayPos, highest>>
  <2>1. TypeOK' BY <1>4, <1>6 DEF Inv, TypeOK
  <2>2. AtOperation' /\ ReadSoFar' BY <1>6 DEF AtOperation, ReadSoFar, Working
  <2> QED BY <1>4, <2>1, <2>2 DEF Inv, Intact
<1>7. CASE cur' = << >> /\ pos' = 0 /\ task = "replay" /\ pc' = "replay"
           /\ replayPos' = replayPos + 1 /\ task' = task
           /\ highest' = (IF wal[replayPos].lsn > highest THEN wal[replayPos].lsn ELSE highest)
           /\ oldRid' = None /\ newRid' = None
  <2>1. replayPos \in Readable(wal) BY <1>1, <1>7
  <2>2. highest' \in Nat /\ replayPos' \in 1..(Len(wal) + 1)
    BY <1>2, <1>3, <1>7, <2>1 DEF Inv, TypeOK
  <2>3. TypeOK' BY <1>4, <1>7, <2>2 DEF Inv, TypeOK
  <2>4. AtOperation' BY <1>7 DEF AtOperation, Working
  <2>5. ReadSoFar' BY <1>2, <1>4, <1>7, <2>1, <2>2 DEF ReadSoFar, Working
  <2> QED BY <1>4, <2>3, <2>4, <2>5 DEF Inv, Intact
<1> QED BY <1>1, <1>5, <1>6, <1>7 DEF OpDone

-----------------------------------------------------------------------------
LEMMA InitInv == Init => Inv
<1> SUFFICES ASSUME Init PROVE Inv OBVIOUS
<1>1. 2 \in DataPages /\ 1 \in 1..NumPages /\ MaxCrashes \in Nat
  BY EngineAssumption DEF DataPages
<1>2. FreshImage \in Images BY <1>1 DEF FreshImage, Images
<1>3. TypeOK
  <2>1. cur \in Seq(Ops) /\ pos \in 0..Len(cur) BY DEF Init
  <2>2. wal \in Seq(LogRecords) /\ bak \in Seq(LogRecords) /\ hist \in Maps
    BY DEF Init, Maps
  <2>3. crashes \in 0..MaxCrashes /\ numData \in 1..NumPages BY <1>1 DEF Init
  <2> QED BY <1>1, <1>2, <2>1, <2>2, <2>3 DEF Init, TypeOK
<1>4. Unused BY DEF Init, Unused, FreshImage
<1>5. AtOperation /\ ReadSoFar BY DEF Init, AtOperation, ReadSoFar, Working
<1>6. Intact(wal) /\ Intact(bak) BY DEF Init, Intact
<1> QED BY <1>3, <1>4, <1>5, <1>6 DEF Inv

(* A record is added to the log. *)
LEMMA AppendIntact ==
  ASSUME NEW log \in Seq(LogRecords), Intact(log), NEW rec \in LogRecords,
         ~rec.torn => rec.lsn \in 1..MaxLSN /\ rec.ops # << >>
  PROVE  Append(log, rec) \in Seq(LogRecords) /\ Intact(Append(log, rec))
<1>1. \A n \in 1..Len(Append(log, rec)) :
        Append(log, rec)[n] = IF n = Len(log) + 1 THEN rec ELSE log[n]
  OBVIOUS
<1>2. ASSUME NEW n \in 1..Len(Append(log, rec)), ~Append(log, rec)[n].torn
      PROVE  Append(log, rec)[n].lsn \in 1..MaxLSN /\ Append(log, rec)[n].ops # << >>
  <2>1. CASE n = Len(log) + 1 BY <1>1, <1>2, <2>1
  <2>2. CASE n # Len(log) + 1
    <3>1. n \in 1..Len(log) BY <2>2
    <3> QED BY <1>1, <1>2, <2>2, <3>1 DEF Intact
  <2> QED BY <2>1, <2>2
<1>3. Append(log, rec) \in Seq(LogRecords) OBVIOUS
<1> QED BY <1>2, <1>3 DEF Intact

LEMMA TornRecordType == TornRecord \in LogRecords /\ TornRecord.torn
BY DEF TornRecord, LogRecords

(* The record that a request becomes. *)
LEMMA RequestRecord ==
  ASSUME TypeOK, NEW r \in Requests, CanWrite(r)
  PROVE  /\ r.ops \in Seq(Ops) /\ r.ops # << >> /\ Len(r.ops) \in Nat /\ 1 \in 1..Len(r.ops)
         /\ Record(currentLSN + 1, r.ops) \in LogRecords
         /\ ~Record(currentLSN + 1, r.ops).torn
         /\ Record(currentLSN + 1, r.ops).lsn = currentLSN + 1
         /\ Record(currentLSN + 1, r.ops).lsn \in 1..MaxLSN
         /\ Record(currentLSN + 1, r.ops).ops # << >>
         /\ ApplyOps(hist, r.ops) \in Maps
<1>1. r.ops \in Seq(Ops) /\ r.ops # << >> BY RequestsAssumption
<1>2. currentLSN + 1 \in 1..MaxLSN BY EngineAssumption DEF CanWrite, TypeOK
<1>3. ApplyOps(hist, r.ops) \in Maps BY <1>1, ApplyOpsType DEF TypeOK
<1>4. Len(r.ops) \in Nat /\ 1 \in 1..Len(r.ops) BY <1>1
<1> QED BY <1>1, <1>2, <1>3, <1>4 DEF Record, LogRecords

LEMMA LogInv == ASSUME Inv, NEW r \in Requests, Log(r) PROVE Inv'
<1>1. TypeOK /\ CanWrite(r) BY DEF Inv, Log
<1> DEFINE rec == Record(currentLSN + 1, r.ops)
<1>2. /\ r.ops \in Seq(Ops) /\ r.ops # << >> /\ 1 \in 1..Len(r.ops)
      /\ rec \in LogRecords /\ (~rec.torn => rec.lsn \in 1..MaxLSN /\ rec.ops # << >>)
      /\ ApplyOps(hist, r.ops) \in Maps
  BY <1>1, RequestRecord
<1>3. wal' = Append(wal, rec) BY DEF Log
<1>4. wal' \in Seq(LogRecords) /\ Intact(wal')
  BY <1>2, <1>3, AppendIntact DEF Inv, TypeOK
<1>5. TypeOK'
  <2>1. cur' \in Seq(Ops) /\ pos' \in 0..Len(cur') BY <1>2 DEF Log
  <2>2. currentLSN' \in Nat /\ hist' \in Maps BY <1>2 DEF Log, Inv, TypeOK
  <2> QED BY <1>4, <2>1, <2>2 DEF Log, Inv, TypeOK, replayVars
<1>6. Unused' /\ Intact(bak)' BY DEF Log, Inv, Unused, Intact
<1>7. AtOperation' /\ ReadSoFar' BY <1>2 DEF Log, AtOperation, ReadSoFar, Working
<1> QED BY <1>4, <1>5, <1>6, <1>7 DEF Inv, Intact

LEMMA LogFailsInv == ASSUME Inv, NEW r \in Requests, LogFails(r) PROVE Inv'
<1>1. TypeOK /\ CanWrite(r) /\ pc' = "idle" BY DEF Inv, LogFails, CanWrite
<1> DEFINE rec == Record(currentLSN + 1, r.ops)
<1>2. /\ rec \in LogRecords /\ (~rec.torn => rec.lsn \in 1..MaxLSN /\ rec.ops # << >>)
      /\ ApplyOps(hist, r.ops) \in Maps
  BY <1>1, RequestRecord
<1>3. /\ wal' \in {wal, Append(wal, rec), Append(wal, TornRecord)}
      /\ hist' \in {hist, ApplyOps(hist, r.ops)}
  BY DEF LogFails
<1>4. wal' \in Seq(LogRecords) /\ Intact(wal')
  BY <1>2, <1>3, AppendIntact, TornRecordType DEF Inv, TypeOK
<1>5. TypeOK'
  <2>1. currentLSN' \in Nat /\ hist' \in Maps BY <1>2, <1>3 DEF LogFails, Inv, TypeOK
  <2> QED BY <1>4, <2>1 DEF LogFails, Inv, TypeOK, replayVars, applyVars
<1>6. Unused' /\ Intact(bak)' BY DEF LogFails, Inv, Unused, Intact
<1>7. AtOperation' /\ ReadSoFar' BY <1>1 DEF AtOperation, ReadSoFar, Working
<1> QED BY <1>4, <1>5, <1>6, <1>7 DEF Inv, Intact

-----------------------------------------------------------------------------
(* The operation at hand. *)
LEMMA OpType ==
  ASSUME Inv, Working PROVE Op \in Ops /\ Op.key \in Keys /\ Op.val \in Vals \cup {None}
<1>1. pos \in 1..Len(cur) /\ cur \in Seq(Ops) BY DEF Inv, AtOperation, TypeOK
<1>2. cur[pos] \in Ops BY <1>1
<1> QED BY <1>2 DEF Op, Ops

(* insertTuple finds a page of the file, or the next one, with a free slot. *)
LEMMA TargetType ==
  ASSUME TypeOK, Unused, NEW p \in Target
  PROVE  p \in DataPages /\ FreeSlot(p) \in Slots
<1>1. p \in DataPages /\ FreeSlots(p) # {}
  <2>1. CASE FreeSlots(active) # {} BY <2>1 DEF Target, TypeOK
  <2>2. CASE p \in reclaim /\ FreeSlots(p) # {} BY <2>2 DEF TypeOK
  <2>3. CASE p = numData + 2 /\ numData < NumPages
    <3>1. p \in DataPages /\ p > numData + 1 /\ 1 \in Slots
      BY <2>3, EngineAssumption DEF TypeOK, DataPages, Slots
    <3>2. 1 \in FreeSlots(p) BY <3>1 DEF Unused, FreeSlots
    <3> QED BY <3>1, <3>2
  <2> QED BY <2>1, <2>2, <2>3 DEF Target
<1> QED BY <1>1, FreeSlotFound

LEMMA InsertTupleInv == ASSUME Inv, InsertTuple PROVE Inv'
<1>1. Working /\ TypeOK /\ Unused /\ pc' = "index" BY DEF Inv, InsertTuple, Working
<1>2. Op.val \in Vals /\ Op.key \in Keys BY <1>1, OpType DEF InsertTuple
<1>3. PICK p \in Target :
        /\ newRid' = [page |-> p, slot |-> FreeSlot(p)]
        /\ cache' = [cache EXCEPT !.data[p][FreeSlot(p)] = Op.val, !.active =
                       IF p = active THEN @ ELSE p]
        /\ dirty' = dirty \cup {p} \cup (IF p = active THEN {} ELSE {MetaPage})
        /\ active' = p
        /\ reclaim' = reclaim \ {p}
        /\ numData' = IF p - 1 > numData THEN p - 1 ELSE numData
  BY DEF InsertTuple
<1>4. p \in DataPages /\ FreeSlot(p) \in Slots BY <1>1, TargetType
<1>5. newRid' \in RIDs BY <1>3, <1>4 DEF RIDs
<1>6. cache' \in Images BY <1>2, <1>3, <1>4 DEF Inv, TypeOK, Images
<1>7. numData' \in 1..NumPages /\ numData' >= numData /\ numData' + 1 >= p
  <2>1. numData \in 1..NumPages /\ p \in 2..(NumPages + 1) /\ NumPages \in Nat
    BY <1>1, <1>4, EngineAssumption DEF TypeOK, DataPages
  <2> QED BY <1>3, <2>1
<1>8. dirty' \subseteq PageIds BY <1>3, <1>4 DEF Inv, TypeOK, PageIds
<1>9. oldRid' \in RIDs \cup {None} BY <1>2 DEF InsertTuple, Inv, TypeOK, Images
<1>10. TypeOK'
  <2>1. UNCHANGED <<task, cur, pos, currentLSN, walOpen, failed, base, replayPos, highest,
                    disk, wal, bak, crashes, hist>>
    BY DEF InsertTuple, replayVars
  <2>2. active' \in DataPages /\ reclaim' \subseteq DataPages BY <1>3, <1>4 DEF Inv, TypeOK
  <2> QED BY <1>1, <1>5, <1>6, <1>7, <1>8, <1>9, <2>1, <2>2 DEF TypeOK
<1>11. Unused'
  <2> SUFFICES ASSUME NEW q \in DataPages, q > numData' + 1, NEW s \in Slots
               PROVE  cache'.data[q][s] = Free /\ disk'.data[q][s] = Free
    BY DEF Unused
  <2>1. numData \in Nat /\ p \in Nat /\ q \in Nat
    BY <1>1, <1>4, EngineAssumption DEF TypeOK, DataPages
  <2>2. q > (IF p - 1 > numData THEN p - 1 ELSE numData) + 1 BY <1>3
  <2>3. q # p /\ q > numData + 1 BY <2>1, <2>2
  <2>4. cache'.data[q] = cache.data[q] BY <1>3, <1>4, <2>3 DEF Inv, TypeOK, Images
  <2>5. disk' = disk BY DEF InsertTuple
  <2> QED BY <2>3, <2>4, <2>5 DEF Inv, Unused
<1>12. AtOperation'
  BY <1>1, <1>5 DEF Inv, AtOperation, InsertTuple, Working
<1>13. ReadSoFar' BY <1>1 DEF Inv, ReadSoFar, InsertTuple, Working, replayVars, Readable
<1> QED BY <1>10, <1>11, <1>12, <1>13 DEF Inv, InsertTuple, Intact

(* The leaf's entry of a key is set. *)
LEMMA LeafKeeps ==
  ASSUME TypeOK, Unused, NEW k \in Keys, NEW rid \in RIDs \cup {None},
         cache' = [cache EXCEPT !.leaf[k] = rid], UNCHANGED <<disk, numData>>
  PROVE  cache' \in Images /\ Unused' /\ cache'.ckpt = cache.ckpt
<1>1. cache' \in Images /\ cache'.data = cache.data /\ cache'.ckpt = cache.ckpt
  BY DEF TypeOK, Images
<1> QED BY <1>1 DEF Unused

LEMMA IndexKeyInv == ASSUME Inv, IndexKey PROVE Inv'
<1>1. Working /\ TypeOK /\ Unused /\ newRid \in RIDs
  BY DEF Inv, IndexKey, Working, AtOperation
<1>2. Op.key \in Keys BY <1>1, OpType
<1>3. UNCHANGED <<disk, numData, wal, bak, crashes>> BY DEF IndexKey, fileVars
<1>4. cache' \in Images /\ Unused' BY <1>1, <1>2, <1>3, LeafKeeps DEF IndexKey
<1>5. dirty' \subseteq PageIds BY DEF IndexKey, Inv, TypeOK, PageIds
<1>6. CASE oldRid # None /\ pc' = "free" /\ UNCHANGED <<task, applyVars, replayPos, highest>>
  <2>1. UNCHANGED <<task, cur, pos, oldRid, newRid, replayPos, highest, currentLSN,
                    walOpen, active, reclaim, failed, base, hist>>
    BY <1>6 DEF applyVars, IndexKey
  <2>2. TypeOK' BY <1>3, <1>4, <1>5, <1>6, <2>1 DEF Inv, TypeOK
  <2>3. AtOperation' BY <1>1, <1>6, <2>1 DEF Inv, TypeOK, AtOperation, Working
  <2>4. ReadSoFar' BY <1>1, <1>3, <1>6, <2>1 DEF Inv, ReadSoFar, Working, Readable
  <2> QED BY <1>3, <1>4, <2>2, <2>3, <2>4 DEF Inv, Intact
<1>7. CASE OpDone
  <2>1. reclaim' \subseteq DataPages BY DEF IndexKey, Inv, TypeOK
  <2> QED BY <1>1, <1>4, <1>5, <1>7, <2>1, OpDoneKeeps DEF IndexKey
<1> QED BY <1>6, <1>7 DEF IndexKey

LEMMA FreeOldInv == ASSUME Inv, FreeOld PROVE Inv'
<1>1. Working /\ TypeOK /\ Unused /\ oldRid \in RIDs BY DEF Inv, FreeOld, Working, AtOperation
<1>2. FreeTuple(oldRid) /\ OpDone /\ UNCHANGED <<disk, numData>> BY DEF FreeOld, fileVars
<1>3. cache' \in Images /\ dirty' \subseteq PageIds /\ reclaim' \subseteq DataPages /\ Unused'
  BY <1>1, <1>2, FreeTupleKeeps
<1> QED BY <1>1, <1>2, <1>3, OpDoneKeeps DEF FreeOld

LEMMA DeleteAbsentInv == ASSUME Inv, DeleteAbsent PROVE Inv'
<1>1. Working BY DEF DeleteAbsent, Working
<1>2. cache' \in Images /\ dirty' \subseteq PageIds /\ reclaim' \subseteq DataPages /\ Unused'
  BY DEF DeleteAbsent, Inv, TypeOK, Unused, fileVars
<1> QED BY <1>1, <1>2, OpDoneKeeps DEF DeleteAbsent

LEMMA DeleteTupleInv == ASSUME Inv, DeleteTuple PROVE Inv'
<1>1. Working /\ TypeOK /\ Unused /\ pc' = "unindex" BY DEF Inv, DeleteTuple, Working
<1>2. cache.leaf[Op.key] \in RIDs
  BY <1>1, OpType DEF DeleteTuple, TypeOK, Images
<1>3. UNCHANGED <<task, cur, pos, oldRid, newRid, currentLSN, walOpen, active, failed, base,
                  replayPos, highest, disk, numData, wal, bak, crashes, hist>>
  BY DEF DeleteTuple, applyVars, replayVars, fileVars
<1>4. cache' \in Images /\ dirty' \subseteq PageIds /\ reclaim' \subseteq DataPages /\ Unused'
  BY <1>1, <1>2, <1>3, FreeTupleKeeps DEF DeleteTuple
<1>5. TypeOK' BY <1>1, <1>3, <1>4 DEF TypeOK
<1>6. AtOperation' BY <1>1, <1>3 DEF Inv, AtOperation, Working
<1>7. ReadSoFar' BY <1>1, <1>3 DEF Inv, ReadSoFar, Working, Readable
<1> QED BY <1>3, <1>4, <1>5, <1>6, <1>7 DEF Inv, Intact

LEMMA UnindexInv == ASSUME Inv, Unindex PROVE Inv'
<1>1. Working /\ TypeOK /\ Unused BY DEF Inv, Unindex, Working
<1>2. Op.key \in Keys BY <1>1, OpType
<1>3. cache' \in Images /\ Unused' BY <1>1, <1>2, LeafKeeps DEF Unindex, fileVars
<1>4. dirty' \subseteq PageIds /\ reclaim' \subseteq DataPages
  BY DEF Unindex, Inv, TypeOK, PageIds
<1> QED BY <1>1, <1>3, <1>4, OpDoneKeeps DEF Unindex

LEMMA ApplyFailsInv == ASSUME Inv, ApplyFails PROVE Inv'
<1>1. cur' \in Seq(Ops) /\ pos' \in 0..Len(cur') BY DEF ApplyFails
<1>2. TypeOK' BY <1>1 DEF ApplyFails, Inv, TypeOK, replayVars, fileVars
<1>3. AtOperation' /\ ReadSoFar' BY DEF ApplyFails, AtOperation, ReadSoFar, Working
<1> QED BY <1>2, <1>3 DEF ApplyFails, Inv, Unused, Intact, fileVars

-----------------------------------------------------------------------------
LEMMA StartFlushInv == ASSUME Inv, StartFlush PROVE Inv'
BY StampKeeps DEF StartFlush, Inv, TypeOK

LEMMA FlushAllInv == ASSUME Inv, FlushAll PROVE Inv'
<1>1. TypeOK /\ Unused /\ disk' = WritePages(dirty) BY DEF Inv, FlushAll
<1>2. /\ disk' \in Images
      /\ \A p \in DataPages : p > numData + 1 => \A s \in Slots : disk'.data[p][s] = Free
  BY <1>1, WritePagesType
<1>3. UNCHANGED <<numData, wal, bak, crashes, hist>> BY DEF FlushAll
<1>4. CASE PowerOff(disk')
  BY <1>2, <1>3, <1>4, PowerOffKeeps DEF Inv, TypeOK, Intact
<1>5. CASE /\ dirty' = {}
           /\ pc' = IF task = "checkpoint" THEN "remove" ELSE "idle"
           /\ task' = IF task = "checkpoint" THEN task ELSE "none"
           /\ base' = 0 /\ replayPos' = 0 /\ highest' = 0
           /\ UNCHANGED <<applyVars, currentLSN, walOpen, active, reclaim, failed, cache>>
  <2>1. TypeOK' BY <1>1, <1>2, <1>3, <1>5 DEF TypeOK, applyVars
  <2>2. Unused' BY <1>1, <1>2, <1>3, <1>5 DEF Unused
  <2>3. AtOperation' /\ ReadSoFar' BY <1>5 DEF AtOperation, ReadSoFar, Working
  <2> QED BY <1>3, <2>1, <2>2, <2>3 DEF Inv, Intact
<1> QED BY <1>4, <1>5 DEF FlushAll

(* One page of the data file is written: FlushPage, Evict. *)
LEMMA WriteOneKeeps ==
  ASSUME Inv, NEW p \in PageIds, disk' = WritePages({p}), dirty' = dirty \ {p},
         UNCHANGED <<pc, volatile, cache, numData, wal, bak, crashes, hist>>
  PROVE  Inv'
<1>1. UNCHANGED <<pc, task, cur, pos, oldRid, newRid, currentLSN, walOpen, active, reclaim,
                  failed, base, replayPos, highest, cache, numData, wal, bak, crashes, hist>>
  BY DEF volatile
<1>2. /\ disk' \in Images
      /\ \A q \in DataPages : q > numData + 1 => \A s \in Slots : disk'.data[q][s] = Free
  BY WritePagesType DEF Inv
<1>3. TypeOK' BY <1>1, <1>2 DEF Inv, TypeOK
<1>4. Unused' BY <1>1, <1>2 DEF Inv, Unused
<1>5. AtOperation' /\ ReadSoFar' BY <1>1 DEF Inv, AtOperation, ReadSoFar, Working, Readable
<1> QED BY <1>1, <1>3, <1>4, <1>5 DEF Inv, Intact

LEMMA FlushFailsInv == ASSUME Inv, FlushFails PROVE Inv'
<1>1. UNCHANGED <<disk, numData, wal, bak, crashes, hist>> BY DEF FlushFails, fileVars
<1>2. CASE /\ pc' = "idle" /\ task' = "none"
           /\ UNCHANGED <<applyVars, currentLSN, walOpen, active, reclaim, failed,
                          replayVars, cache, dirty>>
  <2>1. TypeOK' BY <1>1, <1>2 DEF Inv, TypeOK, applyVars, replayVars
  <2>2. AtOperation' /\ ReadSoFar' BY <1>2 DEF AtOperation, ReadSoFar, Working
  <2> QED BY <1>1, <1>2, <2>1, <2>2 DEF Inv, Unused, Intact
<1>3. CASE PowerOff(disk)
  BY <1>1, <1>3, PowerOffKeeps DEF Inv, TypeOK, Unused, Intact
<1>4. CASE /\ StampMeta(currentLSN, "close")
           /\ UNCHANGED <<applyVars, currentLSN, walOpen, active, reclaim, failed, replayVars>>
  BY <1>4, StampKeeps DEF FlushFails, Inv, TypeOK
<1> QED BY <1>2, <1>3, <1>4 DEF FlushFails

(* The log is rotated, or is not: nobody is applying operations. *)
LEMMA RotationKeeps ==
  ASSUME Inv, pc' \in {"rename", "idle"}, task' \in {task, "none"}, walOpen' \in BOOLEAN,
         wal' \in {wal, << >>}, bak' \in {bak, wal, << >>},
         UNCHANGED <<applyVars, currentLSN, active, reclaim, failed, replayVars,
                     cache, dirty, disk, numData, crashes, hist>>
  PROVE  Inv'
<1>1. UNCHANGED <<cur, pos, oldRid, newRid, base, replayPos, highest>>
  BY DEF applyVars, replayVars
<1>2. /\ wal' \in Seq(LogRecords) /\ bak' \in Seq(LogRecords)
      /\ Intact(wal') /\ Intact(bak')
  <2>1. << >> \in Seq(LogRecords) /\ Intact(<< >>) BY DEF Intact
  <2>2. wal \in Seq(LogRecords) /\ bak \in Seq(LogRecords) /\ Intact(wal) /\ Intact(bak)
    BY DEF Inv, TypeOK
  <2> QED BY <2>1, <2>2
<1>3. TypeOK' BY <1>1, <1>2 DEF Inv, TypeOK
<1>4. AtOperation' /\ ReadSoFar' BY DEF AtOperation, ReadSoFar, Working
<1> QED BY <1>2, <1>3, <1>4 DEF Inv, Unused, Intact

LEMMA RemoveArchiveInv == ASSUME Inv, RemoveArchive PROVE Inv'
BY RotationKeeps DEF RemoveArchive, volatile, applyVars, replayVars, Inv, TypeOK

LEMMA RotateLogInv == ASSUME Inv, RotateLog PROVE Inv'
BY RotationKeeps DEF RotateLog, Inv, TypeOK

LEMMA RotateFailsInv == ASSUME Inv, RotateFails PROVE Inv'
BY RotationKeeps DEF RotateFails, Inv, TypeOK

-----------------------------------------------------------------------------
LEMMA CrashInv == ASSUME Inv, Crash PROVE Inv'
<1>1. crashes' \in 0..MaxCrashes BY EngineAssumption DEF Crash, Inv, TypeOK
<1> QED BY <1>1, PowerOffKeeps DEF Crash, Inv, TypeOK, Unused, Intact

LEMMA CrashInWriteInv == ASSUME Inv, CrashInWrite PROVE Inv'
<1>1. crashes' \in 0..MaxCrashes BY EngineAssumption DEF CrashInWrite, Inv, TypeOK
<1>2. wal' \in Seq(LogRecords) /\ Intact(wal')
  BY AppendIntact, TornRecordType DEF CrashInWrite, Inv, TypeOK
<1> QED BY <1>1, <1>2, PowerOffKeeps DEF CrashInWrite, Inv, TypeOK, Unused

LEMMA StartInv == ASSUME Inv, Start PROVE Inv'
<1>1. HighestLSN(wal) \in 0..MaxLSN /\ HighestLSN(bak) \in 0..MaxLSN
  BY HighestFound DEF Inv, TypeOK
<1>2. disk.ckpt \in Nat /\ disk.active \in DataPages BY DEF Inv, TypeOK, Images
<1>3. OpenLSN(disk.ckpt) \in Nat BY <1>1, <1>2, EngineAssumption DEF OpenLSN
<1>4. TypeOK' BY <1>2, <1>3 DEF Start, Inv, TypeOK, applyVars, fileVars
<1>5. AtOperation' /\ ReadSoFar'
  BY DEF Start, Inv, TypeOK, AtOperation, ReadSoFar, Working, fileVars
<1> QED BY <1>4, <1>5 DEF Start, Inv, Unused, Intact, fileVars

LEMMA SkipRecordInv == ASSUME Inv, SkipRecord PROVE Inv'
<1>1. /\ pc = "replay" /\ task = "replay" /\ replayPos \in 1..Len(wal) /\ ~wal[replayPos].torn
      /\ \A j \in 1..(replayPos - 1) : ~wal[j].torn
  BY DEF SkipRecord, AtRecord, Inv, ReadSoFar, TypeOK
<1>2. UNCHANGED <<pc, task, cur, pos, oldRid, newRid, currentLSN, walOpen, active, reclaim,
                  failed, base, highest, cache, dirty, disk, numData, wal, bak, crashes, hist>>
  BY DEF SkipRecord, applyVars, fileVars
<1>3. replayPos' = replayPos + 1 BY DEF SkipRecord
<1>4. TypeOK' BY <1>2, <1>3 DEF Inv, TypeOK
<1>5. AtOperation' BY <1>1, <1>2 DEF AtOperation, Working
<1>6. ReadSoFar'
  <2>1. replayPos + 1 \in 1..(Len(wal) + 1) BY <1>1
  <2>2. \A j \in 1..replayPos : ~wal[j].torn BY <1>1
  <2> QED BY <1>1, <1>2, <1>3, <2>1, <2>2 DEF ReadSoFar, Working
<1> QED BY <1>2, <1>4, <1>5, <1>6 DEF Inv, Unused, Intact

LEMMA ReplayRecordInv == ASSUME Inv, ReplayRecord PROVE Inv'
<1>1. /\ pc = "replay" /\ task = "replay" /\ replayPos \in 1..Len(wal) /\ ~wal[replayPos].torn
      /\ \A j \in 1..(replayPos - 1) : ~wal[j].torn
  BY DEF ReplayRecord, AtRecord, Inv, ReadSoFar, TypeOK
<1>2. UNCHANGED <<task, oldRid, newRid, currentLSN, walOpen, active, reclaim, failed, base,
                  replayPos, highest, cache, dirty, disk, numData, wal, bak, crashes, hist>>
  BY DEF ReplayRecord, replayVars, fileVars
<1>3. wal[replayPos] \in LogRecords /\ wal[replayPos].ops # << >>
  BY <1>1 DEF Inv, TypeOK, Intact
<1>4. cur' \in Seq(Ops) /\ cur' # << >> /\ pos' = 1 BY <1>3 DEF ReplayRecord, LogRecords
<1>5. pos' \in 1..Len(cur') BY <1>4
<1>6. TypeOK' BY <1>2, <1>4, <1>5 DEF ReplayRecord, Inv, TypeOK
<1>7. AtOperation' BY <1>1, <1>2, <1>5 DEF ReplayRecord, AtOperation
<1>8. ReadSoFar'
  <2>1. replayPos \in Readable(wal) BY <1>1 DEF Readable
  <2> QED BY <1>2, <2>1 DEF ReplayRecord, ReadSoFar, Readable
<1> QED BY <1>2, <1>6, <1>7, <1>8 DEF Inv, Unused, Intact

LEMMA ReplayEndsInv == ASSUME Inv, ReplayEnds PROVE Inv'
<1>1. UNCHANGED <<cur, pos, oldRid, newRid, currentLSN, walOpen, active, reclaim, failed,
                  disk, numData, wal, bak, crashes, hist>>
  BY DEF ReplayEnds, applyVars, fileVars
<1>2. CASE pc' = "idle" /\ task' = "none" /\ base' = 0 /\ replayPos' = 0
           /\ UNCHANGED <<highest, cache, dirty>>
  <2>1. TypeOK' BY <1>1, <1>2 DEF Inv, TypeOK
  <2>2. AtOperation' /\ ReadSoFar' BY <1>2 DEF AtOperation, ReadSoFar, Working
  <2> QED BY <1>1, <1>2, <2>1, <2>2 DEF Inv, Unused, Intact
<1>3. CASE StampMeta(highest, "recovered") /\ UNCHANGED replayVars
  BY <1>3, StampKeeps DEF ReplayEnds, Inv, TypeOK
<1> QED BY <1>2, <1>3 DEF ReplayEnds

LEMMA ReplayFailsInv == ASSUME Inv, ReplayFails PROVE Inv'
BY StampKeeps DEF ReplayFails, Inv, TypeOK

-----------------------------------------------------------------------------
LEMMA NextInv == Inv /\ [Next]_vars => Inv'
<1> SUFFICES ASSUME Inv, [Next]_vars PROVE Inv' OBVIOUS
<1>1. CASE UNCHANGED vars
  <2>1. UNCHANGED <<pc, task, cur, pos, oldRid, newRid, currentLSN, walOpen, active,
                    reclaim, failed, base, replayPos, highest, cache, dirty, disk,
                    numData, wal, bak, crashes, hist>>
    BY <1>1 DEF vars, volatile
  <2>2. TypeOK' BY <2>1 DEF Inv, TypeOK
  <2>3. Unused' /\ AtOperation' /\ ReadSoFar'
    BY <2>1 DEF Inv, Unused, AtOperation, ReadSoFar, Working, Readable
  <2> QED BY <2>1, <2>2, <2>3 DEF Inv, Intact
<1>2. ASSUME NEW r \in Requests, Log(r) \/ LogFails(r) PROVE Inv'
  BY <1>2, LogInv, LogFailsInv
<1>3. CASE InsertTuple BY <1>3, InsertTupleInv
<1>4. CASE IndexKey BY <1>4, IndexKeyInv
<1>5. CASE FreeOld BY <1>5, FreeOldInv
<1>6. CASE DeleteAbsent BY <1>6, DeleteAbsentInv
<1>7. CASE DeleteTuple BY <1>7, DeleteTupleInv
<1>8. CASE Unindex BY <1>8, UnindexInv
<1>9. CASE ApplyFails BY <1>9, ApplyFailsInv
<1>10. CASE StartFlush BY <1>10, StartFlushInv
<1>11. CASE FlushAll BY <1>11, FlushAllInv
<1>12. ASSUME NEW p \in PageIds, FlushPage(p) \/ Evict(p) PROVE Inv'
  BY <1>12, WriteOneKeeps DEF FlushPage, Evict
<1>13. CASE FlushFails BY <1>13, FlushFailsInv
<1>14. CASE RemoveArchive BY <1>14, RemoveArchiveInv
<1>15. CASE RotateLog BY <1>15, RotateLogInv
<1>16. CASE RotateFails BY <1>16, RotateFailsInv
<1>17. CASE Crash BY <1>17, CrashInv
<1>18. CASE CrashInWrite BY <1>18, CrashInWriteInv
<1>19. CASE Start BY <1>19, StartInv
<1>20. CASE SkipRecord BY <1>20, SkipRecordInv
<1>21. CASE ReplayRecord BY <1>21, ReplayRecordInv
<1>22. CASE ReplayEnds BY <1>22, ReplayEndsInv
<1>23. CASE ReplayFails BY <1>23, ReplayFailsInv
<1> QED
  BY <1>1, <1>2, <1>3, <1>4, <1>5, <1>6, <1>7, <1>8, <1>9, <1>10, <1>11, <1>12, <1>13,
     <1>14, <1>15, <1>16, <1>17, <1>18, <1>19, <1>20, <1>21, <1>22, <1>23
  DEF Next

LEMMA SpecInv == Spec => []Inv
BY InitInv, NextInv, PTL DEF Spec

(* Every part of the engine's state has its type: in particular the operation
   at hand is one of the record's, insertTuple finds a slot of a data page, and
   no entry of the leaf leads outside the data pages, whatever fails. *)
THEOREM TypeCorrect == Spec => []TypeOK
BY SpecInv, PTL DEF Inv

-----------------------------------------------------------------------------
(* LSNs.  Every LSN in the log has been assigned. *)
Assigned(log) == \A i \in Readable(log) : log[i].lsn <= currentLSN

(* The covered LSN on disk, the one in memory, and the log's, in this order. *)
CoveredLSNs ==
  /\ disk.ckpt <= cache.ckpt /\ cache.ckpt <= MaxLSN /\ currentLSN <= MaxLSN
  /\ pc = "down" => disk.ckpt = cache.ckpt
  /\ pc # "down" => cache.ckpt <= currentLSN /\ Assigned(wal) /\ Assigned(bak)

(* recoverFromWAL has replayed nothing, or something above the checkpoint. *)
Replaying == pc = "replay" \/ (Working /\ task = "replay")

ReplayedLSNs ==
  Replaying => /\ base = cache.ckpt
               /\ highest = 0 \/ (base < highest /\ highest <= currentLSN)
               /\ Working => base < wal[replayPos].lsn

LSNInv == LogOrdered /\ CoveredLSNs /\ ReplayedLSNs

LEMMA CkptType == ASSUME TypeOK PROVE cache.ckpt \in Nat /\ disk.ckpt \in Nat
BY DEF TypeOK, Images

LEMMA ReadableType ==
  ASSUME NEW log \in Seq(LogRecords), NEW i \in Readable(log)
  PROVE  i \in 1..Len(log) /\ log[i] \in LogRecords /\ log[i].lsn \in Nat
<1>1. i \in 1..Len(log) BY DEF Readable
<1>2. log[i] \in LogRecords BY <1>1
<1> QED BY <1>1, <1>2 DEF LogRecords

(* WAL.Write has appended a record. *)
Appended(log, rec, new) == new = Append(log, rec)

(* DecodeRecord reads a new record unless it, or one before it, is torn. *)
LEMMA ReadableAppend ==
  ASSUME NEW log \in Seq(LogRecords), NEW rec \in LogRecords,
         NEW new, Appended(log, rec, new), NEW i \in Readable(new)
  PROVE  \/ i \in Readable(log) /\ new[i] = log[i]
         \/ i = Len(log) + 1 /\ ~rec.torn /\ new[i] = rec
<1>1. Len(log) \in Nat /\ i \in 1..(Len(log) + 1) /\ \A j \in 1..i : ~new[j].torn
  BY DEF Readable, Appended
<1>2. \A n \in 1..(Len(log) + 1) : new[n] = IF n = Len(log) + 1 THEN rec ELSE log[n]
  BY DEF Appended
<1>3. CASE i = Len(log) + 1
  <2>1. i \in 1..i BY <1>1
  <2> QED BY <1>1, <1>2, <1>3, <2>1
<1>4. CASE i # Len(log) + 1
  <2>1. i \in 1..Len(log) BY <1>1, <1>4
  <2>2. \A j \in 1..i : j \in 1..Len(log) BY <2>1
  <2>3. \A j \in 1..i : ~log[j].torn BY <1>1, <1>2, <2>2
  <2> QED BY <1>2, <2>1, <2>3 DEF Readable
<1> QED BY <1>3, <1>4

-----------------------------------------------------------------------------
LEMMA InitLSN == Init => LSNInv
<1> SUFFICES ASSUME Init PROVE LSNInv OBVIOUS
<1>1. Readable(wal) = {} /\ Readable(bak) = {} BY DEF Init, Readable
<1>2. disk.ckpt = 0 /\ cache.ckpt = 0 BY DEF Init, FreshImage
<1>3. ~Replaying BY DEF Init, Replaying, Working
<1> QED
  BY <1>1, <1>2, <1>3, EngineAssumption
  DEF Init, LSNInv, LogOrdered, CoveredLSNs, Assigned, ReplayedLSNs

(* A record with the next LSN, or a torn one, leaves the log in order. *)
LEMMA AppendOrdered ==
  ASSUME NEW log \in Seq(LogRecords), NEW arch \in Seq(LogRecords), NEW last \in Nat,
         NEW rec \in LogRecords, ~rec.torn => rec.lsn = last + 1,
         \A i, j \in Readable(log) : i < j => log[i].lsn < log[j].lsn,
         \A i \in Readable(arch), j \in Readable(log) : arch[i].lsn < log[j].lsn,
         \A i \in Readable(log) : log[i].lsn <= last,
         \A i \in Readable(arch) : arch[i].lsn <= last,
         NEW new, Appended(log, rec, new)
  PROVE  /\ \A i, j \in Readable(new) : i < j => new[i].lsn < new[j].lsn
         /\ \A i \in Readable(arch), j \in Readable(new) : arch[i].lsn < new[j].lsn
         /\ \A i \in Readable(new) : new[i].lsn <= last + 1
<1>1. \A i \in Readable(log) : i \in 1..Len(log) /\ log[i].lsn \in Nat BY ReadableType
<1>2. \A i \in Readable(arch) : arch[i].lsn \in Nat BY ReadableType
<1>3. \A i \in Readable(new) :
        \/ i \in Readable(log) /\ new[i] = log[i]
        \/ i = Len(log) + 1 /\ ~rec.torn /\ new[i] = rec
  BY ReadableAppend
<1>4. \A i \in Readable(new) :
        \/ i \in Readable(log) /\ new[i].lsn = log[i].lsn
        \/ i = Len(log) + 1 /\ new[i].lsn = last + 1
  BY <1>3
<1>5. Len(log) \in Nat OBVIOUS
<1>6. ASSUME NEW i \in Readable(new), NEW j \in Readable(new), i < j
      PROVE  new[i].lsn < new[j].lsn
  <2>1. i \in Readable(log) /\ new[i].lsn = log[i].lsn BY <1>1, <1>4, <1>5, <1>6
  <2>2. CASE j \in Readable(log) /\ new[j].lsn = log[j].lsn BY <1>6, <2>1, <2>2
  <2>3. CASE new[j].lsn = last + 1 BY <1>1, <2>1, <2>3
  <2> QED BY <1>4, <2>2, <2>3
<1>7. ASSUME NEW i \in Readable(arch), NEW j \in Readable(new) PROVE arch[i].lsn < new[j].lsn
  <2>1. CASE j \in Readable(log) /\ new[j].lsn = log[j].lsn BY <2>1
  <2>2. CASE new[j].lsn = last + 1 BY <1>2, <2>2
  <2> QED BY <1>4, <2>1, <2>2
<1>8. \A i \in Readable(new) : new[i].lsn <= last + 1 BY <1>1, <1>4
<1> QED BY <1>6, <1>7, <1>8

(* WAL.Write, whether it fails or not. *)
LEMMA WriteLSNs ==
  ASSUME Inv, LSNInv, NEW rec \in LogRecords, ~rec.torn => rec.lsn = currentLSN + 1,
         wal' = wal \/ Appended(wal, rec, wal'), currentLSN' = currentLSN + 1,
         currentLSN + 1 <= MaxLSN, pc # "down", pc' # "down", ~Replaying',
         UNCHANGED <<bak, cache, disk>>
  PROVE  LSNInv'
<1>1. /\ wal \in Seq(LogRecords) /\ bak \in Seq(LogRecords) /\ currentLSN \in Nat
      /\ cache.ckpt \in Nat /\ disk.ckpt \in Nat /\ MaxLSN \in Nat
  BY CkptType, EngineAssumption DEF Inv, TypeOK
<1>2. /\ \A i, j \in Readable(wal) : i < j => wal[i].lsn < wal[j].lsn
      /\ \A i \in Readable(bak), j \in Readable(wal) : bak[i].lsn < wal[j].lsn
      /\ \A i \in Readable(wal) : wal[i].lsn <= currentLSN
      /\ \A i \in Readable(bak) : bak[i].lsn <= currentLSN
  BY DEF LSNInv, LogOrdered, CoveredLSNs, Assigned
<1>3. /\ \A i, j \in Readable(wal') : i < j => wal'[i].lsn < wal'[j].lsn
      /\ \A i \in Readable(bak), j \in Readable(wal') : bak[i].lsn < wal'[j].lsn
      /\ \A i \in Readable(wal') : wal'[i].lsn <= currentLSN + 1
  <2>1. CASE wal' = wal
    <3>1. \A i \in Readable(wal) : wal[i].lsn \in Nat BY <1>1, ReadableType
    <3>2. \A i \in Readable(wal) : wal[i].lsn <= currentLSN + 1 BY <1>1, <1>2, <3>1
    <3> QED BY <1>2, <2>1, <3>2
  <2>2. CASE Appended(wal, rec, wal') BY <1>1, <1>2, <2>2, AppendOrdered
  <2> QED BY <2>1, <2>2
<1>4. \A i \in Readable(bak) : bak[i].lsn <= currentLSN + 1
  <2>1. \A i \in Readable(bak) : bak[i].lsn \in Nat BY <1>1, ReadableType
  <2> QED BY <1>1, <1>2, <2>1
<1>5. LogOrdered' BY <1>3 DEF LogOrdered
<1>6. Assigned(wal)' /\ Assigned(bak)' BY <1>3, <1>4 DEF Assigned
<1>7. cache.ckpt <= currentLSN + 1 BY <1>1 DEF LSNInv, CoveredLSNs
<1>8. CoveredLSNs' BY <1>6, <1>7 DEF LSNInv, CoveredLSNs
<1> QED BY <1>5, <1>8 DEF LSNInv, ReplayedLSNs

(* The process ends: the LSN covered on disk is the one the next process has. *)
LEMMA PowerOffLSNs ==
  ASSUME PowerOff(disk'), disk'.ckpt \in Nat, disk'.ckpt <= MaxLSN, LogOrdered'
  PROVE  LSNInv'
<1>1. pc' = "down" /\ cache' = disk' /\ currentLSN' = 0 BY DEF PowerOff
<1>2. ~Replaying' BY <1>1 DEF Replaying, Working
<1>3. CoveredLSNs'
  <2>1. disk'.ckpt <= disk'.ckpt OBVIOUS
  <2>2. 0 <= MaxLSN BY EngineAssumption
  <2> QED BY <1>1, <2>1, <2>2 DEF CoveredLSNs
<1> QED BY <1>2, <1>3 DEF LSNInv, ReplayedLSNs

(* updateMeta with an LSN between the covered one and the last one. *)
LEMMA StampLSNs ==
  ASSUME Inv, LSNInv, NEW n \in Nat, NEW why, StampMeta(n, why), pc # "down",
         cache.ckpt <= n, n <= currentLSN, UNCHANGED <<currentLSN, wal, bak, disk>>
  PROVE  LSNInv'
<1>1. cache' = [cache EXCEPT !.ckpt = n, !.active = active] /\ pc' = "flush" BY DEF StampMeta
<1>2. cache'.ckpt = n BY <1>1 DEF Inv, TypeOK, Images
<1>3. /\ currentLSN \in Nat /\ cache.ckpt \in Nat /\ disk.ckpt \in Nat /\ MaxLSN \in Nat
  BY CkptType, EngineAssumption DEF Inv, TypeOK
<1>4. disk.ckpt <= n /\ n <= MaxLSN BY <1>3 DEF LSNInv, CoveredLSNs
<1>5. LogOrdered' BY DEF LSNInv, LogOrdered, Readable
<1>6. Assigned(wal)' /\ Assigned(bak)' BY DEF LSNInv, CoveredLSNs, Assigned, Readable
<1>7. CoveredLSNs' BY <1>1, <1>2, <1>4, <1>6 DEF LSNInv, CoveredLSNs
<1>8. ~Replaying' BY <1>1 DEF Replaying, Working
<1> QED BY <1>5, <1>7, <1>8 DEF LSNInv, ReplayedLSNs

(* Steps that neither log, nor write pages, nor read the next record. *)
LEMMA ApplyLSNs ==
  ASSUME Inv, LSNInv, pc # "down", pc' # "down", cache'.ckpt = cache.ckpt,
         Replaying' => Replaying /\ (Working' => Working),
         UNCHANGED <<currentLSN, wal, bak, disk, base, highest, replayPos>>
  PROVE  LSNInv'
<1>1. LogOrdered' BY DEF LSNInv, LogOrdered, Readable
<1>2. Assigned(wal)' /\ Assigned(bak)' BY DEF LSNInv, CoveredLSNs, Assigned, Readable
<1>3. CoveredLSNs' BY <1>2 DEF LSNInv, CoveredLSNs
<1>4. ReplayedLSNs' BY DEF LSNInv, ReplayedLSNs
<1> QED BY <1>1, <1>3, <1>4 DEF LSNInv

(* WritePages: the meta page is written or it is not. *)
LEMMA CkptWritten ==
  ASSUME NEW S PROVE WritePages(S).ckpt \in {disk.ckpt, cache.ckpt}
BY DEF WritePages

LEMMA PagesLSNs ==
  ASSUME Inv, LSNInv, NEW S, disk' = WritePages(S), pc # "down", pc' # "down",
         Replaying' => Replaying /\ UNCHANGED <<pc, base, highest, replayPos>>,
         UNCHANGED <<currentLSN, wal, bak, cache>>
  PROVE  LSNInv'
<1>1. cache.ckpt \in Nat /\ disk'.ckpt \in {disk.ckpt, cache.ckpt}
  BY CkptType, CkptWritten DEF Inv
<1>2. disk'.ckpt <= cache.ckpt BY <1>1 DEF LSNInv, CoveredLSNs
<1>3. LogOrdered' BY DEF LSNInv, LogOrdered, Readable
<1>4. Assigned(wal)' /\ Assigned(bak)' BY DEF LSNInv, CoveredLSNs, Assigned, Readable
<1>5. CoveredLSNs' BY <1>2, <1>4 DEF LSNInv, CoveredLSNs
<1>6. ReplayedLSNs' BY DEF LSNInv, ReplayedLSNs, Working
<1> QED BY <1>3, <1>5, <1>6 DEF LSNInv

(* The log becomes the archive, or the archive is removed. *)
LEMMA RotationLSNs ==
  ASSUME Inv, LSNInv,
         \/ wal' = wal /\ bak' \in {bak, << >>}
         \/ wal' = << >> /\ bak' = wal,
         pc # "down", pc' \in {"rename", "idle"}, UNCHANGED <<currentLSN, cache, disk>>
  PROVE  LSNInv'
<1>1. ~Replaying' BY DEF Replaying, Working
<1>2. Readable(<< >>) = {} BY DEF Readable
<1>3. LogOrdered' /\ Assigned(wal)' /\ Assigned(bak)'
  <2>1. CASE wal' = wal /\ bak' = bak
    BY <2>1 DEF LSNInv, LogOrdered, CoveredLSNs, Assigned, Readable
  <2>2. CASE wal' = wal /\ bak' = << >>
    BY <1>2, <2>2 DEF LSNInv, LogOrdered, CoveredLSNs, Assigned
  <2>3. CASE wal' = << >> /\ bak' = wal
    BY <1>2, <2>3 DEF LSNInv, LogOrdered, CoveredLSNs, Assigned
  <2> QED BY <2>1, <2>2, <2>3
<1>4. CoveredLSNs' BY <1>3 DEF LSNInv, CoveredLSNs
<1> QED BY <1>1, <1>3, <1>4 DEF LSNInv, ReplayedLSNs

(* An operation ends; if it was the last one of a record being replayed, the
   record counts as replayed. *)
LEMMA OpDoneLSNs ==
  ASSUME Inv, LSNInv, Working, OpDone, cache'.ckpt = cache.ckpt,
         UNCHANGED <<currentLSN, wal, bak, disk, base>>
  PROVE  LSNInv'
<1>1. /\ task \in {"client", "replay"} /\ pc # "down"
      /\ task = "replay" => replayPos \in Readable(wal)
  BY DEF Inv, AtOperation, ReadSoFar, Working
<1>2. CASE UNCHANGED <<task, replayPos, highest>> /\ pc' = "apply"
  <2>1. Replaying' => Replaying /\ (Working' => Working)
    BY <1>2 DEF Replaying, Working
  <2> QED BY <1>1, <1>2, <2>1, ApplyLSNs
<1>3. CASE UNCHANGED <<replayPos, highest>> /\ pc' = "idle"
  <2>1. ~Replaying' BY <1>3 DEF Replaying, Working
  <2> QED BY <1>1, <1>3, <2>1, ApplyLSNs
<1>4. CASE /\ task = "replay" /\ pc' = "replay"
           /\ highest' = (IF wal[replayPos].lsn > highest THEN wal[replayPos].lsn ELSE highest)
  <2>1. replayPos \in Readable(wal) /\ Replaying BY <1>1, <1>4 DEF Replaying
  <2>2. /\ wal[replayPos].lsn \in Nat /\ wal[replayPos].lsn <= currentLSN
        /\ base < wal[replayPos].lsn
    BY <1>1, <2>1, ReadableType
    DEF Inv, TypeOK, LSNInv, CoveredLSNs, Assigned, ReplayedLSNs
  <2>3. /\ base = cache.ckpt /\ base \in Nat /\ highest \in Nat
        /\ highest = 0 \/ (base < highest /\ highest <= currentLSN)
    BY <2>1 DEF Inv, TypeOK, LSNInv, ReplayedLSNs
  <2>4. highest' = 0 \/ (base < highest' /\ highest' <= currentLSN)
    BY <1>4, <2>2, <2>3
  <2>5. ReplayedLSNs' BY <1>4, <2>3, <2>4 DEF ReplayedLSNs, Working
  <2>6. LogOrdered' BY DEF LSNInv, LogOrdered, Readable
  <2>7. Assigned(wal)' /\ Assigned(bak)' BY <1>1 DEF LSNInv, CoveredLSNs, Assigned, Readable
  <2>8. CoveredLSNs' BY <1>1, <1>4, <2>7 DEF LSNInv, CoveredLSNs
  <2> QED BY <2>5, <2>6, <2>8 DEF LSNInv
<1> QED BY <1>1, <1>2, <1>3, <1>4 DEF OpDone

(* OpenWAL and SetCurrentLSN find the last LSN that was assigned and kept. *)
LEMMA StartLSNs == ASSUME Inv, LSNInv, Start PROVE LSNInv'
<1>1. /\ wal \in Seq(LogRecords) /\ bak \in Seq(LogRecords) /\ MaxLSN \in Nat
      /\ disk.ckpt \in Nat /\ pc = "down" /\ disk.ckpt = cache.ckpt /\ disk.ckpt <= MaxLSN
  BY CkptType, EngineAssumption DEF Start, Inv, TypeOK, LSNInv, CoveredLSNs
<1>2. /\ HighestLSN(wal) \in 0..MaxLSN
      /\ \A i \in Readable(wal) : wal[i].lsn <= HighestLSN(wal)
      /\ HighestLSN(wal) = 0 => Readable(wal) = {}
  BY <1>1, HighestFound DEF Inv
<1>3. /\ HighestLSN(bak) \in 0..MaxLSN
      /\ \A i \in Readable(bak) : bak[i].lsn <= HighestLSN(bak)
  BY <1>1, HighestFound DEF Inv
<1> DEFINE last == OpenLSN(disk.ckpt)
<1>4. last \in 0..MaxLSN /\ disk.ckpt <= last BY <1>1, <1>2, <1>3 DEF OpenLSN
<1>5. \A i \in Readable(wal) : wal[i].lsn \in Nat /\ wal[i].lsn <= last
  <2> TAKE i \in Readable(wal)
  <2>1. wal[i].lsn \in Nat BY <1>1, ReadableType
  <2>2. HighestLSN(wal) # 0 /\ wal[i].lsn <= HighestLSN(wal) BY <1>2
  <2>3. HighestLSN(wal) <= last BY <1>1, <1>2, <2>2 DEF OpenLSN
  <2> QED BY <1>2, <1>4, <2>1, <2>2, <2>3
<1>6. \A i \in Readable(bak) : bak[i].lsn \in Nat /\ bak[i].lsn <= last
  <2> TAKE i \in Readable(bak)
  <2>1. bak[i].lsn \in Nat BY <1>1, ReadableType
  <2>2. CASE HighestLSN(wal) = 0
    <3>1. HighestLSN(bak) <= last BY <1>1, <1>3, <2>2 DEF OpenLSN
    <3> QED BY <1>3, <1>4, <2>1, <3>1
  <2>3. CASE HighestLSN(wal) # 0
    <3>1. PICK j \in Readable(wal) : TRUE
      <4>1. LSNs(wal) # {} BY <2>3 DEF HighestLSN
      <4> QED BY <4>1 DEF LSNs
    <3>2. bak[i].lsn < wal[j].lsn BY DEF LSNInv, LogOrdered
    <3>3. wal[j].lsn \in Nat /\ wal[j].lsn <= last BY <1>5
    <3> QED BY <1>4, <2>1, <3>2, <3>3
  <2> QED BY <2>2, <2>3
<1>7. currentLSN' = last /\ UNCHANGED <<wal, bak, disk, cache>> /\ pc' = "replay"
      /\ base' = disk.ckpt /\ highest' = 0
  BY DEF Start, fileVars
<1>8. LogOrdered' BY <1>7 DEF LSNInv, LogOrdered, Readable
<1>9. Assigned(wal)' /\ Assigned(bak)' BY <1>5, <1>6, <1>7 DEF Assigned, Readable
<1>10. CoveredLSNs' BY <1>1, <1>4, <1>7, <1>9 DEF CoveredLSNs
<1>11. ReplayedLSNs' BY <1>1, <1>7 DEF ReplayedLSNs, Working
<1> QED BY <1>8, <1>10, <1>11 DEF LSNInv

-----------------------------------------------------------------------------
(* One lemma per action that touches an LSN or the state of a recovery. *)
LEMMA LogLSNs == ASSUME Inv, LSNInv, NEW r \in Requests, Log(r) PROVE LSNInv'
<1> DEFINE rec == Record(currentLSN + 1, r.ops)
<1>1. rec \in LogRecords /\ ~rec.torn /\ rec.lsn = currentLSN + 1
  BY RequestRecord DEF Inv, Log
<1>2. currentLSN + 1 <= MaxLSN BY EngineAssumption DEF Log, CanWrite, Inv, TypeOK
<1>3. Appended(wal, rec, wal') BY DEF Log, Appended
<1>4. pc # "down" /\ pc' # "down" /\ ~Replaying' BY DEF Log, CanWrite, Replaying, Working
<1> HIDE DEF rec
<1> QED BY <1>1, <1>2, <1>3, <1>4, WriteLSNs DEF Log

LEMMA LogFailsLSNs == ASSUME Inv, LSNInv, NEW r \in Requests, LogFails(r) PROVE LSNInv'
<1> DEFINE rec == Record(currentLSN + 1, r.ops)
<1>1. rec \in LogRecords /\ ~rec.torn /\ rec.lsn = currentLSN + 1
  BY RequestRecord DEF Inv, LogFails
<1>2. currentLSN + 1 <= MaxLSN BY EngineAssumption DEF LogFails, CanWrite, Inv, TypeOK
<1>3. wal' = wal \/ Appended(wal, rec, wal') \/ Appended(wal, TornRecord, wal')
  BY DEF LogFails, Appended
<1>4. pc # "down" /\ pc' # "down" /\ ~Replaying' BY DEF LogFails, CanWrite, Replaying, Working
<1>5. UNCHANGED <<bak, cache, disk>> /\ currentLSN' = currentLSN + 1 BY DEF LogFails
<1> HIDE DEF rec
<1>6. CASE wal' = wal \/ Appended(wal, rec, wal')
  BY <1>1, <1>2, <1>4, <1>5, <1>6, WriteLSNs
<1>7. CASE Appended(wal, TornRecord, wal')
  BY <1>2, <1>4, <1>5, <1>7, WriteLSNs, TornRecordType
<1> QED BY <1>3, <1>6, <1>7

LEMMA InsertTupleLSNs == ASSUME Inv, LSNInv, InsertTuple PROVE LSNInv'
<1>1. cache'.ckpt = cache.ckpt BY DEF InsertTuple, Inv, TypeOK, Images
<1>2. Replaying' => Replaying /\ (Working' => Working)
  BY DEF InsertTuple, Replaying, Working
<1> QED BY <1>1, <1>2, ApplyLSNs DEF InsertTuple, replayVars

LEMMA LeafLSNs ==
  ASSUME Inv, NEW k, NEW rid, cache' = [cache EXCEPT !.leaf[k] = rid]
  PROVE  cache'.ckpt = cache.ckpt
BY DEF Inv, TypeOK, Images

LEMMA IndexKeyLSNs == ASSUME Inv, LSNInv, IndexKey PROVE LSNInv'
<1>1. cache'.ckpt = cache.ckpt /\ Working /\ pc # "down"
  BY LeafLSNs DEF IndexKey, Working
<1>2. UNCHANGED <<currentLSN, wal, bak, disk, base>> BY DEF IndexKey, fileVars
<1>3. CASE pc' = "free" /\ UNCHANGED <<task, replayPos, highest>>
  <2>1. Replaying' => Replaying /\ (Working' => Working) BY <1>1, <1>3 DEF Replaying
  <2> QED BY <1>1, <1>2, <1>3, <2>1, ApplyLSNs
<1>4. CASE OpDone BY <1>1, <1>2, <1>4, OpDoneLSNs
<1> QED BY <1>3, <1>4 DEF IndexKey

LEMMA DeleteLSNs ==
  ASSUME Inv, LSNInv, FreeOld \/ DeleteAbsent \/ Unindex PROVE LSNInv'
<1>1. Working /\ OpDone /\ UNCHANGED <<currentLSN, wal, bak, disk, base>>
  BY DEF FreeOld, DeleteAbsent, Unindex, Working, fileVars
<1>2. cache'.ckpt = cache.ckpt
  <2>1. CASE FreeOld
    BY <2>1, FreeTupleKeeps DEF Inv, FreeOld, AtOperation, fileVars
  <2>2. CASE DeleteAbsent BY <2>2 DEF DeleteAbsent
  <2>3. CASE Unindex BY <2>3, LeafLSNs DEF Unindex
  <2> QED BY <2>1, <2>2, <2>3
<1> QED BY <1>1, <1>2, OpDoneLSNs

LEMMA DeleteTupleLSNs == ASSUME Inv, LSNInv, DeleteTuple PROVE LSNInv'
<1>1. Working /\ pc # "down" /\ pc' # "down" BY DEF DeleteTuple, Working
<1>2. cache.leaf[Op.key] \in RIDs BY <1>1, OpType DEF DeleteTuple, Inv, TypeOK, Images
<1>3. UNCHANGED <<task, currentLSN, wal, bak, disk, numData, base, highest, replayPos>>
  BY DEF DeleteTuple, replayVars, fileVars
<1>4. cache'.ckpt = cache.ckpt BY <1>2, <1>3, FreeTupleKeeps DEF Inv, DeleteTuple
<1>5. Replaying' => Replaying /\ (Working' => Working)
  BY <1>1, <1>3 DEF DeleteTuple, Replaying, Working
<1> QED BY <1>1, <1>3, <1>4, <1>5, ApplyLSNs

LEMMA ApplyFailsLSNs == ASSUME Inv, LSNInv, ApplyFails PROVE LSNInv'
<1>1. ~Replaying' /\ pc # "down" /\ pc' # "down"
  BY DEF ApplyFails, Applying, Replaying, Working
<1> QED BY <1>1, ApplyLSNs DEF ApplyFails, replayVars, fileVars

LEMMA StampActionLSNs ==
  ASSUME Inv, LSNInv, NEW why, StampMeta(currentLSN, why), pc # "down",
         UNCHANGED <<currentLSN, wal, bak, disk>>
  PROVE  LSNInv'
<1>1. currentLSN \in Nat /\ cache.ckpt <= currentLSN BY DEF Inv, TypeOK, LSNInv, CoveredLSNs
<1>2. currentLSN <= currentLSN BY <1>1
<1> QED BY <1>1, <1>2, StampLSNs

LEMMA ReplayEndsLSNs == ASSUME Inv, LSNInv, ReplayEnds PROVE LSNInv'
<1>1. pc = "replay" /\ Replaying BY DEF ReplayEnds, Replaying
<1>2. UNCHANGED <<currentLSN, wal, bak, disk>> BY DEF ReplayEnds, fileVars
<1>3. CASE pc' = "idle" /\ UNCHANGED cache
  <2>1. ~Replaying' BY <1>3 DEF Replaying, Working
  <2>2. LogOrdered' BY <1>2 DEF LSNInv, LogOrdered, Readable
  <2>3. Assigned(wal)' /\ Assigned(bak)'
    BY <1>1, <1>2 DEF LSNInv, CoveredLSNs, Assigned, Readable
  <2>4. CoveredLSNs' BY <1>1, <1>2, <1>3, <2>3 DEF LSNInv, CoveredLSNs
  <2> QED BY <2>1, <2>2, <2>4 DEF LSNInv, ReplayedLSNs
<1>4. CASE highest # 0 /\ StampMeta(highest, "recovered")
  <2>1. /\ cache.ckpt < highest /\ highest <= currentLSN /\ highest \in Nat /\ cache.ckpt \in Nat
    BY <1>1, <1>4, CkptType DEF Inv, TypeOK, LSNInv, ReplayedLSNs
  <2>2. cache.ckpt <= highest BY <2>1
  <2> QED BY <1>1, <1>2, <1>4, <2>1, <2>2, StampLSNs
<1> QED BY <1>3, <1>4 DEF ReplayEnds

LEMMA FlushAllLSNs == ASSUME Inv, LSNInv, FlushAll PROVE LSNInv'
<1>1. disk' = WritePages(dirty) /\ pc # "down" /\ UNCHANGED <<wal, bak>> BY DEF FlushAll
<1>2. CASE PowerOff(disk')
  <2>1. /\ cache.ckpt \in Nat /\ disk.ckpt \in Nat /\ MaxLSN \in Nat
        /\ disk'.ckpt \in {disk.ckpt, cache.ckpt}
    BY <1>1, CkptType, CkptWritten, EngineAssumption DEF Inv
  <2>2. disk'.ckpt \in Nat /\ disk'.ckpt <= MaxLSN BY <2>1 DEF LSNInv, CoveredLSNs
  <2>3. LogOrdered' BY <1>1 DEF LSNInv, LogOrdered, Readable
  <2> QED BY <1>2, <2>2, <2>3, PowerOffLSNs
<1>3. CASE pc' \in {"remove", "idle"} /\ UNCHANGED <<currentLSN, cache>>
  <2>1. ~Replaying' BY <1>3 DEF Replaying, Working
  <2> QED BY <1>1, <1>3, <2>1, PagesLSNs
<1> QED BY <1>2, <1>3 DEF FlushAll

LEMMA WriteOneLSNs ==
  ASSUME Inv, LSNInv, NEW p \in PageIds, FlushPage(p) \/ Evict(p) PROVE LSNInv'
<1>1. /\ disk' = WritePages({p}) /\ pc # "down"
      /\ UNCHANGED <<pc, task, base, highest, replayPos, currentLSN, wal, bak, cache>>
  BY DEF FlushPage, Evict, volatile
<1>2. Replaying' => Replaying /\ UNCHANGED <<pc, base, highest, replayPos>>
  BY <1>1 DEF Replaying, Working
<1> QED BY <1>1, <1>2, PagesLSNs

LEMMA CrashLSNs == ASSUME Inv, LSNInv, Crash \/ CrashInWrite PROVE LSNInv'
<1>1. PowerOff(disk') /\ disk' = disk /\ bak' = bak BY DEF Crash, CrashInWrite
<1>2. /\ cache.ckpt \in Nat /\ disk.ckpt \in Nat /\ MaxLSN \in Nat
      /\ wal \in Seq(LogRecords) /\ bak \in Seq(LogRecords) /\ currentLSN \in Nat
  BY CkptType, EngineAssumption DEF Inv, TypeOK
<1>3. disk.ckpt <= MaxLSN BY <1>2 DEF LSNInv, CoveredLSNs
<1>4. LogOrdered'
  <2>1. CASE wal' = wal BY <1>1, <2>1 DEF LSNInv, LogOrdered, Readable
  <2>2. CASE CrashInWrite
    <3>1. Appended(wal, TornRecord, wal') /\ pc # "down" BY <2>2 DEF CrashInWrite, Appended
    <3>2. /\ \A i, j \in Readable(wal) : i < j => wal[i].lsn < wal[j].lsn
          /\ \A i \in Readable(bak), j \in Readable(wal) : bak[i].lsn < wal[j].lsn
          /\ \A i \in Readable(wal) : wal[i].lsn <= currentLSN
          /\ \A i \in Readable(bak) : bak[i].lsn <= currentLSN
      BY <3>1 DEF LSNInv, LogOrdered, CoveredLSNs, Assigned
    <3>3. /\ \A i, j \in Readable(wal') : i < j => wal'[i].lsn < wal'[j].lsn
          /\ \A i \in Readable(bak), j \in Readable(wal') : bak[i].lsn < wal'[j].lsn
      BY <1>2, <3>1, <3>2, TornRecordType, AppendOrdered
    <3> QED BY <1>1, <3>3 DEF LogOrdered
  <2> QED BY <2>1, <2>2 DEF Crash
<1> QED BY <1>1, <1>2, <1>3, <1>4, PowerOffLSNs

LEMMA FlushFailsLSNs == ASSUME Inv, LSNInv, FlushFails PROVE LSNInv'
<1>1. pc = "flush" /\ pc # "down" /\ UNCHANGED <<wal, bak, disk>>
  BY DEF FlushFails, fileVars
<1>2. CASE pc' = "idle" /\ UNCHANGED <<currentLSN, replayVars, cache>>
  <2>1. ~Replaying' BY <1>2 DEF Replaying, Working
  <2> QED BY <1>1, <1>2, <2>1, ApplyLSNs DEF replayVars
<1>3. CASE PowerOff(disk)
  <2>1. disk.ckpt \in Nat /\ cache.ckpt \in Nat /\ MaxLSN \in Nat
    BY CkptType, EngineAssumption DEF Inv
  <2>2. PowerOff(disk') /\ disk'.ckpt \in Nat /\ disk'.ckpt <= MaxLSN
    BY <1>1, <1>3, <2>1 DEF LSNInv, CoveredLSNs
  <2>3. LogOrdered' BY <1>1 DEF LSNInv, LogOrdered, Readable
  <2> QED BY <2>2, <2>3, PowerOffLSNs
<1>4. CASE StampMeta(currentLSN, "close") /\ UNCHANGED currentLSN
  BY <1>1, <1>4, StampActionLSNs
<1> QED BY <1>2, <1>3, <1>4 DEF FlushFails

LEMMA RotateLSNs ==
  ASSUME Inv, LSNInv, RemoveArchive \/ RotateLog \/ RotateFails PROVE LSNInv'
<1>1. /\ \/ wal' = wal /\ bak' \in {bak, << >>}
         \/ wal' = << >> /\ bak' = wal
      /\ pc # "down" /\ pc' \in {"rename", "idle"} /\ UNCHANGED <<currentLSN, cache, disk>>
  BY DEF RemoveArchive, RotateLog, RotateFails, volatile
<1> QED BY <1>1, RotationLSNs

LEMMA ReplayLSNs == ASSUME Inv, LSNInv, SkipRecord \/ ReplayRecord PROVE LSNInv'
<1>1. /\ pc = "replay" /\ Replaying /\ pc' \in {"replay", "apply"}
      /\ UNCHANGED <<currentLSN, wal, bak, disk, cache, base, highest>>
  BY DEF SkipRecord, ReplayRecord, AtRecord, Replaying, replayVars, fileVars
<1>2. LogOrdered' BY <1>1 DEF LSNInv, LogOrdered, Readable
<1>3. Assigned(wal)' /\ Assigned(bak)'
  BY <1>1 DEF LSNInv, CoveredLSNs, Assigned, Readable
<1>4. CoveredLSNs' BY <1>1, <1>3 DEF LSNInv, CoveredLSNs
<1>5. Working' => base < wal[replayPos].lsn /\ UNCHANGED replayPos
  BY DEF SkipRecord, ReplayRecord, AtRecord, Working, replayVars
<1>6. ReplayedLSNs' BY <1>1, <1>5 DEF LSNInv, ReplayedLSNs
<1> QED BY <1>2, <1>4, <1>6 DEF LSNInv

LEMMA UnchangedLSNs == ASSUME LSNInv, UNCHANGED vars PROVE LSNInv'
<1>1. UNCHANGED <<pc, task, currentLSN, base, replayPos, highest, cache, disk, wal, bak>>
  BY DEF vars, volatile
<1>2. LogOrdered' BY <1>1 DEF LSNInv, LogOrdered, Readable
<1>3. CoveredLSNs' BY <1>1 DEF LSNInv, CoveredLSNs, Assigned, Readable
<1>4. ReplayedLSNs' BY <1>1 DEF LSNInv, ReplayedLSNs, Replaying, Working
<1> QED BY <1>2, <1>3, <1>4 DEF LSNInv

LEMMA NextLSN == Inv /\ LSNInv /\ [Next]_vars => LSNInv'
<1> SUFFICES ASSUME Inv, LSNInv, [Next]_vars PROVE LSNInv' OBVIOUS
<1>1. CASE \E r \in Requests : Log(r) \/ LogFails(r) BY <1>1, LogLSNs, LogFailsLSNs
<1>2. CASE InsertTuple \/ IndexKey BY <1>2, InsertTupleLSNs, IndexKeyLSNs
<1>3. CASE FreeOld \/ DeleteAbsent \/ Unindex BY <1>3, DeleteLSNs
<1>4. CASE DeleteTuple \/ ApplyFails BY <1>4, DeleteTupleLSNs, ApplyFailsLSNs
<1>5. CASE StartFlush
  <2>1. PICK why \in {"checkpoint", "snapshot", "close"} : StampMeta(currentLSN, why)
    BY <1>5 DEF StartFlush
  <2>2. pc # "down" /\ UNCHANGED <<currentLSN, wal, bak, disk>>
    BY <1>5 DEF StartFlush, fileVars
  <2> QED BY <2>1, <2>2, StampActionLSNs
<1>6. CASE FlushAll \/ FlushFails BY <1>6, FlushAllLSNs, FlushFailsLSNs
<1>7. CASE \E p \in PageIds : FlushPage(p) \/ Evict(p) BY <1>7, WriteOneLSNs
<1>8. CASE RemoveArchive \/ RotateLog \/ RotateFails BY <1>8, RotateLSNs
<1>9. CASE Crash \/ CrashInWrite \/ Start BY <1>9, CrashLSNs, StartLSNs
<1>10. CASE SkipRecord \/ ReplayRecord \/ ReplayEnds BY <1>10, ReplayLSNs, ReplayEndsLSNs
<1>11. CASE ReplayFails
  <2>1. StampMeta(currentLSN, "close") /\ pc # "down" /\ UNCHANGED <<currentLSN, wal, bak, disk>>
    BY <1>11 DEF ReplayFails, Applying, fileVars
  <2> QED BY <2>1, StampActionLSNs
<1>12. CASE UNCHANGED vars BY <1>12, UnchangedLSNs
<1> QED
  BY <1>1, <1>2, <1>3, <1>4, <1>5, <1>6, <1>7, <1>8, <1>9, <1>10, <1>11, <1>12 DEF Next

LEMMA SpecLSN == Spec => []LSNInv
<1>1. Spec => []Inv BY SpecInv
<1>2. Init => LSNInv BY InitLSN
<1>3. Inv /\ LSNInv /\ [Next]_vars => LSNInv' BY NextLSN
<1> QED BY <1>1, <1>2, <1>3, PTL DEF Spec

(* In every execution, whatever fails and whenever the process dies, the LSNs
   that DecodeRecord can read grow strictly along the archived log and the log:
   WAL.Write numbers on from OpenWAL and SetCurrentLSN, across any number of
   rotations (WAL.Checkpoint) and restarts. *)
THEOREM LogStaysOrdered == Spec => []LogOrdered
<1>1. LSNInv => LogOrdered BY DEF LSNInv
<1> QED BY <1>1, SpecLSN, PTL

-----------------------------------------------------------------------------
(* The actions that append a record to the log. *)
LEMMA AppendFresh ==
  ASSUME Inv, LSNInv, pc # "down", NEW rec \in LogRecords,
         ~rec.torn => rec.lsn = currentLSN + 1, Appended(wal, rec, wal'),
         NEW n \in 1..Len(wal'), n > Len(wal), ~wal'[n].torn
  PROVE  wal'[n].lsn > disk.ckpt
<1>1. /\ wal \in Seq(LogRecords) /\ currentLSN \in Nat
      /\ cache.ckpt \in Nat /\ disk.ckpt \in Nat
  BY CkptType DEF Inv, TypeOK
<1>2. Len(wal') = Len(wal) + 1 /\ wal'[Len(wal) + 1] = rec BY <1>1 DEF Appended
<1>3. n = Len(wal) + 1 BY <1>1, <1>2
<1>4. disk.ckpt <= cache.ckpt /\ cache.ckpt <= currentLSN BY DEF LSNInv, CoveredLSNs
<1>5. wal'[n].lsn = currentLSN + 1 BY <1>2, <1>3
<1> QED BY <1>1, <1>4, <1>5

LEMMA FreshStep ==
  ASSUME Inv, LSNInv, [Next]_vars, NEW n \in 1..Len(wal'), n > Len(wal), ~wal'[n].torn
  PROVE  wal'[n].lsn > disk.ckpt
<1>1. CASE \E r \in Requests : Log(r) \/ LogFails(r)
  <2>1. PICK r \in Requests : Log(r) \/ LogFails(r) BY <1>1
  <2> DEFINE rec == Record(currentLSN + 1, r.ops)
  <2>2. rec \in LogRecords /\ rec.lsn = currentLSN + 1
    BY <2>1, RequestRecord DEF Inv, Log, LogFails
  <2>3. pc # "down" BY <2>1 DEF Log, LogFails, CanWrite
  <2>4. wal' = wal \/ Appended(wal, rec, wal') \/ Appended(wal, TornRecord, wal')
    BY <2>1 DEF Log, LogFails, Appended
  <2>5. wal' # wal BY DEF Inv, TypeOK
  <2> HIDE DEF rec
  <2>6. CASE Appended(wal, rec, wal') BY <2>2, <2>3, <2>6, AppendFresh
  <2>7. CASE Appended(wal, TornRecord, wal') BY <2>3, <2>7, AppendFresh, TornRecordType
  <2> QED BY <2>4, <2>5, <2>6, <2>7
<1>2. CASE CrashInWrite
  <2>1. pc # "down" /\ Appended(wal, TornRecord, wal') BY <1>2 DEF CrashInWrite, Appended
  <2> QED BY <2>1, AppendFresh, TornRecordType
<1>3. CASE wal' = wal \/ wal' = << >>
  <2>1. Len(wal') <= Len(wal) BY <1>3 DEF Inv, TypeOK
  <2> QED BY <2>1 DEF Inv, TypeOK
<1> QED
  BY <1>1, <1>2, <1>3
  DEF Next, vars, fileVars, volatile, InsertTuple, IndexKey, FreeOld, DeleteAbsent, DeleteTuple,
      Unindex, ApplyFails, StartFlush, FlushAll, FlushPage, Evict, FlushFails, RemoveArchive,
      RotateLog, RotateFails, Crash, Start, SkipRecord, ReplayRecord, ReplayEnds, ReplayFails

(* In every execution WAL.Write only assigns LSNs above LastCheckpointLSN on
   disk, so recoverFromWAL never skips an acknowledged record as covered:
   OpenLSN may start below a record no one can read, never below the meta
   page. *)
THEOREM LoggedAboveCheckpoint == Spec => FreshLSN
<1>1. Inv /\ LSNInv /\ [Next]_vars =>
        [\A n \in 1..Len(wal') : n > Len(wal) /\ ~wal'[n].torn => wal'[n].lsn > disk.ckpt]_vars
  BY FreshStep
<1> QED BY <1>1, SpecInv, SpecLSN, PTL DEF Spec, FreshLSN

LEMMA CheckpointStep == Inv /\ LSNInv /\ [Next]_vars => disk'.ckpt >= disk.ckpt
<1> SUFFICES ASSUME Inv, LSNInv, [Next]_vars PROVE disk'.ckpt >= disk.ckpt OBVIOUS
<1>1. cache.ckpt \in Nat /\ disk.ckpt \in Nat /\ disk.ckpt <= cache.ckpt
  BY CkptType DEF Inv, LSNInv, CoveredLSNs
<1>2. CASE \E S \in SUBSET PageIds : disk' = WritePages(S) BY <1>1, <1>2, CkptWritten
<1>3. CASE UNCHANGED disk BY <1>1, <1>3
<1>4. CASE FlushAll
  <2>1. dirty \in SUBSET PageIds BY DEF Inv, TypeOK
  <2> QED BY <1>2, <1>4, <2>1 DEF FlushAll
<1>5. CASE \E p \in PageIds : FlushPage(p) \/ Evict(p)
  <2>1. PICK p \in PageIds : FlushPage(p) \/ Evict(p) BY <1>5
  <2>2. {p} \in SUBSET PageIds OBVIOUS
  <2> QED BY <1>2, <2>1, <2>2 DEF FlushPage, Evict
<1> QED
  BY <1>3, <1>4, <1>5
  DEF Next, vars, fileVars, Log, LogFails, InsertTuple, IndexKey, FreeOld, DeleteAbsent,
      DeleteTuple, Unindex, ApplyFails, StartFlush, FlushFails, RemoveArchive, RotateLog,
      RotateFails, Crash, CrashInWrite, Start, SkipRecord, ReplayRecord, ReplayEnds, ReplayFails

(* In every execution LastCheckpointLSN on disk never goes back: updateMeta is
   given WAL.currentLSN or the highest replayed LSN, and both are at or above
   the one already in the meta page, after any failed flush, recovery or
   rotation. *)
THEOREM CheckpointNeverGoesBack == Spec => CheckpointMonotone
<1>1. Inv /\ LSNInv /\ [Next]_vars => [disk'.ckpt >= disk.ckpt]_vars BY CheckpointStep
<1> QED BY <1>1, SpecInv, SpecLSN, PTL DEF Spec, CheckpointMonotone

(* A RID's tuple. *)
TupleAt(im, r) == im.data[r.page][r.slot]

-----------------------------------------------------------------------------
(* The buffer pool's dirty pages.  A page that is not dirty is the one on disk. *)
Synced ==
  /\ pc = "down" => dirty = {}
  /\ MetaPage \notin dirty => cache.ckpt = disk.ckpt
  /\ LeafPage \notin dirty => cache.leaf = disk.leaf
  /\ \A p \in DataPages \ dirty : cache.data[p] = disk.data[p]

LEMMA PagesDiffer ==
  MetaPage # LeafPage /\ MetaPage \notin DataPages /\ LeafPage \notin DataPages
<1>1. DataPages = 2..(NumPages + 1) /\ NumPages \in Nat BY EngineAssumption DEF DataPages
<1> QED BY <1>1 DEF MetaPage, LeafPage

(* A step of an operation: every page it changes becomes dirty. *)
LEMMA DirtiedSynced ==
  ASSUME Synced, dirty \subseteq dirty', UNCHANGED disk, pc' # "down",
         cache'.ckpt = cache.ckpt \/ MetaPage \in dirty',
         cache'.leaf = cache.leaf \/ LeafPage \in dirty',
         \A p \in DataPages \ dirty' : cache'.data[p] = cache.data[p]
  PROVE  Synced'
BY DEF Synced

(* Pages are written, and are no longer dirty. *)
LEMMA WrittenSynced ==
  ASSUME Synced, NEW S, disk' = WritePages(S), dirty' = dirty \ S, pc' # "down", UNCHANGED cache
  PROVE  Synced'
<1>1. /\ disk'.ckpt = IF MetaPage \in S THEN cache.ckpt ELSE disk.ckpt
      /\ disk'.leaf = IF LeafPage \in S THEN cache.leaf ELSE disk.leaf
      /\ \A p \in DataPages : disk'.data[p] = IF p \in S THEN cache.data[p] ELSE disk.data[p]
  BY DEF WritePages
<1> QED BY <1>1 DEF Synced

LEMMA PowerOffSynced == ASSUME PowerOff(disk') PROVE Synced'
BY DEF PowerOff, Synced

(* The slot that insertTuple fills holds no tuple. *)
LEMMA TargetFree ==
  ASSUME TypeOK, Unused, NEW p \in Target
  PROVE  p \in DataPages /\ FreeSlot(p) \in Slots /\ cache.data[p][FreeSlot(p)] = Free
<1>1. p \in DataPages /\ FreeSlot(p) \in Slots BY TargetType
<1>2. FreeSlots(p) # {}
  <2>1. CASE p = numData + 2 /\ numData < NumPages
    <3>1. p \in DataPages /\ p > numData + 1 /\ 1 \in Slots
      BY <2>1, EngineAssumption DEF TypeOK, DataPages, Slots
    <3>2. 1 \in FreeSlots(p) BY <3>1 DEF Unused, FreeSlots
    <3> QED BY <3>2
  <2> QED BY <2>1 DEF Target
<1>3. NumSlots \in Nat BY EngineAssumption
<1>4. FreeSlots(p) \subseteq Nat BY <1>3 DEF FreeSlots, Slots
<1>5. \E s \in FreeSlots(p) : \A t \in FreeSlots(p) : s <= t BY <1>2, <1>4, LeastExists
<1>6. FreeSlot(p) \in FreeSlots(p) BY <1>5 DEF FreeSlot
<1> QED BY <1>1, <1>6 DEF FreeSlots

(* What the steps of an operation do to the pages. *)
LEMMA InsertEffect ==
  ASSUME Inv, InsertTuple
  PROVE  /\ Op \in Ops /\ Op.key \in Keys /\ Op.val \in Vals
         /\ newRid' \in RIDs /\ TupleAt(cache, newRid') = Free
         /\ cache'.ckpt = cache.ckpt /\ cache'.leaf = cache.leaf
         /\ \A r \in RIDs : TupleAt(cache', r) = IF r = newRid' THEN Op.val ELSE TupleAt(cache, r)
         /\ dirty \subseteq dirty'
         /\ \A p \in DataPages \ dirty' : cache'.data[p] = cache.data[p]
<1>1. Working /\ TypeOK /\ Unused BY DEF Inv, InsertTuple, Working
<1>2. Op \in Ops /\ Op.key \in Keys /\ Op.val \in Vals BY <1>1, OpType DEF InsertTuple
<1>3. PICK p \in Target :
        /\ newRid' = [page |-> p, slot |-> FreeSlot(p)]
        /\ cache' = [cache EXCEPT !.data[p][FreeSlot(p)] = Op.val, !.active =
                       IF p = active THEN @ ELSE p]
        /\ dirty' = dirty \cup {p} \cup (IF p = active THEN {} ELSE {MetaPage})
  BY DEF InsertTuple
<1>4. p \in DataPages /\ FreeSlot(p) \in Slots /\ cache.data[p][FreeSlot(p)] = Free
  BY <1>1, <1>3, TargetFree
<1>5. newRid' \in RIDs /\ TupleAt(cache, newRid') = Free BY <1>3, <1>4 DEF RIDs, TupleAt
<1>6. /\ cache'.ckpt = cache.ckpt /\ cache'.leaf = cache.leaf
      /\ \A q \in DataPages, s \in Slots :
           cache'.data[q][s] = IF q = p /\ s = FreeSlot(p) THEN Op.val ELSE cache.data[q][s]
      /\ \A q \in DataPages \ {p} : cache'.data[q] = cache.data[q]
  BY <1>1, <1>3, <1>4 DEF TypeOK, Images
<1>7. ASSUME NEW r \in RIDs
      PROVE  TupleAt(cache', r) = IF r = newRid' THEN Op.val ELSE TupleAt(cache, r)
  <2>1. r.page \in DataPages /\ r.slot \in Slots /\ r = [page |-> r.page, slot |-> r.slot]
    BY DEF RIDs
  <2>2. r = newRid' <=> r.page = p /\ r.slot = FreeSlot(p) BY <1>3, <2>1
  <2> QED BY <1>6, <2>1, <2>2 DEF TupleAt
<1> QED BY <1>2, <1>3, <1>5, <1>6, <1>7

LEMMA FreeEffect ==
  ASSUME TypeOK, NEW rid \in RIDs, FreeTuple(rid)
  PROVE  /\ cache'.ckpt = cache.ckpt /\ cache'.leaf = cache.leaf
         /\ \A r \in RIDs : \/ TupleAt(cache', r) = TupleAt(cache, r)
                            \/ r = rid /\ TupleAt(cache', r) = Free
         /\ TupleAt(cache', rid) = Free \/ "freeerr" \in Faults
         /\ dirty \subseteq dirty'
         /\ \A p \in DataPages \ dirty' : cache'.data[p] = cache.data[p]
<1>1. rid.page \in DataPages /\ rid.slot \in Slots BY DEF RIDs
<1>2. CASE UNCHANGED <<cache, dirty>> /\ "freeerr" \in Faults BY <1>2
<1>3. CASE /\ cache' = [cache EXCEPT !.data[rid.page][rid.slot] = Free]
           /\ dirty' = dirty \cup {rid.page}
  <2>1. /\ cache'.ckpt = cache.ckpt /\ cache'.leaf = cache.leaf
        /\ \A p \in DataPages, s \in Slots :
             cache'.data[p][s] = IF p = rid.page /\ s = rid.slot THEN Free ELSE cache.data[p][s]
        /\ \A p \in DataPages \ {rid.page} : cache'.data[p] = cache.data[p]
    BY <1>1, <1>3 DEF TypeOK, Images
  <2>2. ASSUME NEW r \in RIDs
        PROVE  TupleAt(cache', r) = IF r = rid THEN Free ELSE TupleAt(cache, r)
    <3>1. r.page \in DataPages /\ r.slot \in Slots BY DEF RIDs
    <3>2. r = rid <=> r.page = rid.page /\ r.slot = rid.slot BY DEF RIDs
    <3> QED BY <2>1, <3>1, <3>2 DEF TupleAt
  <2> QED BY <1>3, <2>1, <2>2
<1> QED BY <1>2, <1>3 DEF FreeTuple

LEMMA LeafEffect ==
  ASSUME TypeOK, NEW k \in Keys, NEW rid, cache' = [cache EXCEPT !.leaf[k] = rid]
  PROVE  /\ cache'.ckpt = cache.ckpt /\ cache'.data = cache.data
         /\ \A l \in Keys : cache'.leaf[l] = IF l = k THEN rid ELSE cache.leaf[l]
BY DEF TypeOK, Images

LEMMA StampEffect ==
  ASSUME TypeOK, NEW n, NEW why, StampMeta(n, why)
  PROVE  /\ cache'.ckpt = n /\ cache'.leaf = cache.leaf /\ cache'.data = cache.data
         /\ dirty' = dirty \cup {MetaPage}
BY DEF TypeOK, Images, StampMeta

LEMMA InitSynced == Init => Synced
BY DEF Init, Synced, FreshImage

LEMMA StampSynced ==
  ASSUME TypeOK, Synced, NEW n, NEW why, StampMeta(n, why), UNCHANGED disk
  PROVE  Synced'
<1>1. pc' # "down" BY DEF StampMeta
<1> QED BY <1>1, StampEffect, DirtiedSynced

LEMMA NextSynced == Inv /\ Synced /\ [Next]_vars => Synced'
<1> SUFFICES ASSUME Inv, Synced, [Next]_vars PROVE Synced' OBVIOUS
<1>0. TypeOK /\ Unused BY DEF Inv
<1>1. CASE UNCHANGED <<cache, dirty, disk>> /\ pc' # "down" BY <1>1 DEF Synced
<1>2. CASE InsertTuple
  <2>1. UNCHANGED disk /\ pc' # "down" BY <1>2 DEF InsertTuple
  <2> QED BY <1>2, <2>1, InsertEffect, DirtiedSynced
<1>3. CASE IndexKey \/ Unindex
  <2>1. Working /\ pc' # "down" /\ UNCHANGED disk /\ dirty' = dirty \cup {LeafPage}
    BY <1>3 DEF IndexKey, Unindex, OpDone, Working, fileVars
  <2>2. Op.key \in Keys BY <2>1, OpType
  <2>3. cache'.ckpt = cache.ckpt /\ cache'.data = cache.data
    BY <1>0, <1>3, <2>2, LeafEffect DEF IndexKey, Unindex
  <2> QED BY <2>1, <2>3, DirtiedSynced
<1>4. CASE FreeOld
  <2>1. pc' # "down" /\ UNCHANGED disk /\ oldRid \in RIDs /\ FreeTuple(oldRid)
    BY <1>4 DEF FreeOld, OpDone, Inv, AtOperation, fileVars
  <2> QED BY <1>0, <2>1, FreeEffect, DirtiedSynced
<1>5. CASE DeleteTuple
  <2>1. Working /\ pc' # "down" /\ UNCHANGED disk BY <1>5 DEF DeleteTuple, Working, fileVars
  <2>2. cache.leaf[Op.key] \in RIDs
    BY <1>0, <1>5, <2>1, OpType DEF DeleteTuple, TypeOK, Images
  <2> QED BY <1>0, <1>5, <2>1, <2>2, FreeEffect, DirtiedSynced DEF DeleteTuple
<1>7. CASE PowerOff(disk') BY <1>7, PowerOffSynced
<1>8. CASE FlushAll
  <2>1. CASE pc' # "down" /\ dirty' = {} /\ UNCHANGED cache
    <3>1. disk' = WritePages(dirty) /\ dirty' = dirty \ dirty BY <1>8, <2>1 DEF FlushAll
    <3> QED BY <2>1, <3>1, WrittenSynced
  <2> QED BY <1>7, <1>8, <2>1 DEF FlushAll
<1>9. CASE \E p \in PageIds : FlushPage(p) \/ Evict(p)
  <2>1. PICK p \in PageIds : /\ disk' = WritePages({p}) /\ dirty' = dirty \ {p}
                             /\ pc # "down" /\ UNCHANGED <<pc, cache>>
    BY <1>9 DEF FlushPage, Evict
  <2> QED BY <2>1, WrittenSynced
<1>10. CASE FlushFails
  <2>1. UNCHANGED disk BY <1>10 DEF FlushFails, fileVars
  <2>2. \/ UNCHANGED <<cache, dirty>> /\ pc' # "down"
        \/ PowerOff(disk')
        \/ StampMeta(currentLSN, "close")
    BY <1>10, <2>1 DEF FlushFails
  <2>3. CASE StampMeta(currentLSN, "close") BY <1>0, <2>1, <2>3, StampSynced
  <2> QED BY <1>1, <1>7, <2>1, <2>2, <2>3
<1>11. CASE StartFlush \/ ReplayFails \/ ReplayEnds
  <2>1. UNCHANGED disk BY <1>11 DEF StartFlush, ReplayFails, ReplayEnds, fileVars
  <2>2. \/ UNCHANGED <<cache, dirty>> /\ pc' # "down"
        \/ \E n, why : StampMeta(n, why)
    BY <1>11 DEF StartFlush, ReplayFails, ReplayEnds
  <2>3. ASSUME NEW n, NEW why, StampMeta(n, why) PROVE Synced' BY <1>0, <2>1, <2>3, StampSynced
  <2> QED BY <1>1, <2>1, <2>2, <2>3
<1>12. CASE Crash \/ CrashInWrite
  <2>1. PowerOff(disk') BY <1>12 DEF Crash, CrashInWrite
  <2> QED BY <1>7, <2>1
<1>13. CASE Start \/ SkipRecord \/ ReplayRecord \/ RemoveArchive \/ RotateLog \/ RotateFails
            \/ ApplyFails \/ DeleteAbsent
  <2>1. UNCHANGED <<cache, dirty, disk>> /\ pc' # "down"
    BY <1>13 DEF Start, SkipRecord, ReplayRecord, AtRecord, RemoveArchive, RotateLog, RotateFails,
                 ApplyFails, DeleteAbsent, OpDone, fileVars
  <2> QED BY <1>1, <2>1
<1>14. CASE \E r \in Requests : Log(r) \/ LogFails(r)
  <2>1. UNCHANGED <<cache, dirty, disk>> /\ pc' # "down"
    BY <1>14 DEF Log, LogFails, CanWrite
  <2> QED BY <1>1, <2>1
<1>15. CASE UNCHANGED vars
  <2>1. UNCHANGED <<pc, cache, dirty, disk>> BY <1>15 DEF vars
  <2> QED BY <2>1 DEF Synced
<1> QED
  BY <1>2, <1>3, <1>4, <1>5, <1>8, <1>9, <1>10, <1>11, <1>12, <1>13, <1>14, <1>15 DEF Next

(* In every execution, whatever fails, a page that is not in the pool's dirty
   table is the one on disk: every step of applyPutInMemory, freeTuple and
   updateMeta unpins dirty what it changed, and FlushAll and an eviction write
   what they unmark. *)
THEOREM CleanPagesOnDisk == Spec => []Synced
BY InitSynced, NextSynced, SpecInv, PTL DEF Spec

(* The faults under which the code keeps what it logged: I/O errors of the log
   and the data file, operations that fail while they are applied, tuples that
   cannot be freed. *)
PlainFaults == Faults \subseteq {"ioerr", "applyerr", "freeerr"}

(* Nobody writes, checkpoints or recovers in a halted engine. *)
Doing ==
  /\ pc = "idle" => task = "none"
  /\ pc \in {"remove", "rename"} => task = "checkpoint"
  /\ pc = "flush" => task \in {"checkpoint", "snapshot", "close", "recovered"}
  /\ failed => pc = "idle"

(* Every record of the log can be read. *)
Whole == \A i \in 1..Len(wal) : ~wal[i].torn

(* The LSN that the meta page is about to have on disk, or has, covers the log
   when the pages and when the log are replaced; recovery has covered what it
   read. *)
Covered ==
  /\ pc = "flush" => \A i \in 1..Len(wal) : wal[i].lsn <= cache.ckpt
  /\ pc \in {"remove", "rename"} => \A i \in 1..Len(wal) : wal[i].lsn <= disk.ckpt
  /\ Replaying =>
       /\ base = disk.ckpt
       /\ \A i \in 1..Len(wal) : i < replayPos => wal[i].lsn <= base \/ wal[i].lsn <= highest

(* The record whose operations are being applied: the one just logged, or the
   one that recovery has read. *)
At == IF task = "client" THEN Len(wal) ELSE replayPos
OfRecord == Working => At \in 1..Len(wal) /\ cur = wal[At].ops /\ wal[At].lsn > disk.ckpt

CtlInv == Doing /\ Whole /\ Covered /\ OfRecord

LEMMA InitCtl == Init => CtlInv
BY DEF Init, CtlInv, Doing, Whole, Covered, OfRecord, Replaying, Working

(* The log is all readable. *)
LEMMA WholeReadable ==
  ASSUME Inv, Whole
  PROVE  /\ Len(wal) \in Nat /\ Readable(wal) = 1..Len(wal)
         /\ \A i \in 1..Len(wal) : wal[i] \in LogRecords /\ wal[i].lsn \in Nat /\ wal[i].ops \in Seq(Ops)
<1>1. wal \in Seq(LogRecords) BY DEF Inv, TypeOK
<1>2. \A i \in 1..Len(wal) : wal[i] \in LogRecords BY <1>1
<1>3. \A i \in 1..Len(wal) : wal[i].lsn \in Nat /\ wal[i].ops \in Seq(Ops) BY <1>2 DEF LogRecords
<1>4. Len(wal) \in Nat BY <1>1
<1>5. Readable(wal) = 1..Len(wal) BY <1>4 DEF Whole, Readable
<1> QED BY <1>2, <1>3, <1>4, <1>5

(* No step of an operation but its last one. *)
LEMMA StepCtl ==
  ASSUME CtlInv, Working, Working', cache'.ckpt = cache.ckpt,
         UNCHANGED <<task, cur, failed, base, replayPos, highest, disk, wal>>
  PROVE  CtlInv'
<1>1. Doing' BY DEF CtlInv, Doing, Working
<1>2. Whole' /\ OfRecord' BY DEF CtlInv, Whole, OfRecord, At
<1>3. Covered' BY DEF CtlInv, Covered, Replaying, Working
<1> QED BY <1>1, <1>2, <1>3 DEF CtlInv

LEMMA OpDoneCtl ==
  ASSUME Inv, LSNInv, CtlInv, Working, OpDone, cache'.ckpt = cache.ckpt,
         UNCHANGED <<failed, base, disk, wal>>
  PROVE  CtlInv'
<1>1. task \in {"client", "replay"} BY DEF Inv, AtOperation
<1>2. CASE pc' = "apply" /\ UNCHANGED <<task, cur, replayPos, highest>>
  <2>1. Working' BY <1>2 DEF Working
  <2> QED BY <1>2, <2>1, StepCtl
<1>3. CASE pc' = "idle" /\ task' = "none"
  BY <1>3 DEF CtlInv, Doing, Whole, Covered, OfRecord, Replaying, Working
<1>4. CASE /\ task = "replay" /\ pc' = "replay" /\ replayPos' = replayPos + 1
           /\ highest' = (IF wal[replayPos].lsn > highest THEN wal[replayPos].lsn ELSE highest)
           /\ UNCHANGED task
  <2>1. Replaying /\ replayPos \in 1..Len(wal) /\ highest \in Nat
    BY <1>4 DEF Replaying, CtlInv, OfRecord, At, Inv, TypeOK
  <2>2. \A i \in 1..Len(wal) : wal[i].lsn \in Nat BY WholeReadable DEF CtlInv
  <2>3. ASSUME NEW i \in 1..Len(wal), i < replayPos + 1
        PROVE  wal[i].lsn <= base \/ wal[i].lsn <= highest'
    <3>1. base \in Nat BY DEF Inv, TypeOK
    <3>2. CASE i = replayPos BY <1>4, <2>1, <2>2, <3>2
    <3>3. CASE i < replayPos
      <4>1. wal[i].lsn <= base \/ wal[i].lsn <= highest BY <2>1, <3>3 DEF CtlInv, Covered
      <4> QED BY <1>4, <2>1, <2>2, <4>1
    <3> QED BY <2>1, <2>3, <3>2, <3>3
  <2>4. Covered' BY <1>4, <2>1, <2>3 DEF CtlInv, Covered
  <2>5. Doing' /\ Whole' /\ OfRecord' BY <1>4 DEF CtlInv, Doing, Whole, OfRecord, Working
  <2> QED BY <2>4, <2>5 DEF CtlInv
<1> QED BY <1>1, <1>2, <1>3, <1>4 DEF OpDone

(* updateMeta with an LSN that covers the log. *)
LEMMA StampCtl ==
  ASSUME Inv, CtlInv, NEW n \in Nat, NEW why \in {"checkpoint", "snapshot", "close", "recovered"},
         StampMeta(n, why), ~failed, \A i \in 1..Len(wal) : wal[i].lsn <= n,
         UNCHANGED <<failed, wal>>
  PROVE  CtlInv'
<1>1. cache'.ckpt = n BY StampEffect DEF Inv
<1>2. Doing' /\ OfRecord' BY DEF StampMeta, Doing, OfRecord, Working
<1>3. Whole' BY DEF CtlInv, Whole
<1>4. Covered' BY <1>1 DEF StampMeta, Covered, Replaying, Working
<1> QED BY <1>2, <1>3, <1>4 DEF CtlInv

(* The process is gone, or nobody holds Engine.mu. *)
LEMMA RestCtl ==
  ASSUME CtlInv, pc' \in {"down", "idle"}, task' = "none", failed' => pc' = "idle", Whole'
  PROVE  CtlInv'
BY DEF CtlInv, Doing, Covered, OfRecord, Replaying, Working

(* WAL.Write. *)
LEMMA LogCtl ==
  ASSUME Inv, LSNInv, CtlInv, NEW r \in Requests, Log(r)
  PROVE  CtlInv'
<1> DEFINE rec == Record(currentLSN + 1, r.ops)
<1>1. wal \in Seq(LogRecords) /\ rec \in LogRecords /\ rec.ops = r.ops /\ ~rec.torn
      /\ rec.lsn = currentLSN + 1
  BY RequestRecord DEF Inv, TypeOK, Log, Record
<1>2. wal' = Append(wal, rec) /\ pc # "down" /\ ~failed BY DEF Log, CanWrite
<1>3. disk.ckpt < currentLSN + 1
  <2>1. currentLSN \in Nat /\ disk.ckpt \in Nat /\ cache.ckpt \in Nat
    BY CkptType DEF Inv, TypeOK
  <2>2. disk.ckpt <= cache.ckpt /\ cache.ckpt <= currentLSN BY <1>2 DEF LSNInv, CoveredLSNs
  <2> QED BY <2>1, <2>2
<1> HIDE DEF rec
<1>4. /\ Len(wal') = Len(wal) + 1 /\ Len(wal) \in Nat
      /\ \A i \in 1..Len(wal') : wal'[i] = IF i = Len(wal) + 1 THEN rec ELSE wal[i]
  BY <1>1, <1>2
<1>5. Whole' BY <1>1, <1>4 DEF CtlInv, Whole
<1>6. At' = Len(wal') /\ Len(wal') \in 1..Len(wal') BY <1>4 DEF Log, At
<1>7. cur' = rec.ops /\ disk' = disk BY <1>1 DEF Log
<1>8. OfRecord' BY <1>1, <1>3, <1>4, <1>6, <1>7 DEF OfRecord
<1>9. Doing' /\ Covered' BY <1>2 DEF Log, Doing, Covered, Replaying, Working
<1> QED BY <1>5, <1>8, <1>9 DEF CtlInv

LEMMA LogFailsCtl ==
  ASSUME PlainFaults, Inv, CtlInv, NEW r \in Requests, LogFails(r)
  PROVE  CtlInv'
<1> DEFINE rec == Record(currentLSN + 1, r.ops)
<1>1. wal \in Seq(LogRecords) /\ rec \in LogRecords /\ ~rec.torn
  BY RequestRecord DEF Inv, TypeOK, LogFails
<1>2. wal' \in {wal, Append(wal, rec)} /\ pc' = "idle" /\ task' = task /\ pc = "idle"
  BY DEF LogFails, CanWrite, PlainFaults
<1> HIDE DEF rec
<1>3. \A i \in 1..Len(Append(wal, rec)) :
        \/ Append(wal, rec)[i] = rec
        \/ i \in 1..Len(wal) /\ Append(wal, rec)[i] = wal[i]
  BY <1>1
<1>4. Whole' BY <1>1, <1>2, <1>3 DEF CtlInv, Whole
<1>5. task' = "none" BY <1>2 DEF CtlInv, Doing
<1> QED BY <1>2, <1>4, <1>5, RestCtl

(* A step of applyPutInMemory or applyDeleteInMemory. *)
LEMMA ApplyCtl ==
  ASSUME Inv, LSNInv, CtlInv,
         InsertTuple \/ IndexKey \/ FreeOld \/ DeleteAbsent \/ DeleteTuple \/ Unindex
  PROVE  CtlInv'
<1>1. Working /\ TypeOK
  BY DEF InsertTuple, IndexKey, FreeOld, DeleteAbsent, DeleteTuple, Unindex, Working, Inv
<1>2. UNCHANGED <<failed, base, disk, wal>>
  BY DEF InsertTuple, IndexKey, FreeOld, DeleteAbsent, DeleteTuple, Unindex, replayVars, fileVars
<1>3. cache'.ckpt = cache.ckpt
  <2>1. CASE InsertTuple BY <2>1, InsertEffect
  <2>2. CASE IndexKey \/ Unindex
    BY <1>1, <2>2, OpType, LeafEffect DEF IndexKey, Unindex
  <2>3. CASE FreeOld BY <1>1, <2>3, FreeEffect DEF FreeOld, Inv, AtOperation
  <2>4. CASE DeleteTuple
    <3>1. cache.leaf[Op.key] \in RIDs
      BY <1>1, <2>4, OpType DEF DeleteTuple, TypeOK, Images
    <3> QED BY <1>1, <2>4, <3>1, FreeEffect DEF DeleteTuple
  <2>5. CASE DeleteAbsent BY <2>5 DEF DeleteAbsent
  <2> QED BY <2>1, <2>2, <2>3, <2>4, <2>5
<1>4. CASE OpDone BY <1>1, <1>2, <1>3, <1>4, OpDoneCtl
<1>5. CASE Working' /\ UNCHANGED <<task, cur, replayPos, highest>>
  BY <1>1, <1>2, <1>3, <1>5, StepCtl
<1> QED
  BY <1>4, <1>5
  DEF InsertTuple, IndexKey, FreeOld, DeleteAbsent, DeleteTuple, Unindex, Working,
      applyVars, replayVars

(* Checkpoint, CreateSnapshot and Close. *)
LEMMA FlushCtl ==
  ASSUME PlainFaults, Inv, LSNInv, Synced, CtlInv, StartFlush \/ FlushAll \/ FlushFails
  PROVE  CtlInv'
<1>1. /\ currentLSN \in Nat
      /\ pc # "down" => \A i \in 1..Len(wal) : wal[i].lsn <= currentLSN
  BY WholeReadable DEF CtlInv, Inv, TypeOK, LSNInv, CoveredLSNs, Assigned
<1>2. CASE StartFlush
  <2>1. PICK why \in {"checkpoint", "snapshot", "close"} : StampMeta(currentLSN, why)
    BY <1>2 DEF StartFlush
  <2>2. ~failed /\ pc # "down" /\ UNCHANGED <<failed, wal>>
    BY <1>2 DEF StartFlush, PlainFaults, fileVars
  <2> QED BY <1>1, <2>1, <2>2, StampCtl
<1>3. CASE FlushAll
  <2>1. disk' = WritePages(dirty) /\ pc = "flush" /\ wal' = wal BY <1>3 DEF FlushAll
  <2>2. CASE PowerOff(disk')
    BY <2>1, <2>2, RestCtl DEF PowerOff, CtlInv, Whole
  <2>3. CASE /\ pc' = IF task = "checkpoint" THEN "remove" ELSE "idle"
             /\ task' = IF task = "checkpoint" THEN task ELSE "none"
             /\ UNCHANGED <<failed, cache>>
    <3>1. disk'.ckpt = cache.ckpt BY <2>1 DEF WritePages, Synced
    <3>2. \A i \in 1..Len(wal) : wal[i].lsn <= disk'.ckpt
      BY <2>1, <3>1 DEF CtlInv, Covered
    <3>3. Doing' BY <2>1, <2>3 DEF CtlInv, Doing
    <3>4. Whole' /\ OfRecord' BY <2>1, <2>3 DEF CtlInv, Whole, OfRecord, Working
    <3>5. Covered' BY <2>1, <2>3, <3>2 DEF Covered, Replaying, Working
    <3> QED BY <3>3, <3>4, <3>5 DEF CtlInv
  <2> QED BY <1>3, <2>2, <2>3 DEF FlushAll
<1>4. CASE FlushFails
  <2>1. pc = "flush" /\ UNCHANGED wal /\ ~failed
    BY <1>4 DEF FlushFails, fileVars, CtlInv, Doing
  <2>2. CASE pc' = "idle" /\ task' = "none"
    BY <2>1, <2>2, RestCtl DEF CtlInv, Whole
  <2>3. CASE PowerOff(disk) BY <2>1, <2>3, RestCtl DEF PowerOff, CtlInv, Whole
  <2>4. CASE StampMeta(currentLSN, "close") /\ UNCHANGED failed
    BY <1>1, <2>1, <2>4, StampCtl
  <2> QED BY <1>4, <2>2, <2>3, <2>4 DEF FlushFails
<1> QED BY <1>2, <1>3, <1>4

(* WAL.Checkpoint. *)
LEMMA RotateCtl ==
  ASSUME CtlInv, RemoveArchive \/ RotateLog \/ RotateFails PROVE CtlInv'
<1>1. wal' \in {wal, << >>} BY DEF RemoveArchive, RotateLog, RotateFails
<1>2. Whole' BY <1>1 DEF CtlInv, Whole
<1>3. CASE RemoveArchive
  <2>1. /\ pc = "remove" /\ pc' = "rename"
        /\ UNCHANGED <<task, failed, cache, disk, wal>>
    BY <1>3 DEF RemoveArchive, volatile
  <2> QED BY <1>2, <2>1 DEF CtlInv, Doing, Covered, OfRecord, Replaying, Working
<1>4. CASE RotateLog \/ RotateFails
  BY <1>2, <1>4, RestCtl DEF RotateLog, RotateFails
<1> QED BY <1>3, <1>4

(* NewEngine and recoverFromWAL. *)
LEMMA RecoverCtl ==
  ASSUME Inv, LSNInv, Synced, CtlInv, Start \/ SkipRecord \/ ReplayRecord \/ ReplayEnds
  PROVE  CtlInv'
<1>1. Whole' /\ UNCHANGED <<wal, disk>>
  BY DEF Start, SkipRecord, ReplayRecord, ReplayEnds, fileVars, CtlInv, Whole
<1>2. Len(wal) \in Nat /\ \A i \in 1..Len(wal) : wal[i].lsn \in Nat
  BY WholeReadable DEF CtlInv
<1>3. base \in Nat /\ highest \in Nat /\ replayPos \in Nat BY DEF Inv, TypeOK
<1>4. CASE Start
  <2>1. /\ pc = "down" /\ pc' = "replay" /\ task' = "replay" /\ replayPos' = 1
        /\ base' = disk.ckpt /\ UNCHANGED failed
    BY <1>4 DEF Start
  <2>2. Covered' BY <1>1, <1>2, <2>1 DEF Covered
  <2> QED BY <1>1, <2>1, <2>2 DEF CtlInv, Doing, OfRecord, Working
<1>5. CASE SkipRecord
  <2>1. /\ pc = "replay" /\ pc' = "replay" /\ replayPos' = replayPos + 1
        /\ wal[replayPos].lsn <= base /\ UNCHANGED <<base, highest, failed>>
    BY <1>5 DEF SkipRecord, AtRecord
  <2>2. Replaying BY <2>1 DEF Replaying
  <2>3. \A i \in 1..Len(wal) : i < replayPos + 1 => i = replayPos \/ i < replayPos
    BY <1>2, <1>3
  <2>4. Covered' BY <1>1, <2>1, <2>2, <2>3 DEF CtlInv, Covered
  <2> QED BY <1>1, <2>1, <2>4 DEF CtlInv, Doing, OfRecord, Working
<1>6. CASE ReplayRecord
  <2>1. /\ pc = "replay" /\ pc' = "apply" /\ replayPos <= Len(wal) /\ wal[replayPos].lsn > base
        /\ cur' = wal[replayPos].ops /\ UNCHANGED <<task, base, replayPos, highest, failed>>
    BY <1>6 DEF ReplayRecord, AtRecord, replayVars
  <2>2. /\ task = "replay" /\ replayPos \in 1..Len(wal) /\ Replaying
    BY <1>2, <2>1 DEF Inv, ReadSoFar, Replaying
  <2>3. base = disk.ckpt BY <2>2 DEF CtlInv, Covered
  <2>4. OfRecord' BY <1>1, <2>1, <2>2, <2>3 DEF OfRecord, At
  <2>5. Covered' BY <1>1, <2>1, <2>2 DEF CtlInv, Covered
  <2> QED BY <1>1, <2>1, <2>4, <2>5 DEF CtlInv, Doing
<1>7. CASE ReplayEnds
  <2>1. pc = "replay" /\ ~AtRecord /\ UNCHANGED failed /\ Replaying /\ ~failed
    BY <1>7 DEF ReplayEnds, Replaying, CtlInv, Doing
  <2>2. CASE pc' = "idle" /\ task' = "none" BY <1>1, <2>2, RestCtl
  <2>3. CASE highest # 0 /\ StampMeta(highest, "recovered")
    <3>1. replayPos \in 1..(Len(wal) + 1) BY <2>1 DEF Inv, ReadSoFar
    <3>2. ~(replayPos <= Len(wal))
      <4>1. replayPos <= Len(wal) => replayPos \in 1..Len(wal) BY <1>2, <3>1
      <4>2. replayPos <= Len(wal) => ~wal[replayPos].torn BY <4>1 DEF CtlInv, Whole
      <4> QED BY <2>1, <4>2 DEF AtRecord
    <3>3. \A i \in 1..Len(wal) : i < replayPos BY <1>2, <3>1, <3>2
    <3>4. base < highest BY <2>1, <2>3 DEF LSNInv, ReplayedLSNs
    <3>5. ASSUME NEW i \in 1..Len(wal) PROVE wal[i].lsn <= highest
      <4>1. wal[i].lsn <= base \/ wal[i].lsn <= highest BY <2>1, <3>3 DEF CtlInv, Covered
      <4>2. wal[i].lsn \in Nat BY <1>2
      <4> QED BY <1>3, <3>4, <4>1, <4>2
    <3> QED BY <1>1, <1>3, <2>1, <2>3, <3>5, StampCtl
  <2> QED BY <1>7, <2>2, <2>3 DEF ReplayEnds
<1> QED BY <1>4, <1>5, <1>6, <1>7

LEMMA NextCtl ==
  ASSUME PlainFaults, Inv, LSNInv, Synced, CtlInv, [Next]_vars PROVE CtlInv'
<1>write. CASE \E r \in Requests : Log(r) \/ LogFails(r) BY <1>write, LogCtl, LogFailsCtl
<1>apply. CASE InsertTuple \/ IndexKey \/ FreeOld \/ DeleteAbsent \/ DeleteTuple \/ Unindex
  BY <1>apply, ApplyCtl
<1>flush. CASE StartFlush \/ FlushAll \/ FlushFails BY <1>flush, FlushCtl
<1>rotate. CASE RemoveArchive \/ RotateLog \/ RotateFails BY <1>rotate, RotateCtl
<1>recover. CASE Start \/ SkipRecord \/ ReplayRecord \/ ReplayEnds BY <1>recover, RecoverCtl
<1>die. CASE ApplyFails \/ Crash
  <2>1. pc' \in {"down", "idle"} /\ task' = "none" /\ (failed' => pc' = "idle") /\ wal' = wal
    BY <1>die DEF ApplyFails, Crash, PowerOff, fileVars
  <2> QED BY <2>1, RestCtl DEF CtlInv, Whole
<1>stay. CASE vars' = vars
  <2>1. UNCHANGED <<pc, task, cur, failed, base, replayPos, highest, cache, disk, wal>>
    BY <1>stay DEF vars, volatile
  <2> QED BY <2>1 DEF CtlInv, Doing, Whole, Covered, OfRecord, At, Replaying, Working
<1>plain. ~(ReplayFails \/ CrashInWrite \/ \E p \in PageIds : FlushPage(p) \/ Evict(p))
  BY DEF PlainFaults, ReplayFails, CrashInWrite, FlushPage, Evict
<1> QED
  BY <1>write, <1>apply, <1>flush, <1>rotate, <1>recover, <1>die, <1>stay, <1>plain DEF Next

-----------------------------------------------------------------------------
(* The leaf and the tuples. *)
Sole(im) == \A k, l \in Keys : im.leaf[k] # None /\ im.leaf[k] = im.leaf[l] => k = l
Owned(im, r) == \E k \in Keys : im.leaf[k] = r

(* No two keys share a tuple, and every entry leads to a live one, but for the
   key being deleted; the tuple just written has no entry yet, and the one to
   be freed has none any more. *)
Linked ==
  ~failed =>
    /\ Sole(cache)
    /\ \A k \in Keys : \/ cache.leaf[k] = None
                       \/ TupleAt(cache, cache.leaf[k]) # Free
                       \/ pc = "unindex" /\ k = Op.key
    /\ pc = "index" => /\ oldRid = cache.leaf[Op.key] /\ Op.val # None
                       /\ TupleAt(cache, newRid) = Op.val /\ ~Owned(cache, newRid)
    /\ pc = "free" => /\ Op.val # None /\ ~Owned(cache, oldRid)
                      /\ cache.leaf[Op.key] # None
                      /\ TupleAt(cache, cache.leaf[Op.key]) = Op.val
    /\ pc = "unindex" => cache.leaf[Op.key] # None /\ Op.val = None

DiskLinked ==
  /\ Sole(disk)
  /\ \A k \in Keys : disk.leaf[k] = None \/ TupleAt(disk, disk.leaf[k]) # Free

(* Where freeTuple never fails, a live tuple has a key, or is the one just
   written, or the one about to be freed. *)
Exact ==
  "freeerr" \notin Faults =>
    /\ ~failed =>
         /\ \A r \in RIDs : \/ TupleAt(cache, r) = Free
                            \/ Owned(cache, r)
                            \/ pc = "index" /\ r = newRid
                            \/ pc = "free" /\ r = oldRid
         /\ pc = "unindex" => TupleAt(cache, cache.leaf[Op.key]) = Free
    /\ \A r \in RIDs : TupleAt(disk, r) = Free \/ Owned(disk, r)

LinkInv == Linked /\ DiskLinked /\ Exact

Between == pc \notin {"index", "free", "unindex"}

LEMMA InitLink == Init => LinkInv
BY EngineAssumption, NoRIDAssumption
DEF Init, LinkInv, Linked, DiskLinked, Exact, Sole, Owned, TupleAt, FreshImage, RIDs

LEMMA LeafType ==
  ASSUME TypeOK, NEW k \in Keys
  PROVE  /\ cache.leaf[k] # None => cache.leaf[k] \in RIDs
         /\ disk.leaf[k] # None => disk.leaf[k] \in RIDs
BY DEF TypeOK, Images

(* FlushAll leaves the newest version of every page on disk. *)
LEMMA Flushed ==
  ASSUME Inv, Synced
  PROVE  /\ WritePages(dirty).ckpt = cache.ckpt /\ WritePages(dirty).leaf = cache.leaf
         /\ WritePages(dirty).data = cache.data
<1>1. WritePages(dirty).ckpt = cache.ckpt /\ WritePages(dirty).leaf = cache.leaf
  BY DEF WritePages, Synced
<1>2. \A p \in DataPages : WritePages(dirty).data[p] = cache.data[p]
  BY DEF WritePages, Synced
<1>3. cache.data = [p \in DataPages |-> cache.data[p]] BY DEF Inv, TypeOK, Images
<1>4. WritePages(dirty).data = [p \in DataPages |-> WritePages(dirty).data[p]]
  BY DEF WritePages
<1> QED BY <1>1, <1>2, <1>3, <1>4

(* Steps that change no entry and no tuple. *)
LEMMA SameLinks ==
  ASSUME LinkInv, cache'.leaf = cache.leaf, cache'.data = cache.data,
         disk'.leaf = disk.leaf, disk'.data = disk.data,
         failed' \/ (~failed /\ Between /\ Between')
  PROVE  LinkInv'
<1>1. DiskLinked' BY DEF LinkInv, DiskLinked, Sole, TupleAt
<1>2. Linked' BY DEF LinkInv, Linked, Sole, TupleAt, Between
<1>3. Exact' BY DEF LinkInv, Exact, Owned, TupleAt, Between
<1> QED BY <1>1, <1>2, <1>3 DEF LinkInv

(* The pages on disk become those in memory, or those in memory the ones on
   disk. *)
LEMMA WrittenLinks ==
  ASSUME LinkInv, ~failed, Between, Between', disk'.leaf = cache.leaf, disk'.data = cache.data,
         cache'.leaf = cache.leaf, cache'.data = cache.data
  PROVE  LinkInv'
<1>1. DiskLinked' BY DEF LinkInv, Linked, DiskLinked, Sole, TupleAt, Between
<1>2. Linked' BY DEF LinkInv, Linked, Sole, TupleAt, Between
<1>3. Exact' BY DEF LinkInv, Exact, Owned, TupleAt, Between
<1> QED BY <1>1, <1>2, <1>3 DEF LinkInv

LEMMA PowerOffLinks ==
  ASSUME LinkInv, PowerOff(disk'), disk'.leaf = disk.leaf, disk'.data = disk.data
  PROVE  LinkInv'
<1>1. cache' = disk' /\ ~failed' /\ Between' BY DEF PowerOff, Between
<1>2. DiskLinked' BY DEF LinkInv, DiskLinked, Sole, TupleAt
<1>3. Linked' BY <1>1, <1>2 DEF Linked, DiskLinked, Sole, TupleAt, Between
<1>4. Exact' BY <1>1 DEF LinkInv, Exact, Owned, TupleAt, Between
<1> QED BY <1>2, <1>3, <1>4 DEF LinkInv

(* Steps of an operation leave the disk alone. *)
LEMMA DiskStays ==
  ASSUME LinkInv, UNCHANGED disk
  PROVE  /\ DiskLinked'
         /\ "freeerr" \notin Faults => \A r \in RIDs : TupleAt(disk', r) = Free \/ Owned(disk', r)
BY DEF LinkInv, DiskLinked, Exact

LEMMA InsertLinks ==
  ASSUME Inv, LinkInv, CtlInv, InsertTuple PROVE LinkInv'
<1>0. ~failed /\ ~failed' /\ pc = "apply" /\ pc' = "index" /\ UNCHANGED disk /\ TypeOK
  BY DEF InsertTuple, CtlInv, Doing, Inv
<1>1. /\ Op.key \in Keys /\ Op.val \in Vals /\ newRid' \in RIDs
      /\ TupleAt(cache, newRid') = Free /\ cache'.leaf = cache.leaf
      /\ \A r \in RIDs : TupleAt(cache', r) = IF r = newRid' THEN Op.val ELSE TupleAt(cache, r)
  BY InsertEffect
<1>2. Op' = Op /\ oldRid' = cache.leaf[Op.key] BY DEF InsertTuple, Op
<1>3. Sole(cache) /\ \A k \in Keys : cache.leaf[k] = None \/ TupleAt(cache, cache.leaf[k]) # Free
  BY <1>0 DEF LinkInv, Linked
<1>4. ~Owned(cache, newRid') BY <1>1, <1>3, NoRIDAssumption DEF Owned
<1>5. \A k \in Keys : cache.leaf[k] # None =>
        cache.leaf[k] \in RIDs /\ TupleAt(cache', cache.leaf[k]) = TupleAt(cache, cache.leaf[k])
  BY <1>0, <1>1, <1>4, LeafType DEF Owned
<1>6. Linked'
  <2>1. Sole(cache)' /\ ~Owned(cache, newRid)' BY <1>1, <1>3, <1>4 DEF Sole, Owned
  <2>2. \A k \in Keys : cache'.leaf[k] = None \/ TupleAt(cache', cache'.leaf[k]) # Free
    BY <1>1, <1>3, <1>5
  <2>3. TupleAt(cache', newRid') = Op.val /\ Op.val # None BY <1>1, NoneAssumption
  <2> QED BY <1>0, <1>1, <1>2, <2>1, <2>2, <2>3 DEF Linked
<1>7. Exact'
  <2>1. ASSUME "freeerr" \notin Faults, NEW r \in RIDs
        PROVE  TupleAt(cache', r) = Free \/ Owned(cache', r) \/ r = newRid'
    <3>1. TupleAt(cache, r) = Free \/ Owned(cache, r) BY <1>0, <2>1 DEF LinkInv, Exact
    <3> QED BY <1>1, <3>1 DEF Owned
  <2> QED BY <1>0, <2>1, DiskStays DEF Exact
<1> QED BY <1>0, <1>6, <1>7, DiskStays DEF LinkInv

LEMMA IndexLinks ==
  ASSUME Inv, LinkInv, CtlInv, IndexKey PROVE LinkInv'
<1>0. ~failed /\ ~failed' /\ pc = "index" /\ UNCHANGED disk /\ TypeOK /\ Working /\ newRid \in RIDs
  BY DEF IndexKey, CtlInv, Doing, Inv, fileVars, Working, AtOperation
<1>1. Op.key \in Keys /\ Op.val \in Vals \cup {None} BY <1>0, OpType
<1>2. /\ cache'.data = cache.data
      /\ \A k \in Keys : cache'.leaf[k] = IF k = Op.key THEN newRid ELSE cache.leaf[k]
  BY <1>0, <1>1, LeafEffect DEF IndexKey
<1>3. /\ Sole(cache) /\ oldRid = cache.leaf[Op.key] /\ Op.val # None /\ newRid # None
      /\ TupleAt(cache, newRid) = Op.val /\ \A k \in Keys : cache.leaf[k] # newRid
      /\ \A k \in Keys : cache.leaf[k] = None \/ TupleAt(cache, cache.leaf[k]) # Free
  BY <1>0, NoRIDAssumption DEF LinkInv, Linked, Owned
<1>4. \A r : TupleAt(cache', r) = TupleAt(cache, r) BY <1>2 DEF TupleAt
<1>5. Sole(cache)' BY <1>2, <1>3 DEF Sole
<1>6. \A k \in Keys : cache'.leaf[k] = None \/ TupleAt(cache', cache'.leaf[k]) # Free
  <2>1. Op.val # Free BY <1>1, <1>3, EngineAssumption
  <2> QED BY <1>2, <1>3, <1>4, <2>1
<1>7. CASE oldRid # None /\ pc' = "free" /\ UNCHANGED applyVars
  <2>1. Op' = Op /\ oldRid' = oldRid BY <1>7 DEF Op, applyVars
  <2>2. ~Owned(cache', oldRid)
    <3> SUFFICES ASSUME NEW k \in Keys, cache'.leaf[k] = oldRid PROVE FALSE BY DEF Owned
    <3>1. k # Op.key BY <1>1, <1>2, <1>3
    <3> QED BY <1>1, <1>2, <1>3, <1>7, <3>1 DEF Sole
  <2>3. TupleAt(cache', cache'.leaf[Op.key]) = Op.val /\ cache'.leaf[Op.key] # None
    BY <1>1, <1>2, <1>3, <1>4
  <2>4. Linked' BY <1>3, <1>5, <1>6, <1>7, <2>1, <2>2, <2>3 DEF Linked
  <2>5. Exact'
    <3>1. ASSUME "freeerr" \notin Faults, NEW r \in RIDs
          PROVE  TupleAt(cache', r) = Free \/ Owned(cache', r) \/ r = oldRid
      <4>1. TupleAt(cache, r) = Free \/ Owned(cache, r) \/ r = newRid
        BY <1>0, <3>1 DEF LinkInv, Exact
      <4>2. CASE Owned(cache, r) BY <1>2, <1>3, <4>2 DEF Owned
      <4>3. CASE r = newRid BY <1>1, <1>2, <4>3 DEF Owned
      <4> QED BY <1>4, <4>1, <4>2, <4>3
    <3> QED BY <1>0, <1>7, <2>1, <3>1, DiskStays DEF Exact
  <2> QED BY <1>0, <2>4, <2>5, DiskStays DEF LinkInv
<1>8. CASE oldRid = None /\ OpDone
  <2>1. pc' \notin {"index", "free", "unindex"} BY <1>8 DEF OpDone
  <2>2. Linked' BY <1>5, <1>6, <2>1 DEF Linked
  <2>3. Exact'
    <3>1. ASSUME "freeerr" \notin Faults, NEW r \in RIDs
          PROVE  TupleAt(cache', r) = Free \/ Owned(cache', r)
      <4>1. TupleAt(cache, r) = Free \/ Owned(cache, r) \/ r = newRid
        BY <1>0, <3>1 DEF LinkInv, Exact
      <4>2. CASE Owned(cache, r) BY <1>2, <1>3, <1>8, <4>2, NoRIDAssumption DEF Owned
      <4>3. CASE r = newRid BY <1>1, <1>2, <4>3 DEF Owned
      <4> QED BY <1>4, <4>1, <4>2, <4>3
    <3> QED BY <1>0, <2>1, <3>1, DiskStays DEF Exact
  <2> QED BY <1>0, <2>2, <2>3, DiskStays DEF LinkInv
<1> QED BY <1>7, <1>8 DEF IndexKey

LEMMA FreeOldLinks ==
  ASSUME Inv, LinkInv, CtlInv, FreeOld PROVE LinkInv'
<1>0. ~failed /\ ~failed' /\ pc = "free" /\ UNCHANGED disk /\ TypeOK /\ oldRid \in RIDs
  BY DEF FreeOld, CtlInv, Doing, Inv, fileVars, AtOperation
<1>1. pc' \notin {"index", "free", "unindex"} BY DEF FreeOld, OpDone
<1>2. /\ cache'.leaf = cache.leaf
      /\ \A r \in RIDs : \/ TupleAt(cache', r) = TupleAt(cache, r)
                         \/ r = oldRid /\ TupleAt(cache', r) = Free
      /\ TupleAt(cache', oldRid) = Free \/ "freeerr" \in Faults
  BY <1>0, FreeEffect DEF FreeOld
<1>3. /\ Sole(cache) /\ ~Owned(cache, oldRid)
      /\ \A k \in Keys : cache.leaf[k] = None \/ TupleAt(cache, cache.leaf[k]) # Free
  BY <1>0 DEF LinkInv, Linked
<1>4. \A k \in Keys : cache'.leaf[k] = None \/ TupleAt(cache', cache'.leaf[k]) # Free
  BY <1>0, <1>2, <1>3, LeafType DEF Owned
<1>5. Linked' BY <1>1, <1>2, <1>3, <1>4 DEF Linked, Sole
<1>6. Exact'
  <2>1. ASSUME "freeerr" \notin Faults, NEW r \in RIDs
        PROVE  TupleAt(cache', r) = Free \/ Owned(cache', r)
    <3>1. TupleAt(cache, r) = Free \/ Owned(cache, r) \/ r = oldRid
      BY <1>0, <2>1 DEF LinkInv, Exact
    <3> QED BY <1>2, <2>1, <3>1 DEF Owned
  <2> QED BY <1>0, <1>1, <2>1, DiskStays DEF Exact
<1> QED BY <1>0, <1>5, <1>6, DiskStays DEF LinkInv

LEMMA DeleteTupleLinks ==
  ASSUME Inv, LinkInv, CtlInv, DeleteTuple PROVE LinkInv'
<1>0. ~failed /\ ~failed' /\ pc = "apply" /\ pc' = "unindex" /\ UNCHANGED disk /\ TypeOK /\ Working
  BY DEF DeleteTuple, CtlInv, Doing, Inv, fileVars, Working
<1>1. Op.key \in Keys /\ Op.val = None BY <1>0, OpType DEF DeleteTuple
<1> DEFINE rid == cache.leaf[Op.key]
<1>2. rid # None /\ rid \in RIDs BY <1>0, <1>1, LeafType DEF DeleteTuple
<1>3. Op' = Op BY DEF DeleteTuple, Op, applyVars
<1>4. /\ cache'.leaf = cache.leaf
      /\ \A r \in RIDs : \/ TupleAt(cache', r) = TupleAt(cache, r)
                         \/ r = rid /\ TupleAt(cache', r) = Free
      /\ TupleAt(cache', rid) = Free \/ "freeerr" \in Faults
  BY <1>0, <1>2, FreeEffect DEF DeleteTuple
<1>5. /\ Sole(cache)
      /\ \A k \in Keys : cache.leaf[k] = None \/ TupleAt(cache, cache.leaf[k]) # Free
  BY <1>0 DEF LinkInv, Linked
<1>6. \A k \in Keys : \/ cache'.leaf[k] = None
                      \/ TupleAt(cache', cache'.leaf[k]) # Free
                      \/ k = Op.key
  BY <1>0, <1>1, <1>2, <1>4, <1>5, LeafType DEF Sole
<1>7. Linked' BY <1>0, <1>1, <1>2, <1>3, <1>4, <1>5, <1>6 DEF Linked, Sole
<1>8. Exact'
  <2>1. ASSUME "freeerr" \notin Faults, NEW r \in RIDs
        PROVE  TupleAt(cache', r) = Free \/ Owned(cache', r)
    <3>1. TupleAt(cache, r) = Free \/ Owned(cache, r) BY <1>0, <2>1 DEF LinkInv, Exact
    <3> QED BY <1>4, <3>1 DEF Owned
  <2> QED BY <1>0, <1>3, <1>4, <2>1, DiskStays DEF Exact
<1> QED BY <1>0, <1>7, <1>8, DiskStays DEF LinkInv

LEMMA UnindexLinks ==
  ASSUME Inv, LinkInv, CtlInv, Unindex PROVE LinkInv'
<1>0. ~failed /\ ~failed' /\ pc = "unindex" /\ UNCHANGED disk /\ TypeOK /\ Working
  BY DEF Unindex, CtlInv, Doing, Inv, fileVars, Working
<1>1. Op.key \in Keys /\ pc' \notin {"index", "free", "unindex"}
  BY <1>0, OpType DEF Unindex, OpDone
<1>2. /\ cache'.data = cache.data
      /\ \A k \in Keys : cache'.leaf[k] = IF k = Op.key THEN None ELSE cache.leaf[k]
  BY <1>0, <1>1, LeafEffect DEF Unindex
<1>3. \A r : TupleAt(cache', r) = TupleAt(cache, r) BY <1>2 DEF TupleAt
<1>4. /\ Sole(cache)
      /\ \A k \in Keys : \/ cache.leaf[k] = None \/ TupleAt(cache, cache.leaf[k]) # Free
                         \/ k = Op.key
  BY <1>0 DEF LinkInv, Linked
<1>5. Linked' BY <1>1, <1>2, <1>3, <1>4 DEF Linked, Sole
<1>6. Exact'
  <2>1. ASSUME "freeerr" \notin Faults, NEW r \in RIDs
        PROVE  TupleAt(cache', r) = Free \/ Owned(cache', r)
    <3>1. TupleAt(cache, r) = Free \/ Owned(cache, r) BY <1>0, <2>1 DEF LinkInv, Exact
    <3>2. TupleAt(cache, cache.leaf[Op.key]) = Free BY <1>0, <2>1 DEF LinkInv, Exact
    <3>3. CASE Owned(cache, r)
      <4>1. PICK k \in Keys : cache.leaf[k] = r BY <3>3 DEF Owned
      <4> QED BY <1>2, <1>3, <3>2, <4>1 DEF Owned
    <3> QED BY <1>3, <3>1, <3>3
  <2> QED BY <1>0, <1>1, <2>1, DiskStays DEF Exact
<1> QED BY <1>0, <1>5, <1>6, DiskStays DEF LinkInv

LEMMA NextLink ==
  ASSUME PlainFaults, Inv, Synced, CtlInv, LinkInv, [Next]_vars PROVE LinkInv'
<1>apply. CASE InsertTuple \/ IndexKey \/ FreeOld \/ DeleteTuple \/ Unindex
  BY <1>apply, InsertLinks, IndexLinks, FreeOldLinks, DeleteTupleLinks, UnindexLinks
<1>absent. CASE DeleteAbsent
  <2>1. ~failed /\ Between /\ Between' /\ UNCHANGED <<cache, disk>>
    BY <1>absent DEF DeleteAbsent, OpDone, CtlInv, Doing, Between, fileVars
  <2> QED BY <2>1, SameLinks
<1>write. CASE \E r \in Requests : Log(r) \/ LogFails(r)
  <2>1. ~failed /\ Between /\ Between' /\ UNCHANGED <<cache, disk>>
    BY <1>write DEF Log, LogFails, CanWrite, Between
  <2> QED BY <2>1, SameLinks
<1>fail. CASE ApplyFails
  <2>1. failed' /\ UNCHANGED <<cache, disk>> BY <1>fail DEF ApplyFails, fileVars
  <2> QED BY <2>1, SameLinks
<1>stamp. CASE StartFlush \/ ReplayEnds
  <2>1. ~failed /\ Between /\ Between' /\ UNCHANGED disk
    BY <1>stamp DEF StartFlush, ReplayEnds, StampMeta, PlainFaults, CtlInv, Doing, Between, fileVars
  <2>2. UNCHANGED cache \/ \E n, why : StampMeta(n, why)
    BY <1>stamp DEF StartFlush, ReplayEnds
  <2>3. cache'.leaf = cache.leaf /\ cache'.data = cache.data
    BY <2>2, StampEffect DEF Inv
  <2> QED BY <2>1, <2>3, SameLinks
<1>flush. CASE FlushAll
  <2>1. pc = "flush" /\ ~failed /\ disk' = WritePages(dirty) /\ Between
    BY <1>flush DEF FlushAll, CtlInv, Doing, Between
  <2>2. disk'.leaf = cache.leaf /\ disk'.data = cache.data BY <2>1, Flushed
  <2>3. Between' /\ cache'.leaf = cache.leaf /\ cache'.data = cache.data
    BY <1>flush, <2>2 DEF FlushAll, PowerOff, Between
  <2> QED BY <2>1, <2>2, <2>3, WrittenLinks
<1>flushfails. CASE FlushFails
  <2>1. pc = "flush" /\ ~failed /\ UNCHANGED disk /\ Between
    BY <1>flushfails DEF FlushFails, CtlInv, Doing, Between, fileVars
  <2>2. CASE pc' = "idle" /\ UNCHANGED cache
    BY <2>1, <2>2, SameLinks DEF Between
  <2>3. CASE PowerOff(disk') BY <2>1, <2>3, PowerOffLinks
  <2>4. CASE StampMeta(currentLSN, "close")
    <3>1. cache'.leaf = cache.leaf /\ cache'.data = cache.data BY <2>4, StampEffect DEF Inv
    <3>2. Between' BY <2>4 DEF StampMeta, Between
    <3> QED BY <2>1, <3>1, <3>2, SameLinks
  <2>5. PowerOff(disk) => PowerOff(disk') BY <2>1
  <2> QED BY <1>flushfails, <2>2, <2>3, <2>4, <2>5 DEF FlushFails
<1>crash. CASE Crash
  <2>1. PowerOff(disk') /\ UNCHANGED disk BY <1>crash DEF Crash
  <2> QED BY <2>1, PowerOffLinks
<1>other. CASE Start \/ SkipRecord \/ ReplayRecord \/ RemoveArchive \/ RotateLog \/ RotateFails
  <2>1. /\ Between /\ Between' /\ UNCHANGED <<failed, cache, disk>>
        /\ pc # "idle"
    BY <1>other
    DEF Start, SkipRecord, ReplayRecord, AtRecord, RemoveArchive, RotateLog, RotateFails,
        Between, fileVars, volatile
  <2>2. ~failed BY <2>1 DEF CtlInv, Doing
  <2> QED BY <2>1, <2>2, SameLinks
<1>stay. CASE vars' = vars
  <2>1. UNCHANGED <<pc, cur, pos, oldRid, newRid, failed, cache, disk>>
    BY <1>stay DEF vars, volatile
  <2>2. Op' = Op BY <2>1 DEF Op
  <2>3. Linked' BY <2>1, <2>2 DEF LinkInv, Linked
  <2>4. Exact' BY <2>1, <2>2 DEF LinkInv, Exact
  <2> QED BY <2>1, <2>3, <2>4, DiskStays DEF LinkInv
<1>plain. ~(ReplayFails \/ CrashInWrite \/ \E p \in PageIds : FlushPage(p) \/ Evict(p))
  BY DEF PlainFaults, ReplayFails, CrashInWrite, FlushPage, Evict
<1> QED
  BY <1>apply, <1>absent, <1>write, <1>fail, <1>stamp, <1>flush, <1>flushfails, <1>crash,
     <1>other, <1>stay, <1>plain DEF Next

-----------------------------------------------------------------------------
(* What the log and the pages say together. *)

(* Record n is the newest one to replay that touches key k. *)
Newest(n, k) == n \in Touching(k) /\ \A m \in Touching(k) : m <= n

(* Key k is still to be touched: by an operation of the record at hand, or by a
   later record of the recovery. *)
Todo(k) ==
  \/ Working /\ \E j \in pos..Len(cur) : cur[j].key = k
  \/ Working /\ \E n \in Touching(k) : n > At
  \/ pc = "replay" /\ \E n \in Touching(k) : n >= replayPos

(* The pages on disk and the log determine the map. *)
Durable ==
  \A k \in Keys :
    /\ Touching(k) = {} => hist[k] = Contents(disk)[k]
    /\ \A n \in 1..Len(wal) : Newest(n, k) =>
         \A j \in 1..Len(wal[n].ops) : LastTouch(wal[n].ops, j, k) => hist[k] = wal[n].ops[j].val

(* The pages in memory hold the map, but for the keys still to be touched. *)
Shown == pc # "down" /\ ~failed => \A k \in Keys : Todo(k) \/ Contents(cache)[k] = hist[k]

DataInv == Durable /\ Shown

LEMMA ContentsAt ==
  ASSUME NEW im, NEW k \in Keys
  PROVE  Contents(im)[k] = IF im.leaf[k] = None THEN None ELSE TupleAt(im, im.leaf[k])
BY DEF Contents, TupleAt

LEMMA SameContents ==
  ASSUME NEW im, NEW other, im.leaf = other.leaf, im.data = other.data
  PROVE  Contents(im) = Contents(other)
BY DEF Contents

LEMMA TouchingIn ==
  ASSUME Inv, NEW k PROVE Touching(k) \subseteq 1..Len(wal) /\ Len(wal) \in Nat
BY DEF Inv, TypeOK, Touching, Readable

(* Touching depends on the log and on the covered LSN. *)
LEMMA SameTouching ==
  ASSUME UNCHANGED wal, disk'.ckpt = disk.ckpt
  PROVE  \A k : Touching(k)' = Touching(k)
BY DEF Touching, Readable

LEMMA SameDurable ==
  ASSUME DataInv, UNCHANGED <<wal, disk, hist>> PROVE Durable'
<1>1. \A k : Touching(k)' = Touching(k) BY SameTouching
<1>2. \A n, k : Newest(n, k)' = Newest(n, k) BY <1>1 DEF Newest
<1> QED BY <1>1, <1>2 DEF DataInv, Durable

LEMMA InitData == Init => DataInv
<1> SUFFICES ASSUME Init PROVE DataInv OBVIOUS
<1>0. Readable(wal) = {} BY DEF Init, Readable
<1>1. \A k : Touching(k) = {} BY <1>0 DEF Touching
<1>2. \A k \in Keys : Contents(cache)[k] = None /\ Contents(disk)[k] = None /\ hist[k] = None
  BY DEF Init, FreshImage, Contents
<1>3. Durable BY <1>1, <1>2 DEF Durable, Newest
<1>4. Shown BY <1>2 DEF Shown
<1> QED BY <1>3, <1>4 DEF DataInv

(* Once every key has been touched, the map is what the pages show; nobody can
   be reading the log any more. *)
LEMMA ShownNow ==
  ASSUME DataInv, pc \notin {"down", "replay"}, ~Working, ~failed
  PROVE  \A k \in Keys : Contents(cache)[k] = hist[k]
BY DEF DataInv, Shown, Todo

(* A log that is covered adds nothing to the pages on disk. *)
LEMMA CoveredDurable ==
  ASSUME Inv, Whole, \A i \in 1..Len(wal') : i \in 1..Len(wal) /\ wal'[i] = wal[i] /\ wal[i].lsn <= disk'.ckpt,
         disk'.ckpt \in Nat, \A k \in Keys : hist'[k] = Contents(disk')[k]
  PROVE  Durable'
<1>1. \A i \in 1..Len(wal) : wal[i].lsn \in Nat BY WholeReadable
<1>2. \A i \in 1..Len(wal') : ~(wal'[i].lsn > disk'.ckpt) BY <1>1
<1>3. \A k : Touching(k)' = {} BY <1>2 DEF Touching, Readable
<1> QED BY <1>3 DEF Durable, Newest

(* An operation ends: its key shows what the operation wrote, the others what
   they did. *)
LEMMA OpDoneData ==
  ASSUME Inv, CtlInv, DataInv, Working, OpDone, ~failed, UNCHANGED <<wal, disk, hist>>,
         \A k \in Keys : k # Op.key => Contents(cache')[k] = Contents(cache)[k],
         Contents(cache')[Op.key] = Op.val
  PROVE  DataInv'
<1>1. /\ At \in 1..Len(wal) /\ cur = wal[At].ops /\ wal[At].lsn > disk.ckpt
      /\ pos \in 1..Len(cur) /\ cur \in Seq(Ops) /\ task \in {"client", "replay"}
  BY DEF CtlInv, OfRecord, Inv, AtOperation, TypeOK
<1>2. \A k : Touching(k)' = Touching(k) BY SameTouching
<1>3. \A k : Touching(k) \subseteq 1..Len(wal) /\ Len(wal) \in Nat BY TouchingIn
<1>4. Op.key \in Keys /\ Op = cur[pos] BY OpType DEF Op
<1>5. ASSUME NEW k \in Keys, ~Todo(k)' PROVE Contents(cache')[k] = hist[k]
  <2>1. /\ ~(\E n \in Touching(k) : n > At)
        /\ ~(\E j \in (pos + 1)..Len(cur) : cur[j].key = k)
    <3>1. CASE pos < Len(cur) /\ pc' = "apply" /\ pos' = pos + 1 /\ UNCHANGED <<task, cur, replayPos>>
      <4>1. Working' /\ At' = At BY <3>1 DEF Working, At
      <4> QED BY <1>2, <1>5, <3>1, <4>1 DEF Todo
    <3>2. CASE pos = Len(cur) /\ task = "client"
      <4>1. At = Len(wal) BY <3>2 DEF At
      <4>2. \A n \in Touching(k) : ~(n > At) BY <1>3, <4>1
      <4>3. (pos + 1)..Len(cur) = {} BY <1>1, <3>2
      <4> QED BY <4>2, <4>3
    <3>3. CASE pos = Len(cur) /\ task = "replay" /\ pc' = "replay" /\ replayPos' = replayPos + 1
      <4>1. At = replayPos BY <3>3 DEF At
      <4>2. \A n \in Touching(k) : ~(n >= replayPos + 1) BY <1>2, <1>5, <3>3 DEF Todo
      <4>3. \A n \in Touching(k) : ~(n > At) BY <1>1, <1>3, <4>1, <4>2
      <4>4. (pos + 1)..Len(cur) = {} BY <1>1, <3>3
      <4> QED BY <4>3, <4>4
    <3> QED BY <1>1, <3>1, <3>2, <3>3 DEF OpDone
  <2>2. CASE k = Op.key
    <3>1. cur[pos].key = k BY <1>4, <2>2
    <3>2. LastTouch(cur, pos, k) BY <1>1, <2>1, <3>1 DEF LastTouch
    <3>3. At \in Touching(k)
      <4>1. At \in Readable(wal) BY <1>1, WholeReadable DEF CtlInv
      <4> QED BY <1>1, <3>1, <4>1 DEF Touching
    <3>4. \A m \in Touching(k) : m <= At BY <1>1, <1>3, <2>1
    <3>5. Newest(At, k) BY <3>3, <3>4 DEF Newest
    <3>6. hist[k] = cur[pos].val BY <1>1, <3>2, <3>5 DEF DataInv, Durable
    <3> QED BY <1>4, <2>2, <3>6
  <2>3. CASE k # Op.key
    <3>1. \A j \in pos..Len(cur) : j = pos \/ j \in (pos + 1)..Len(cur) BY <1>1
    <3>2. ~Todo(k)
      <4>1. ~(\E j \in pos..Len(cur) : cur[j].key = k) BY <1>4, <2>1, <2>3, <3>1
      <4>2. pc # "replay" BY DEF Working
      <4> QED BY <2>1, <4>1, <4>2 DEF Todo
    <3>3. pc # "down" BY DEF Working
    <3> QED BY <2>3, <3>2, <3>3 DEF DataInv, Shown
  <2> QED BY <2>2, <2>3
<1>6. Shown' BY <1>5 DEF Shown
<1>7. Durable' BY SameDurable
<1> QED BY <1>6, <1>7 DEF DataInv

(* No step of an operation but its last one shows a key it does not touch. *)
LEMMA StepData ==
  ASSUME Inv, CtlInv, DataInv, Working, Working', ~failed,
         UNCHANGED <<task, cur, pos, replayPos, wal, disk, hist>>,
         \A k \in Keys : k # Op.key => Contents(cache')[k] = Contents(cache)[k]
  PROVE  DataInv'
<1>1. \A k : Touching(k)' = Touching(k) /\ At' = At BY SameTouching DEF At
<1>2. pos \in 1..Len(cur) /\ pos \in pos..Len(cur) /\ cur[pos] = Op
  BY DEF Inv, AtOperation, Op
<1>3. ASSUME NEW k \in Keys, ~Todo(k)' PROVE Contents(cache')[k] = hist[k]
  <2>1. ~Todo(k) BY <1>1, <1>3 DEF Todo, Working
  <2>2. k # Op.key BY <1>2, <2>1 DEF Todo
  <2>3. pc # "down" BY DEF Working
  <2> QED BY <2>1, <2>2, <2>3 DEF DataInv, Shown
<1>4. Shown' BY <1>3 DEF Shown
<1> QED BY <1>4, SameDurable DEF DataInv

(* The steps of applyPutInMemory and applyDeleteInMemory. *)
LEMMA ApplyData ==
  ASSUME Inv, CtlInv, LinkInv, DataInv,
         InsertTuple \/ IndexKey \/ FreeOld \/ DeleteAbsent \/ DeleteTuple \/ Unindex
  PROVE  DataInv'
<1>0. Working /\ TypeOK /\ ~failed /\ UNCHANGED <<wal, disk, hist>>
  BY DEF InsertTuple, IndexKey, FreeOld, DeleteAbsent, DeleteTuple, Unindex, Working, Inv,
         CtlInv, Doing, fileVars
<1>1. Op.key \in Keys BY <1>0, OpType
<1>2. \A k \in Keys : cache.leaf[k] # None => cache.leaf[k] \in RIDs BY <1>0, LeafType
<1>3. Sole(cache) BY <1>0 DEF LinkInv, Linked
<1>4. CASE InsertTuple
  <2>1. /\ newRid' \in RIDs /\ TupleAt(cache, newRid') = Free /\ cache'.leaf = cache.leaf
        /\ \A r \in RIDs : TupleAt(cache', r) = IF r = newRid' THEN Op.val ELSE TupleAt(cache, r)
    BY <1>4, InsertEffect
  <2>2. pc = "apply" /\ Working' /\ UNCHANGED <<task, cur, pos, replayPos>>
    BY <1>4 DEF InsertTuple, Working, replayVars
  <2>3. ASSUME NEW k \in Keys PROVE Contents(cache')[k] = Contents(cache)[k]
    <3>1. cache.leaf[k] # None => TupleAt(cache, cache.leaf[k]) # Free
      BY <1>0, <2>2 DEF LinkInv, Linked
    <3>2. cache.leaf[k] # None => TupleAt(cache', cache.leaf[k]) = TupleAt(cache, cache.leaf[k])
      BY <1>2, <2>1, <3>1
    <3> QED BY <2>1, <3>2, ContentsAt
  <2> QED BY <1>0, <2>2, <2>3, StepData
<1>5. CASE IndexKey
  <2>1. /\ cache'.data = cache.data
        /\ \A k \in Keys : cache'.leaf[k] = IF k = Op.key THEN newRid ELSE cache.leaf[k]
    BY <1>0, <1>1, <1>5, LeafEffect DEF IndexKey
  <2>2. TupleAt(cache, newRid) = Op.val /\ newRid # None
    BY <1>0, <1>5, NoRIDAssumption DEF IndexKey, LinkInv, Linked, Inv, AtOperation
  <2>3. \A r : TupleAt(cache', r) = TupleAt(cache, r) BY <2>1 DEF TupleAt
  <2>4. \A k \in Keys : k # Op.key => Contents(cache')[k] = Contents(cache)[k]
    BY <2>1, <2>3, ContentsAt
  <2>5. Contents(cache')[Op.key] = Op.val BY <1>1, <2>1, <2>2, <2>3, ContentsAt
  <2>6. CASE pc' = "free" /\ UNCHANGED <<task, applyVars, replayPos>>
    <3>1. Working' BY <2>6 DEF Working
    <3> QED BY <1>0, <2>4, <2>6, <3>1, StepData DEF applyVars
  <2>7. CASE OpDone BY <1>0, <2>4, <2>5, <2>7, OpDoneData
  <2> QED BY <1>5, <2>6, <2>7 DEF IndexKey
<1>6. CASE FreeOld
  <2>1. oldRid \in RIDs /\ pc = "free" /\ OpDone BY <1>6 DEF FreeOld, Inv, AtOperation
  <2>2. /\ cache'.leaf = cache.leaf
        /\ \A r \in RIDs : TupleAt(cache', r) = TupleAt(cache, r) \/ r = oldRid
    BY <1>0, <1>6, <2>1, FreeEffect DEF FreeOld
  <2>3. ~Owned(cache, oldRid) /\ Contents(cache)[Op.key] = Op.val
    BY <1>0, <1>1, <2>1, ContentsAt DEF LinkInv, Linked
  <2>4. ASSUME NEW k \in Keys PROVE Contents(cache')[k] = Contents(cache)[k]
    BY <1>2, <2>2, <2>3, ContentsAt DEF Owned
  <2> QED BY <1>0, <1>1, <2>1, <2>3, <2>4, OpDoneData
<1>7. CASE DeleteAbsent
  <2>1. OpDone /\ cache' = cache /\ Op.val = None /\ cache.leaf[Op.key] = None
    BY <1>7 DEF DeleteAbsent
  <2>2. Contents(cache)[Op.key] = Op.val BY <1>1, <2>1, ContentsAt
  <2> QED BY <1>0, <2>1, <2>2, OpDoneData
<1>8. CASE DeleteTuple
  <2> DEFINE rid == cache.leaf[Op.key]
  <2>1. rid # None /\ rid \in RIDs BY <1>1, <1>2, <1>8 DEF DeleteTuple
  <2>2. Working' /\ UNCHANGED <<task, cur, pos, replayPos>>
    BY <1>8 DEF DeleteTuple, Working, applyVars, replayVars
  <2>3. /\ cache'.leaf = cache.leaf
        /\ \A r \in RIDs : TupleAt(cache', r) = TupleAt(cache, r) \/ r = rid
    BY <1>0, <1>8, <2>1, FreeEffect DEF DeleteTuple
  <2>4. ASSUME NEW k \in Keys, k # Op.key PROVE Contents(cache')[k] = Contents(cache)[k]
    <3>1. cache.leaf[k] = None \/ cache.leaf[k] # rid BY <1>1, <1>3, <2>4 DEF Sole
    <3> QED BY <1>2, <2>3, <3>1, ContentsAt
  <2> QED BY <1>0, <2>2, <2>4, StepData
<1>9. CASE Unindex
  <2>1. /\ cache'.data = cache.data /\ OpDone /\ Op.val = None
        /\ \A k \in Keys : cache'.leaf[k] = IF k = Op.key THEN None ELSE cache.leaf[k]
    BY <1>0, <1>1, <1>9, LeafEffect DEF Unindex, LinkInv, Linked
  <2>2. \A r : TupleAt(cache', r) = TupleAt(cache, r) BY <2>1 DEF TupleAt
  <2>3. \A k \in Keys : k # Op.key => Contents(cache')[k] = Contents(cache)[k]
    BY <2>1, <2>2, ContentsAt
  <2>4. Contents(cache')[Op.key] = Op.val BY <1>1, <2>1, ContentsAt
  <2> QED BY <1>0, <2>1, <2>3, <2>4, OpDoneData
<1> QED BY <1>4, <1>5, <1>6, <1>7, <1>8, <1>9

(* A record is in the log, whether WAL.Write says so or not. *)
LEMMA WrittenDurable ==
  ASSUME Inv, LSNInv, Whole, DataInv, pc # "down", NEW rec \in LogRecords, ~rec.torn,
         rec.lsn = currentLSN + 1, wal' = Append(wal, rec), UNCHANGED disk,
         hist' = ApplyOps(hist, rec.ops)
  PROVE  /\ Durable'
         /\ \A k \in Keys : Touched(rec.ops, k) \/ hist'[k] = hist[k]
<1>1. wal \in Seq(LogRecords) /\ Len(wal) \in Nat /\ rec.ops \in Seq(Ops)
  BY DEF Inv, TypeOK, LogRecords
<1>2. /\ Len(wal') = Len(wal) + 1
      /\ \A i \in 1..Len(wal') : wal'[i] = IF i = Len(wal) + 1 THEN rec ELSE wal[i]
  BY <1>1
<1>3. Readable(wal) = 1..Len(wal) BY WholeReadable
<1>4. Readable(wal') = 1..Len(wal') BY <1>1, <1>2 DEF Whole, Readable
<1>5. rec.lsn > disk.ckpt
  <2>1. currentLSN \in Nat /\ disk.ckpt \in Nat /\ cache.ckpt \in Nat
    BY CkptType DEF Inv, TypeOK
  <2>2. disk.ckpt <= cache.ckpt /\ cache.ckpt <= currentLSN BY DEF LSNInv, CoveredLSNs
  <2> QED BY <2>1, <2>2
<1>6. ASSUME NEW k, NEW n
      PROVE  n \in Touching(k)' <=> n \in Touching(k) \/ (n = Len(wal) + 1 /\ Touched(rec.ops, k))
  <2>1. CASE n = Len(wal) + 1
    <3>1. n \in 1..Len(wal') /\ wal'[n] = rec /\ n \notin Readable(wal) BY <1>1, <1>2, <1>3, <2>1
    <3> QED BY <1>4, <1>5, <2>1, <3>1 DEF Touching, Touched
  <2>2. CASE n # Len(wal) + 1
    <3>1. n \in 1..Len(wal') <=> n \in 1..Len(wal) BY <1>1, <1>2, <2>2
    <3>2. n \in 1..Len(wal) => wal'[n] = wal[n] BY <1>2, <2>2, <3>1
    <3> QED BY <1>3, <1>4, <2>2, <3>1, <3>2 DEF Touching
  <2> QED BY <2>1, <2>2
<1>7. ASSUME NEW k \in Keys, ~Touched(rec.ops, k)
      PROVE  /\ hist'[k] = hist[k] /\ Touching(k)' = Touching(k)
             /\ \A n : Newest(n, k)' = Newest(n, k)
  <2>1. hist'[k] = hist[k] BY <1>7, UntouchedValue
  <2>2. \A n : n \in Touching(k)' <=> n \in Touching(k) BY <1>6, <1>7
  <2>3. Touching(k)' = Touching(k) BY <2>2
  <2> QED BY <2>1, <2>3 DEF Newest
<1>8. ASSUME NEW k \in Keys, Touched(rec.ops, k), NEW n, Newest(n, k)'
      PROVE  n = Len(wal) + 1
  <2>1. n \in Touching(k)' /\ Len(wal) + 1 <= n BY <1>6, <1>8 DEF Newest
  <2>2. n \in Touching(k) => n \in 1..Len(wal) BY TouchingIn
  <2> QED BY <1>1, <1>6, <2>1, <2>2
<1>9. Durable'
  <2>1. ASSUME NEW k \in Keys, Touching(k)' = {} PROVE hist'[k] = Contents(disk')[k]
    <3>1. ~Touched(rec.ops, k) BY <1>6, <2>1
    <3> QED BY <1>7, <2>1, <3>1 DEF DataInv, Durable
  <2>2. ASSUME NEW k \in Keys, NEW n \in 1..Len(wal'), Newest(n, k)',
               NEW j \in 1..Len(wal'[n].ops), LastTouch(wal'[n].ops, j, k)
        PROVE  hist'[k] = wal'[n].ops[j].val
    <3>1. CASE Touched(rec.ops, k)
      <4>1. wal'[n] = rec BY <1>2, <1>8, <2>2, <3>1
      <4> QED BY <1>1, <2>2, <4>1, TouchedValue
    <3>2. CASE ~Touched(rec.ops, k)
      <4>1. Newest(n, k) /\ n \in 1..Len(wal) BY <1>7, <2>2, <3>2, TouchingIn DEF Newest
      <4>2. wal'[n] = wal[n] BY <1>1, <1>2, <4>1
      <4> QED BY <1>7, <2>2, <3>2, <4>1, <4>2 DEF DataInv, Durable
    <3> QED BY <3>1, <3>2
  <2> QED BY <2>1, <2>2 DEF Durable
<1> QED BY <1>7, <1>9

LEMMA WriteData ==
  ASSUME PlainFaults, Inv, LSNInv, CtlInv, DataInv, NEW r \in Requests, Log(r) \/ LogFails(r)
  PROVE  DataInv'
<1> DEFINE rec == Record(currentLSN + 1, r.ops)
<1>1. rec \in LogRecords /\ rec.ops = r.ops /\ ~rec.torn /\ rec.lsn = currentLSN + 1
      /\ r.ops \in Seq(Ops)
  BY RequestRecord DEF Inv, Log, LogFails, Record
<1>2. pc = "idle" /\ ~failed /\ UNCHANGED <<cache, disk>> BY DEF Log, LogFails, CanWrite
<1>3. (wal' = Append(wal, rec) /\ hist' = ApplyOps(hist, rec.ops)) \/ UNCHANGED <<wal, hist>>
  BY <1>1 DEF Log, LogFails, PlainFaults
<1> HIDE DEF rec
<1>4. Durable'
  <2>1. CASE wal' = Append(wal, rec) /\ hist' = ApplyOps(hist, rec.ops)
    BY <1>1, <1>2, <2>1, WrittenDurable DEF CtlInv
  <2> QED BY <1>2, <1>3, <2>1, SameDurable
<1>5. CASE LogFails(r)
  <2>1. failed' BY <1>5 DEF LogFails
  <2> QED BY <1>4, <2>1 DEF DataInv, Shown
<1>6. CASE Log(r)
  <2>1. /\ pc' = "apply" /\ pos' = 1 /\ cur' = rec.ops
        /\ wal' = Append(wal, rec) /\ hist' = ApplyOps(hist, rec.ops)
    BY <1>1, <1>6 DEF Log, rec
  <2>2. \A k \in Keys : Contents(cache)[k] = hist[k]
    BY <1>2, ShownNow DEF Working
  <2>3. ASSUME NEW k \in Keys PROVE Todo(k)' \/ Contents(cache')[k] = hist'[k]
    <3>1. CASE Touched(rec.ops, k)
      BY <2>1, <3>1 DEF Todo, Working, Touched
    <3>2. CASE hist'[k] = hist[k] BY <1>2, <2>2, <3>2
    <3> QED BY <1>1, <1>2, <2>1, <3>1, <3>2, WrittenDurable DEF CtlInv
  <2> QED BY <1>4, <2>3 DEF DataInv, Shown
<1> QED BY <1>5, <1>6

(* A log that the meta page covers adds nothing to the pages. *)
LEMMA CoveredUntouched ==
  ASSUME Inv, Whole, disk.ckpt \in Nat, \A i \in 1..Len(wal) : wal[i].lsn <= disk.ckpt
  PROVE  \A k : Touching(k) = {}
<1>1. \A i \in 1..Len(wal) : wal[i].lsn \in Nat /\ ~(wal[i].lsn > disk.ckpt) BY WholeReadable
<1>2. \A k : Touching(k) \subseteq 1..Len(wal) BY TouchingIn
<1>3. ASSUME NEW k, NEW n \in Touching(k) PROVE FALSE
  BY <1>1, <1>2, <1>3 DEF Touching
<1> QED BY <1>3

(* Every page shows the map, and none of them changes. *)
LEMMA RestData ==
  ASSUME DataInv, ~failed, pc \notin {"down", "replay"}, ~Working, UNCHANGED hist,
         cache'.leaf = cache.leaf, cache'.data = cache.data, Durable'
  PROVE  DataInv'
<1>1. \A k \in Keys : Contents(cache')[k] = hist'[k] BY ShownNow, SameContents
<1> QED BY <1>1 DEF DataInv, Shown

LEMMA FlushData ==
  ASSUME PlainFaults, Inv, Synced, CtlInv, DataInv, StartFlush \/ FlushAll \/ FlushFails
  PROVE  DataInv'
<1>1. ~failed /\ pc \notin {"down", "replay"} /\ ~Working /\ UNCHANGED <<wal, hist>>
  BY DEF StartFlush, FlushAll, FlushFails, Working, CtlInv, Doing, PlainFaults, fileVars
<1>2. CASE StartFlush \/ FlushFails
  <2>1. UNCHANGED disk BY <1>2 DEF StartFlush, FlushFails, fileVars
  <2>2. Durable' BY <1>1, <2>1, SameDurable
  <2>3. UNCHANGED cache \/ pc' = "down" \/ \E n, why : StampMeta(n, why)
    BY <1>2 DEF StartFlush, FlushFails, PowerOff
  <2>4. CASE pc' = "down" BY <2>2, <2>4 DEF DataInv, Shown
  <2>5. CASE UNCHANGED cache BY <1>1, <2>2, <2>5, RestData
  <2>6. ASSUME NEW n, NEW why, StampMeta(n, why) PROVE DataInv'
    <3>1. cache'.leaf = cache.leaf /\ cache'.data = cache.data BY <2>6, StampEffect DEF Inv
    <3> QED BY <1>1, <2>2, <3>1, RestData
  <2> QED BY <2>3, <2>4, <2>5, <2>6
<1>3. CASE FlushAll
  <2>1. pc = "flush" /\ disk' = WritePages(dirty) BY <1>3 DEF FlushAll
  <2>2. disk'.ckpt = cache.ckpt /\ disk'.leaf = cache.leaf /\ disk'.data = cache.data
    BY <2>1, Flushed
  <2>3. Contents(disk') = Contents(cache) BY <2>2, SameContents
  <2>4. \A k \in Keys : hist'[k] = Contents(disk')[k] BY <1>1, <2>3, ShownNow
  <2>5. \A i \in 1..Len(wal) : wal[i].lsn <= disk'.ckpt BY <2>1, <2>2 DEF CtlInv, Covered
  <2>6. disk'.ckpt \in Nat BY <2>2, CkptType DEF Inv
  <2>7. Durable' BY <1>1, <2>4, <2>5, <2>6, CoveredDurable DEF CtlInv
  <2>8. CASE pc' = "down" BY <2>7, <2>8 DEF DataInv, Shown
  <2>9. CASE UNCHANGED cache BY <1>1, <2>7, <2>9, RestData
  <2> QED BY <1>3, <2>8, <2>9 DEF FlushAll, PowerOff
<1> QED BY <1>2, <1>3

LEMMA RotateData ==
  ASSUME Inv, CtlInv, DataInv, RemoveArchive \/ RotateLog \/ RotateFails PROVE DataInv'
<1>1. /\ pc \in {"remove", "rename"} /\ wal' \in {wal, << >>} /\ UNCHANGED <<hist, cache, disk>>
  BY DEF RemoveArchive, RotateLog, RotateFails
<1>2. ~failed /\ ~Working BY <1>1 DEF CtlInv, Doing, Working
<1>3. disk.ckpt \in Nat /\ \A i \in 1..Len(wal) : wal[i].lsn <= disk.ckpt
  BY <1>1, CkptType DEF CtlInv, Covered, Inv
<1>4. \A k \in Keys : hist[k] = Contents(disk)[k]
  BY <1>3, CoveredUntouched DEF CtlInv, DataInv, Durable
<1>5. \A i \in 1..Len(wal') : i \in 1..Len(wal) /\ wal'[i] = wal[i] BY <1>1
<1>6. Durable' BY <1>1, <1>3, <1>4, <1>5, CoveredDurable DEF CtlInv
<1> QED BY <1>1, <1>2, <1>6, RestData

LEMMA RecoverData ==
  ASSUME Inv, LSNInv, Synced, CtlInv, DataInv, Start \/ SkipRecord \/ ReplayRecord \/ ReplayEnds
  PROVE  DataInv'
<1>1. UNCHANGED <<wal, disk, hist, failed>> /\ Durable'
  BY SameDurable DEF Start, SkipRecord, ReplayRecord, ReplayEnds, fileVars
<1>2. \A k : Touching(k)' = Touching(k) BY <1>1, SameTouching
<1>3. \A k : Touching(k) \subseteq 1..Len(wal) /\ Len(wal) \in Nat BY TouchingIn
<1>4. CASE Start
  <2>1. pc = "down" /\ pc' = "replay" /\ replayPos' = 1 /\ UNCHANGED cache BY <1>4 DEF Start
  <2>2. cache.leaf = disk.leaf /\ cache.data = disk.data
    <3>1. cache.leaf = disk.leaf /\ \A p \in DataPages : cache.data[p] = disk.data[p]
      BY <2>1 DEF Synced
    <3>2. cache.data = [p \in DataPages |-> cache.data[p]]
          /\ disk.data = [p \in DataPages |-> disk.data[p]]
      BY DEF Inv, TypeOK, Images
    <3> QED BY <3>1, <3>2
  <2>3. Contents(cache') = Contents(disk) BY <2>1, <2>2, SameContents
  <2>4. ASSUME NEW k \in Keys PROVE Todo(k)' \/ Contents(cache')[k] = hist'[k]
    <3>1. CASE Touching(k) = {} BY <1>1, <2>3, <3>1 DEF DataInv, Durable
    <3>2. CASE Touching(k) # {}
      <4>1. \A n \in Touching(k) : n >= 1 BY <1>3
      <4> QED BY <1>2, <2>1, <3>2, <4>1 DEF Todo
    <3> QED BY <3>1, <3>2
  <2> QED BY <1>1, <2>4 DEF DataInv, Shown
<1>5. CASE SkipRecord
  <2>1. /\ pc = "replay" /\ pc' = "replay" /\ replayPos' = replayPos + 1 /\ UNCHANGED cache
        /\ replayPos <= Len(wal) /\ wal[replayPos].lsn <= base
    BY <1>5 DEF SkipRecord, AtRecord
  <2>2. ~failed /\ ~Working /\ replayPos \in 1..Len(wal) /\ base = disk.ckpt /\ base \in Nat
    BY <1>3, <2>1 DEF CtlInv, Doing, Working, Inv, TypeOK, ReadSoFar, Covered, Replaying
  <2>3. \A k : replayPos \notin Touching(k)
    <3>1. wal[replayPos].lsn \in Nat BY <2>2, WholeReadable DEF CtlInv
    <3>2. ~(wal[replayPos].lsn > disk.ckpt) BY <2>1, <2>2, <3>1
    <3> QED BY <3>2 DEF Touching
  <2>4. ASSUME NEW k \in Keys PROVE Todo(k)' \/ Contents(cache')[k] = hist'[k]
    <3>1. CASE Contents(cache)[k] = hist[k] BY <1>1, <2>1, <3>1
    <3>2. CASE Todo(k)
      <4>1. PICK n \in Touching(k) : n >= replayPos BY <2>2, <3>2 DEF Todo
      <4>2. n >= replayPos + 1 BY <1>3, <2>2, <2>3, <4>1
      <4> QED BY <1>2, <2>1, <4>1, <4>2 DEF Todo
    <3> QED BY <2>1, <2>2, <3>1, <3>2 DEF DataInv, Shown
  <2> QED BY <1>1, <2>4 DEF DataInv, Shown
<1>6. CASE ReplayRecord
  <2>0. /\ pc = "replay" /\ pc' = "apply" /\ cur' = wal[replayPos].ops /\ pos' = 1
        /\ UNCHANGED <<task, replayPos, cache>>
    BY <1>6 DEF ReplayRecord, AtRecord, replayVars
  <2>1. task = "replay" BY <2>0 DEF Inv, ReadSoFar
  <2>2. ~failed /\ ~Working /\ Working' /\ At' = replayPos /\ replayPos \in Nat
    BY <2>0, <2>1 DEF CtlInv, Doing, Working, At, Inv, TypeOK
  <2>3. ASSUME NEW k \in Keys PROVE Todo(k)' \/ Contents(cache')[k] = hist'[k]
    <3>1. CASE Contents(cache)[k] = hist[k] BY <1>1, <2>0, <3>1
    <3>2. CASE Todo(k)
      <4>1. PICK n \in Touching(k) : n >= replayPos BY <2>2, <3>2 DEF Todo
      <4>2. CASE n = replayPos
        <5>1. \E j \in 1..Len(wal[n].ops) : wal[n].ops[j].key = k BY <4>1 DEF Touching
        <5> QED BY <2>0, <2>2, <4>2, <5>1 DEF Todo
      <4>3. CASE n > replayPos BY <1>2, <2>0, <2>2, <4>1, <4>3 DEF Todo
      <4> QED BY <1>3, <2>2, <4>1, <4>2, <4>3
    <3> QED BY <2>0, <2>2, <3>1, <3>2 DEF DataInv, Shown
  <2> QED BY <1>1, <2>3 DEF DataInv, Shown
<1>7. CASE ReplayEnds
  <2>1. pc = "replay" /\ ~AtRecord BY <1>7 DEF ReplayEnds
  <2>2. ~failed /\ ~Working /\ replayPos \in 1..(Len(wal) + 1)
    BY <2>1 DEF CtlInv, Doing, Working, Inv, ReadSoFar
  <2>3. ~(replayPos <= Len(wal))
    <3>1. replayPos <= Len(wal) => replayPos \in 1..Len(wal) BY <1>3, <2>2
    <3>2. replayPos <= Len(wal) => ~wal[replayPos].torn BY <3>1 DEF CtlInv, Whole
    <3> QED BY <2>1, <3>2 DEF AtRecord
  <2>4. \A k \in Keys : Contents(cache)[k] = hist[k]
    <3> SUFFICES ASSUME NEW k \in Keys PROVE ~Todo(k)
      BY <2>1, <2>2 DEF DataInv, Shown
    <3>1. \A n \in Touching(k) : ~(n >= replayPos) BY <1>3, <2>2, <2>3
    <3> QED BY <2>2, <3>1 DEF Todo
  <2>5. cache'.leaf = cache.leaf /\ cache'.data = cache.data
    <3>1. UNCHANGED cache \/ StampMeta(highest, "recovered") BY <1>7 DEF ReplayEnds
    <3> QED BY <3>1, StampEffect DEF Inv
  <2>6. \A k \in Keys : Contents(cache')[k] = hist'[k] BY <1>1, <2>4, <2>5, SameContents
  <2> QED BY <1>1, <2>6 DEF DataInv, Shown
<1> QED BY <1>4, <1>5, <1>6, <1>7

LEMMA NextData ==
  ASSUME PlainFaults, Inv, LSNInv, Synced, CtlInv, LinkInv, DataInv, [Next]_vars PROVE DataInv'
<1>write. CASE \E r \in Requests : Log(r) \/ LogFails(r) BY <1>write, WriteData
<1>apply. CASE InsertTuple \/ IndexKey \/ FreeOld \/ DeleteAbsent \/ DeleteTuple \/ Unindex
  BY <1>apply, ApplyData
<1>flush. CASE StartFlush \/ FlushAll \/ FlushFails BY <1>flush, FlushData
<1>rotate. CASE RemoveArchive \/ RotateLog \/ RotateFails BY <1>rotate, RotateData
<1>recover. CASE Start \/ SkipRecord \/ ReplayRecord \/ ReplayEnds BY <1>recover, RecoverData
<1>die. CASE ApplyFails \/ Crash
  <2>1. (failed' \/ pc' = "down") /\ UNCHANGED <<wal, disk, hist>>
    BY <1>die DEF ApplyFails, Crash, PowerOff, fileVars
  <2>2. Durable' BY <2>1, SameDurable
  <2> QED BY <2>1, <2>2 DEF DataInv, Shown
<1>stay. CASE vars' = vars
  <2>1. UNCHANGED <<pc, task, cur, pos, failed, replayPos, cache, disk, wal, hist>>
    BY <1>stay DEF vars, volatile
  <2>2. \A k : Todo(k)' = Todo(k) BY <2>1, SameTouching DEF Todo, Working, At
  <2>3. Shown' BY <2>1, <2>2 DEF DataInv, Shown
  <2> QED BY <2>1, <2>3, SameDurable DEF DataInv
<1>plain. ~(ReplayFails \/ CrashInWrite \/ \E p \in PageIds : FlushPage(p) \/ Evict(p))
  BY DEF PlainFaults, ReplayFails, CrashInWrite, FlushPage, Evict
<1> QED
  BY <1>write, <1>apply, <1>flush, <1>rotate, <1>recover, <1>die, <1>stay, <1>plain DEF Next

-----------------------------------------------------------------------------
(* All of it. *)
Sound == Inv /\ LSNInv /\ Synced /\ CtlInv /\ LinkInv /\ DataInv

LEMMA SpecSound == ASSUME PlainFaults PROVE Spec => []Sound
<1>1. Init => CtlInv /\ LinkInv /\ DataInv BY InitCtl, InitLink, InitData
<1>2. Inv /\ LSNInv /\ Synced /\ (CtlInv /\ LinkInv /\ DataInv) /\ [Next]_vars
        => (CtlInv /\ LinkInv /\ DataInv)'
  BY NextCtl, NextLink, NextData
<1> QED BY <1>1, <1>2, SpecInv, SpecLSN, CleanPagesOnDisk, PTL DEF Spec, Sound

(* In every execution in which the log and the data file may fail, an operation
   may fail while it is applied, and the process may die anywhere but inside
   WAL.Write, a serving engine shows exactly the operations that the log was
   given, in log order: recoverFromWAL rebuilds what Get returned before. *)
THEOREM ServesWhatIsLogged == ASSUME PlainFaults PROVE Spec => []Visible
<1>1. Sound => Visible
  <2> SUFFICES ASSUME Sound, pc = "idle", ~failed PROVE Contents(cache) = hist BY DEF Visible
  <2>1. \A k \in Keys : Contents(cache)[k] = hist[k]
    BY ShownNow DEF Sound, Working
  <2>2. hist = [k \in Keys |-> hist[k]] /\ Contents(cache) = [k \in Keys |-> Contents(cache)[k]]
    BY DEF Sound, Inv, TypeOK, Maps, Contents
  <2> QED BY <2>1, <2>2
<1> QED BY <1>1, SpecSound, PTL

(* In every such execution in which freeTuple can also fetch the page of a dead
   tuple, a serving engine has exactly one key per live tuple: what replay
   writes a second time, it frees. *)
THEOREM NoTupleLost ==
  ASSUME PlainFaults, "freeerr" \notin Faults PROVE Spec => []SpaceExact
<1>1. Sound => SpaceExact
  <2> SUFFICES ASSUME Sound, pc = "idle", ~failed
               PROVE  /\ \A r \in Tuples : Owned(cache, r)
                      /\ Sole(cache)
    BY DEF SpaceExact, Owned, Sole
  <2>1. Sole(cache) BY DEF Sound, LinkInv, Linked
  <2>2. \A r \in RIDs : TupleAt(cache, r) = Free \/ Owned(cache, r)
    BY DEF Sound, LinkInv, Exact
  <2> QED BY <2>1, <2>2 DEF Tuples, TupleAt
<1> QED BY <1>1, SpecSound, PTL

-----------------------------------------------------------------------------
(* The engine implements the abstract store. *)
Status ==
  IF Offline THEN "offline" ELSE IF failed THEN "halted"
  ELSE IF pc = "idle" THEN "serving" ELSE "busy"

(* What a restart would come back with is the map of every logged operation. *)
LEMMA RecoveredIsHist == Sound => Recovered = hist
<1> SUFFICES ASSUME Sound PROVE Recovered = hist OBVIOUS
<1>1. Inv /\ CtlInv /\ Durable BY DEF Sound, DataInv
<1>2. ASSUME NEW k \in Keys PROVE Recovered[k] = hist[k]
  <2>1. CASE Touching(k) = {} BY <1>1, <2>1 DEF Recovered, Durable
  <2>2. CASE Touching(k) # {}
    <3> DEFINE last == CHOOSE n \in Touching(k) : \A m \in Touching(k) : m <= n
    <3>1. Touching(k) \subseteq 0..Len(wal) /\ Len(wal) \in Nat
      <4>1. Touching(k) \subseteq 1..Len(wal) /\ Len(wal) \in Nat BY <1>1, TouchingIn
      <4> QED BY <4>1
    <3>2. \E n \in Touching(k) : \A m \in Touching(k) : m <= n
      BY <2>2, <3>1, GreatestExists
    <3>3. Newest(last, k) BY <3>2 DEF Newest
    <3>4. Recovered[k] = ApplyOps(Contents(disk), wal[last].ops)[k] BY <2>2 DEF Recovered
    <3> HIDE DEF last
    <3>5. last \in 1..Len(wal) /\ Touched(wal[last].ops, k)
      BY <1>1, <3>3, TouchingIn DEF Newest, Touching, Touched
    <3>6. wal[last].ops \in Seq(Ops) BY <1>1, <3>5, WholeReadable DEF CtlInv
    <3>7. PICK j : LastTouch(wal[last].ops, j, k) BY <3>5, <3>6, LastTouchExists
    <3>8. hist[k] = wal[last].ops[j].val BY <1>1, <3>3, <3>5, <3>7 DEF Durable, LastTouch
    <3> QED BY <3>4, <3>6, <3>7, <3>8, TouchedValue
  <2> QED BY <2>1, <2>2
<1>3. hist = [k \in Keys |-> hist[k]] BY <1>1 DEF Inv, TypeOK, Maps
<1>4. Recovered = [k \in Keys |-> Recovered[k]] BY DEF Recovered
<1> QED BY <1>2, <1>3, <1>4

(* How the status of the engine changes. *)
LEMMA StatusStep ==
  ASSUME PlainFaults, Sound, [Next]_vars
  PROVE  \/ Status' \in {Status, "offline"}
         \/ Status = "serving" /\ Status' \in {"busy", "halted"}
         \/ Status = "busy" /\ Status' \in {"serving", "halted"}
         \/ Status = "offline" /\ Status' = "serving"
<1>0. Inv /\ Doing BY DEF Sound, CtlInv
<1>write. CASE \E r \in Requests : Log(r) \/ LogFails(r)
  <2>1. Status = "serving"
    BY <1>0, <1>write DEF Log, LogFails, CanWrite, Status, Offline, Doing
  <2>2. Status' \in {"busy", "halted"}
    BY <1>0, <1>write DEF Log, LogFails, CanWrite, Status, Offline, Doing
  <2> QED BY <2>1, <2>2
<1>apply. CASE InsertTuple \/ IndexKey \/ FreeOld \/ DeleteAbsent \/ DeleteTuple \/ Unindex
  <2>0. Working /\ failed' = failed
    BY <1>apply DEF InsertTuple, IndexKey, FreeOld, DeleteAbsent, DeleteTuple, Unindex, Working
  <2>1. Working /\ ~failed /\ ~failed' /\ task \in {"client", "replay"}
    BY <1>0, <2>0 DEF Working, Doing, Inv, AtOperation
  <2>2. \/ task' = task /\ pc' \notin {"down", "replay", "idle"}
        \/ task = "client" /\ pc' = "idle" /\ task' = "none"
        \/ task = "replay" /\ task' = task
    BY <1>0, <1>apply
    DEF InsertTuple, IndexKey, FreeOld, DeleteAbsent, DeleteTuple, Unindex, OpDone, applyVars,
        Inv, AtOperation, Working
  <2>3. CASE task = "client"
    <3>1. Status = "busy" BY <2>1, <2>3 DEF Status, Offline, Working
    <3>2. Status' \in {"busy", "serving"} BY <2>1, <2>2, <2>3 DEF Status, Offline
    <3> QED BY <3>1, <3>2
  <2>4. CASE task = "replay"
    <3>1. Status' = "offline" BY <2>2, <2>4 DEF Status, Offline
    <3> QED BY <3>1
  <2> QED BY <2>1, <2>3, <2>4
<1>fail. CASE ApplyFails
  <2>1. Status = "busy" BY <1>0, <1>fail DEF ApplyFails, Applying, Status, Offline, Doing
  <2>2. Status' = "halted" BY <1>fail DEF ApplyFails, Status, Offline
  <2> QED BY <2>1, <2>2
<1>start. CASE StartFlush
  <2>1. Status = "serving" BY <1>0, <1>start DEF StartFlush, PlainFaults, Status, Offline, Doing
  <2>2. Status' \in {"busy", "offline"}
    BY <1>0, <1>start DEF StartFlush, StampMeta, PlainFaults, Status, Offline, Doing
  <2> QED BY <2>1, <2>2
<1>flush. CASE FlushAll \/ FlushFails
  <2>1. pc = "flush" /\ ~failed /\ ~failed'
    BY <1>0, <1>flush DEF FlushAll, FlushFails, PowerOff, Doing
  <2>2. \/ task \in {"checkpoint", "snapshot", "recovered"} /\ pc' = "idle" /\ task' = "none"
        \/ task = "checkpoint" /\ pc' = "remove" /\ task' = task
        \/ pc' = "down" \/ task' = "close"
    BY <1>0, <1>flush DEF FlushAll, FlushFails, PowerOff, StampMeta, Doing
  <2>3. Status \in {"busy", "offline"} BY <2>1 DEF Status, Offline
  <2>4. task = "checkpoint" => Status = "busy" BY <2>1 DEF Status, Offline
  <2>5. Status' \in {"serving", "offline"} \/ (task = "checkpoint" /\ Status' = "busy")
    BY <2>1, <2>2 DEF Status, Offline
  <2> QED BY <2>3, <2>4, <2>5
<1>rotate. CASE RemoveArchive \/ RotateLog \/ RotateFails
  <2>0. pc \in {"remove", "rename"} /\ failed' = failed
    BY <1>rotate DEF RemoveArchive, RotateLog, RotateFails, volatile
  <2>1. pc \in {"remove", "rename"} /\ ~failed /\ ~failed' BY <1>0, <2>0 DEF Doing
  <2>2. Status = "busy" BY <1>0, <2>1 DEF Status, Offline, Doing
  <2>3. \/ pc' = "rename" /\ task' = task
        \/ pc' = "idle" /\ task' = "none"
    BY <1>rotate DEF RemoveArchive, RotateLog, RotateFails, volatile
  <2>4. Status' \in {"busy", "serving"} BY <1>0, <2>1, <2>3 DEF Status, Offline, Doing
  <2> QED BY <2>2, <2>4
<1>recover. CASE Start \/ SkipRecord \/ ReplayRecord \/ ReplayEnds
  <2>1. pc \in {"down", "replay"} /\ ~failed /\ ~failed' /\ (pc = "replay" => task = "replay")
    BY <1>0, <1>recover
    DEF Start, SkipRecord, ReplayRecord, AtRecord, ReplayEnds, Doing, Inv, ReadSoFar
  <2>2. Status = "offline" BY <2>1 DEF Status, Offline
  <2>3. \/ task' \in {"replay", "recovered"}
        \/ pc' = "idle" /\ task' = "none"
    BY <2>1, <1>recover DEF Start, SkipRecord, ReplayRecord, AtRecord, ReplayEnds, StampMeta
  <2>4. Status' \in {"offline", "serving"} BY <2>1, <2>3 DEF Status, Offline
  <2> QED BY <2>2, <2>4
<1>crash. CASE Crash
  <2>1. Status' = "offline" BY <1>crash DEF Crash, PowerOff, Status, Offline
  <2> QED BY <2>1
<1>stay. CASE vars' = vars
  <2>1. Status' = Status BY <1>stay DEF vars, volatile, Status, Offline
  <2> QED BY <2>1
<1>plain. ~(ReplayFails \/ CrashInWrite \/ \E p \in PageIds : FlushPage(p) \/ Evict(p))
  BY DEF PlainFaults, ReplayFails, CrashInWrite, FlushPage, Evict
<1> QED
  BY <1>write, <1>apply, <1>fail, <1>start, <1>flush, <1>rotate, <1>recover, <1>crash,
     <1>stay, <1>plain DEF Next

(* Only WAL.Write changes what the log holds. *)
LEMMA HistStep ==
  ASSUME [Next]_vars, ~(\E r \in Requests : Log(r) \/ LogFails(r)) PROVE hist' = hist
BY DEF Next, InsertTuple, IndexKey, FreeOld, DeleteAbsent, DeleteTuple, Unindex, ApplyFails,
       StartFlush, FlushAll, FlushPage, Evict, FlushFails, RemoveArchive, RotateLog, RotateFails,
       Crash, CrashInWrite, Start, SkipRecord, ReplayRecord, ReplayEnds, ReplayFails, vars

LEMMA KVStep ==
  ASSUME PlainFaults, Sound, Visible, Visible', Recovered = hist, Recovered' = hist', [Next]_vars
  PROVE  [KV!KVNext]_(KV!kvVars)
<1> DEFINE hidden == [k \in Keys |-> None]
<1>1. /\ View = [st |-> Status, map |-> IF Status = "serving" THEN Contents(cache) ELSE hidden]
      /\ View' = [st |-> Status', map |-> IF Status' = "serving" THEN Contents(cache') ELSE hidden]
  BY DEF View, Status
<1>2. /\ Status = "serving" => Contents(cache) = hist
      /\ Status' = "serving" => Contents(cache') = hist'
  BY DEF Visible, Status, Offline
<1>3. /\ View = [st |-> Status, map |-> IF Status = "serving" THEN hist ELSE hidden]
      /\ View' = [st |-> Status', map |-> IF Status' = "serving" THEN hist' ELSE hidden]
  BY <1>1, <1>2
<1>4. View.st = Status /\ (Status = "serving" => View.map = hist) BY <1>3
<1>write. CASE \E r \in Requests : Log(r) \/ LogFails(r)
  <2>0. Inv /\ Doing BY DEF Sound, CtlInv
  <2>1. PICK r \in Requests : Log(r) \/ LogFails(r) BY <1>write
  <2>2. Status = "serving" /\ \A c \in r.conds : Holds(c, Contents(cache))
    BY <2>0, <2>1 DEF Log, LogFails, CanWrite, Status, Offline, Doing
  <2>3. Status' \in {"busy", "halted"}
    BY <2>0, <2>1 DEF Log, LogFails, CanWrite, Status, Offline, Doing
  <2>4. View' \in {KV!Hidden("busy"), KV!Hidden("halted")} BY <1>3, <2>3 DEF KV!Hidden
  <2>5. CASE hist' = ApplyOps(hist, r.ops)
    <3>1. \A c, m : KV!Holds(c, m) = Holds(c, m) BY DEF KV!Holds, Holds
    <3>2. KV!ApplyOps(hist, r.ops) = ApplyOps(hist, r.ops)
      BY DEF KV!ApplyOps, KV!ApplyPrefix, ApplyOps, ApplyPrefix
    <3>3. View.st = "serving" /\ \A c \in r.conds : KV!Holds(c, View.map)
      BY <1>2, <1>4, <2>2, <3>1
    <3>4. KV!KVCommit(r) BY <2>4, <2>5, <3>2, <3>3 DEF KV!KVCommit
    <3> QED BY <3>4 DEF KV!KVNext
  <2>6. CASE hist' = hist /\ LogFails(r)
    <3>1. Status' = "halted" BY <2>0, <2>6 DEF LogFails, CanWrite, Status, Offline, Doing
    <3>2. KV!KVHalt BY <1>3, <1>4, <2>2, <2>6, <3>1 DEF KV!KVHalt, KV!Hidden
    <3> QED BY <3>2 DEF KV!KVNext
  <2> QED BY <2>1, <2>5, <2>6 DEF Log, LogFails
<1>read. CASE ~(\E r \in Requests : Log(r) \/ LogFails(r))
  <2>1. hist' = hist BY <1>read, HistStep
  <2>2. CASE Status' = "offline"
    <3>1. KV!KVStop BY <1>3, <2>1, <2>2 DEF KV!KVStop, KV!Hidden
    <3> QED BY <3>1 DEF KV!KVNext
  <2>3. CASE Status' = Status
    <3>1. View' = View BY <1>3, <2>1, <2>3
    <3> QED BY <2>1, <3>1 DEF KV!kvVars
  <2>4. CASE Status = "serving" /\ Status' = "busy"
    <3>1. KV!KVLock BY <1>3, <1>4, <2>1, <2>4 DEF KV!KVLock, KV!Hidden
    <3> QED BY <3>1 DEF KV!KVNext
  <2>5. CASE Status \in {"serving", "busy"} /\ Status' = "halted"
    <3>1. KV!KVHalt BY <1>3, <1>4, <2>1, <2>5 DEF KV!KVHalt, KV!Hidden
    <3> QED BY <3>1 DEF KV!KVNext
  <2>6. CASE Status = "busy" /\ Status' = "serving"
    <3>1. KV!KVAck BY <1>3, <1>4, <2>1, <2>6 DEF KV!KVAck, KV!Serving
    <3> QED BY <3>1 DEF KV!KVNext
  <2>7. CASE Status = "offline" /\ Status' = "serving"
    <3>1. KV!KVStart BY <1>3, <1>4, <2>1, <2>7 DEF KV!KVStart, KV!Serving
    <3> QED BY <3>1 DEF KV!KVNext
  <2> QED BY <2>2, <2>3, <2>4, <2>5, <2>6, <2>7, StatusStep
<1> QED BY <1>write, <1>read

LEMMA InitStore ==
  ASSUME Init, Recovered = hist PROVE KV!KVInit
<1>1. hist = [k \in Keys |-> None] BY DEF Init
<1>2. Contents(cache) = hist BY <1>1 DEF Init, FreshImage, Contents
<1>3. View = [st |-> "serving", map |-> hist] BY <1>2 DEF Init, View, Offline
<1> QED BY <1>1, <1>3 DEF KV!KVInit, KV!Serving

(* The engine implements KVStore: under the faults named above a request becomes
   durable at once, when WAL.Write has its record, what readers are given is
   what a restart would give, and no flush, checkpoint, rotation, failure, crash
   or replay changes either. *)
THEOREM EngineImplementsStore == ASSUME PlainFaults PROVE Spec => ImplementsKVStore
<1>1. Spec => []Sound BY SpecSound
<1>2. Spec => []Visible BY ServesWhatIsLogged
<1>3. Sound => Recovered = hist BY RecoveredIsHist
<1>4. Init /\ Recovered = hist => KV!KVInit BY InitStore
<1>5. Sound /\ Visible /\ Visible' /\ Recovered = hist /\ (Recovered = hist)' /\ [Next]_vars
        => [KV!KVNext]_(KV!kvVars)
  BY KVStep
<1> QED BY <1>1, <1>2, <1>3, <1>4, <1>5, PTL DEF Spec, ImplementsKVStore, KV!KVSpec
=============================================================================
