------------------------------- MODULE Engine -------------------------------
(***************************************************************************)
(* The storage engine of internal/api: the write-ahead log, the pages in   *)
(* the buffer pool and on disk, checkpoints, crashes and recovery.         *)
(*                                                                         *)
(* Writers, Checkpoint, CreateSnapshot and Close hold Engine.mu            *)
(* exclusively, so one of them runs at a time; pc says how far it is.  The *)
(* process may die between any two of its steps.                           *)
(*                                                                         *)
(* Abstractions.  The index is the root leaf alone (module BPlusTree of    *)
(* the plan models its shape).  Every tuple takes one slot; a page is full *)
(* when every slot holds a live tuple, so "free space" is a free slot.     *)
(* A large value is one tuple.  Disk pages outlive a crash once written:   *)
(* DiskManager.WritePage fsyncs, and so does WAL.Write.                    *)
(***************************************************************************)
EXTENDS KVOps

CONSTANTS
  Free,          \* the content of a slot that holds no tuple
  NumPages,      \* bound: data pages the file may grow to
  NumSlots,      \* tuples that fit in a data page
  MaxLSN,        \* bound: LSNs assigned, and records in the log file
  MaxCrashes,    \* bound: how often the process dies
  Faults         \* the hazards of the environment that may happen

(* "steal"       a dirty page is evicted, hence written, before a checkpoint
   "tornflush"   FlushAll stops after some of its page writes: the process
                 dies, or with "ioerr" the next write fails
   "torn"        the process dies inside WAL.Write, leaving a torn record
   "ioerr"       a write, fsync or rename of the log or the data file fails
   "applyerr"    a logged operation fails while it is applied
   "freeerr"     freeTuple cannot fetch the page of a dead tuple
   "replayerr"   a record fails while recovery applies it
   "closehalted" a halted engine is closed or checkpointed, not killed      *)
FaultKinds == {"steal", "tornflush", "torn", "ioerr",
               "applyerr", "freeerr", "replayerr", "closehalted"}

ASSUME EngineAssumption ==
  /\ Free \notin Vals \cup {None}
  /\ NumPages \in Nat \ {0}
  /\ NumSlots \in Nat \ {0}
  /\ MaxLSN \in Nat
  /\ MaxCrashes \in Nat
  /\ Faults \subseteq FaultKinds

VARIABLES
  pc,          \* how far the goroutine that holds Engine.mu has got
  task,        \* what it is doing
  cur, pos,    \* operations being applied, and the one it is at
  oldRid, newRid, \* applyPutInMemory's oldRID and rid
  currentLSN,  \* WAL.currentLSN
  walOpen,     \* FALSE when WAL.Checkpoint failed after closing its file
  active,      \* Engine.activeDataPage
  reclaim,     \* Engine.reclaim: data pages known to hold dead tuples
  failed,      \* Engine.failed # nil
  base, replayPos, highest, \* recoverFromWAL: lastCheckpointLSN, position,
                            \* highestReplayedLSN
  cache,       \* the newest version of every page
  dirty,       \* pages whose newest version is not yet on disk
  disk,        \* the data file
  numData,     \* data pages allocated in the file
  wal, bak,    \* the log file and its archived generation
  crashes,     \* times the process died
  hist         \* history: the map after every operation the log holds

volatile == <<task, cur, pos, oldRid, newRid, currentLSN, walOpen, active,
              reclaim, failed, base, replayPos, highest>>
vars == <<pc, volatile, cache, dirty, disk, numData, wal, bak, crashes, hist>>

-----------------------------------------------------------------------------
(* Pages.  Page numbers are those initFreshV1 gives. *)
MetaPage  == 0
LeafPage  == 1
DataPages == 2..(NumPages + 1)
PageIds   == {MetaPage, LeafPage} \cup DataPages
Slots     == 1..NumSlots
RIDs      == [page : DataPages, slot : Slots]

ASSUME NoRIDAssumption == None \notin RIDs

(* The content of all pages: MetaData.LastCheckpointLSN and ActiveDataPageID,
   the leaf's entries, the data pages' slots. *)
Images == [ckpt : Nat, active : DataPages, leaf : [Keys -> RIDs \cup {None}],
           data : [DataPages -> [Slots -> Vals \cup {Free}]]]

FreshImage ==
  [ckpt |-> 0, active |-> 2, leaf |-> [k \in Keys |-> None],
   data |-> [p \in DataPages |-> [s \in Slots |-> Free]]]

(* What Get returns for every key: None if the index has no entry, Free if the
   entry leads to a dead tuple (Get fails with ErrTupleDeleted). *)
Contents(im) ==
  [k \in Keys |-> IF im.leaf[k] = None THEN None
                  ELSE im.data[im.leaf[k].page][im.leaf[k].slot]]

(* DiskManager.WritePage of every page in S. *)
WritePages(S) ==
  [ckpt   |-> IF MetaPage \in S THEN cache.ckpt ELSE disk.ckpt,
   active |-> IF MetaPage \in S THEN cache.active ELSE disk.active,
   leaf   |-> IF LeafPage \in S THEN cache.leaf ELSE disk.leaf,
   data   |-> [p \in DataPages |->
                 IF p \in S THEN cache.data[p] ELSE disk.data[p]]]

(* The first tombstoned slot of a page, or its next new one. *)
FreeSlots(p) == {s \in Slots : cache.data[p][s] = Free}
FreeSlot(p)  == CHOOSE s \in FreeSlots(p) : \A t \in FreeSlots(p) : s <= t

-----------------------------------------------------------------------------
(* The log. *)
Record(lsn, ops) == [lsn |-> lsn, ops |-> ops, torn |-> FALSE]
LogRecords       == [lsn : Nat, ops : Seq(Ops), torn : BOOLEAN]
TornRecord       == [lsn |-> 0, ops |-> << >>, torn |-> TRUE]

(* Records before the first torn one: DecodeRecord reads no further. *)
Readable(log) == {i \in 1..Len(log) : \A j \in 1..i : ~log[j].torn}

LSNs(log) == {log[i].lsn : i \in Readable(log)}

(* findHighestLSN.  A torn record ends the scan.  One whose header claims less than
   a header (zeros), which ends Replay too, is an error here, and OpenWAL fails:
   the engine stays down and nothing is changed, so there is no step for it. *)
HighestLSN(log) ==
  IF LSNs(log) = {} THEN 0
  ELSE CHOOSE n \in LSNs(log) : \A m \in LSNs(log) : m <= n

(* Mutants of OpenLSN: SetCurrentLSN is forgotten, so an empty log after two
   rotations starts again at 1; or the log is not scanned. *)
OpenLSNFromLog(ckpt)  == IF HighestLSN(wal) = 0 THEN HighestLSN(bak) ELSE HighestLSN(wal)
OpenLSNFromMeta(ckpt) == ckpt

(* OpenWAL's currentLSN, then SetCurrentLSN(meta.LastCheckpointLSN). *)
OpenLSN(ckpt) ==
  LET found == IF HighestLSN(wal) = 0 THEN HighestLSN(bak) ELSE HighestLSN(wal)
  IN  IF ckpt > found THEN ckpt ELSE found

-----------------------------------------------------------------------------
(* newEngineInstance after initFreshV1. *)
Init ==
  /\ pc = "idle" /\ task = "none"
  /\ cur = << >> /\ pos = 0 /\ oldRid = None /\ newRid = None
  /\ currentLSN = 0 /\ walOpen = TRUE
  /\ active = 2 /\ reclaim = {} /\ failed = FALSE
  /\ base = 0 /\ replayPos = 0 /\ highest = 0
  /\ cache = FreshImage /\ dirty = {} /\ disk = FreshImage /\ numData = 1
  /\ wal = << >> /\ bak = << >>
  /\ crashes = 0
  /\ hist = [k \in Keys |-> None]

(* The volatile state of a process that is not running.  im is what the data
   file holds: the next process starts from it. *)
PowerOff(im) ==
  /\ pc' = "down" /\ task' = "none"
  /\ cur' = << >> /\ pos' = 0 /\ oldRid' = None /\ newRid' = None
  /\ currentLSN' = 0 /\ walOpen' = TRUE
  /\ active' = 2 /\ reclaim' = {} /\ failed' = FALSE
  /\ base' = 0 /\ replayPos' = 0 /\ highest' = 0
  /\ cache' = im /\ dirty' = {}

replayVars == <<base, replayPos, highest>>
fileVars   == <<disk, numData, wal, bak, crashes>>
applyVars  == <<cur, pos, oldRid, newRid>>

-----------------------------------------------------------------------------
(* Put, PutIf, PutIfAbsent, Delete, DeleteIf and BatchWriteIf up to the point
   where WAL.Write has returned: the conditions are evaluated, the whole
   request becomes one record, and it is on disk. *)
CanWrite(r) ==
  /\ pc = "idle" /\ ~failed
  /\ currentLSN < MaxLSN /\ Len(wal) < MaxLSN
  /\ \A c \in r.conds : Holds(c, Contents(cache))

Log(r) ==
  /\ CanWrite(r) /\ walOpen
  /\ currentLSN' = currentLSN + 1
  /\ wal' = Append(wal, Record(currentLSN + 1, r.ops))
  /\ hist' = ApplyOps(hist, r.ops)
  /\ cur' = r.ops /\ pos' = 1
  /\ pc' = "apply" /\ task' = "client"
  /\ UNCHANGED <<oldRid, newRid, walOpen, active, reclaim, failed, replayVars,
                 cache, dirty, disk, numData, bak, crashes>>

(* WAL.Write fails and the engine halts.  The bytes may not have reached the
   file, may all be in it (the fsync failed), or may be cut short. *)
LogFails(r) ==
  /\ CanWrite(r)
  /\ "ioerr" \in Faults \/ ~walOpen
  /\ currentLSN' = currentLSN + 1
  /\ failed' = TRUE
  /\ \/ UNCHANGED <<wal, hist>>
     \/ /\ walOpen
        /\ wal' = Append(wal, Record(currentLSN + 1, r.ops))
        /\ hist' = ApplyOps(hist, r.ops)
     \/ /\ walOpen /\ "torn" \in Faults
        /\ wal' = Append(wal, TornRecord)
        /\ UNCHANGED hist
  /\ UNCHANGED <<pc, task, applyVars, walOpen, active, reclaim, replayVars,
                 cache, dirty, disk, numData, bak, crashes>>

-----------------------------------------------------------------------------
(* applyPutInMemory and applyDeleteInMemory, one page at a time: between two
   pages a page may be evicted and the process may die. *)
Op == cur[pos]

(* Mutant: one operation too many. *)
OpDoneTooFar ==
  /\ oldRid' = None /\ newRid' = None
  /\ pc' = "apply" /\ pos' = pos + 1
  /\ UNCHANGED <<task, cur, replayPos, highest>>

OpDone ==
  /\ oldRid' = None /\ newRid' = None
  /\ \/ /\ pos < Len(cur)
        /\ pc' = "apply" /\ pos' = pos + 1
        /\ UNCHANGED <<task, cur, replayPos, highest>>
     \/ /\ pos = Len(cur)
        /\ cur' = << >> /\ pos' = 0
        /\ IF task = "client"
           THEN /\ pc' = "idle" /\ task' = "none"
                /\ UNCHANGED <<replayPos, highest>>
           ELSE /\ pc' = "replay" /\ replayPos' = replayPos + 1
                /\ highest' = IF wal[replayPos].lsn > highest
                              THEN wal[replayPos].lsn ELSE highest
                /\ UNCHANGED task

(* insertTuple: the active page, else a page of reclaim, else a new page. *)
Target ==
  IF FreeSlots(active) # {} THEN {active}
  ELSE LET known == {p \in reclaim \ {active} : FreeSlots(p) # {}}
       IN  IF known # {} THEN known
           ELSE IF numData < NumPages THEN {numData + 2} ELSE {}

InsertTuple ==
  /\ pc = "apply" /\ Op.val # None
  /\ oldRid' = cache.leaf[Op.key]
  /\ \E p \in Target :
       /\ newRid' = [page |-> p, slot |-> FreeSlot(p)]
       /\ cache' = [cache EXCEPT !.data[p][FreeSlot(p)] = Op.val, !.active =
                      IF p = active THEN @ ELSE p]
       /\ dirty' = dirty \cup {p} \cup (IF p = active THEN {} ELSE {MetaPage})
       /\ active' = p
       /\ reclaim' = reclaim \ {p}
       /\ numData' = IF p - 1 > numData THEN p - 1 ELSE numData
  /\ pc' = "index"
  /\ UNCHANGED <<task, cur, pos, currentLSN, walOpen, failed, replayVars,
                 disk, wal, bak, crashes, hist>>

(* Mutant: the leaf is unpinned clean, so no flush writes it. *)
IndexKeyClean ==
  /\ pc = "index"
  /\ cache' = [cache EXCEPT !.leaf[Op.key] = newRid]
  /\ \/ /\ oldRid # None /\ pc' = "free"
        /\ UNCHANGED <<task, applyVars, replayPos, highest>>
     \/ /\ oldRid = None /\ OpDone
  /\ UNCHANGED <<currentLSN, walOpen, active, reclaim, failed, base, dirty,
                 fileVars, hist>>

IndexKey ==
  /\ pc = "index"
  /\ cache' = [cache EXCEPT !.leaf[Op.key] = newRid]
  /\ dirty' = dirty \cup {LeafPage}
  /\ \/ /\ oldRid # None /\ pc' = "free"
        /\ UNCHANGED <<task, applyVars, replayPos, highest>>
     \/ /\ oldRid = None /\ OpDone
  /\ UNCHANGED <<currentLSN, walOpen, active, reclaim, failed, base, fileVars,
                 hist>>

(* Mutant: the page is queued for reuse and the tuple is not tombstoned. *)
FreeTupleAlive(rid) ==
  /\ reclaim' = IF rid.page = active THEN reclaim ELSE reclaim \cup {rid.page}
  /\ UNCHANGED <<cache, dirty>>

(* freeTuple tombstones the tuple at rid and remembers its page.  It reports no
   error: a page it cannot fetch keeps the dead tuple. *)
FreeTuple(rid) ==
  \/ /\ cache' = [cache EXCEPT !.data[rid.page][rid.slot] = Free]
     /\ dirty' = dirty \cup {rid.page}
     /\ reclaim' = IF rid.page = active THEN reclaim ELSE reclaim \cup {rid.page}
  \/ /\ "freeerr" \in Faults
     /\ UNCHANGED <<cache, dirty, reclaim>>

FreeOld ==
  /\ pc = "free"
  /\ FreeTuple(oldRid)
  /\ OpDone
  /\ UNCHANGED <<currentLSN, walOpen, active, failed, base, fileVars, hist>>

DeleteAbsent ==
  /\ pc = "apply" /\ Op.val = None
  /\ cache.leaf[Op.key] = None
  /\ OpDone
  /\ UNCHANGED <<currentLSN, walOpen, active, reclaim, failed, base, cache,
                 dirty, fileVars, hist>>

DeleteTuple ==
  /\ pc = "apply" /\ Op.val = None
  /\ cache.leaf[Op.key] # None
  /\ FreeTuple(cache.leaf[Op.key])
  /\ pc' = "unindex"
  /\ UNCHANGED <<task, applyVars, currentLSN, walOpen, active, failed,
                 replayVars, fileVars, hist>>

Unindex ==
  /\ pc = "unindex"
  /\ cache' = [cache EXCEPT !.leaf[Op.key] = None]
  /\ dirty' = dirty \cup {LeafPage}
  /\ OpDone
  /\ UNCHANGED <<currentLSN, walOpen, active, reclaim, failed, base, fileVars,
                 hist>>

Applying == pc \in {"apply", "index", "unindex"}

(* A client's operation fails part way: Engine.halt. *)
ApplyFails ==
  /\ Applying /\ task = "client" /\ "applyerr" \in Faults
  /\ failed' = TRUE
  /\ pc' = "idle" /\ task' = "none"
  /\ cur' = << >> /\ pos' = 0 /\ oldRid' = None /\ newRid' = None
  /\ UNCHANGED <<currentLSN, walOpen, active, reclaim, replayVars, cache,
                 dirty, fileVars, hist>>

-----------------------------------------------------------------------------
(* Mutant: the meta page claims the next LSN, not the last one. *)
StampMetaNext(lsn, why) ==
  /\ cache' = [cache EXCEPT !.ckpt = lsn + 1, !.active = active]
  /\ dirty' = dirty \cup {MetaPage}
  /\ pc' = "flush" /\ task' = why

(* updateMeta followed by FlushAll: Checkpoint, CreateSnapshot, Close, and
   recovery, which records the highest LSN it replayed. *)
StampMeta(lsn, why) ==
  /\ cache' = [cache EXCEPT !.ckpt = lsn, !.active = active]
  /\ dirty' = dirty \cup {MetaPage}
  /\ pc' = "flush" /\ task' = why

StartFlush ==
  /\ pc = "idle"
  /\ failed => "closehalted" \in Faults
  /\ \E why \in {"checkpoint", "snapshot", "close"} : StampMeta(currentLSN, why)
  /\ UNCHANGED <<applyVars, currentLSN, walOpen, active, reclaim, failed,
                 replayVars, fileVars, hist>>

FlushAll ==
  /\ pc = "flush"
  /\ disk' = WritePages(dirty)
  /\ \/ /\ task = "close" /\ PowerOff(disk')
     \/ /\ task # "close"
        /\ dirty' = {}
        /\ pc' = IF task = "checkpoint" THEN "remove" ELSE "idle"
        /\ task' = IF task = "checkpoint" THEN task ELSE "none"
        /\ base' = 0 /\ replayPos' = 0 /\ highest' = 0
        /\ UNCHANGED <<applyVars, currentLSN, walOpen, active, reclaim, failed,
                       cache>>
  /\ UNCHANGED <<numData, wal, bak, crashes, hist>>

(* One page write of FlushAll, when it may not get to the next: a crash or
   FlushFails follows. *)
FlushPage(p) ==
  /\ pc = "flush" /\ "tornflush" \in Faults
  /\ p \in dirty
  /\ disk' = WritePages({p})
  /\ dirty' = dirty \ {p}
  /\ UNCHANGED <<pc, volatile, cache, numData, wal, bak, crashes, hist>>

(* FlushAll fails, at its first write or behind those of FlushPage.  A checkpoint
   returns the error; Close closes the files all the same; a failed recovery calls
   Close, which stamps the meta page again. *)
FlushFails ==
  /\ pc = "flush" /\ "ioerr" \in Faults
  /\ \/ /\ task \in {"checkpoint", "snapshot"}
        /\ pc' = "idle" /\ task' = "none"
        /\ UNCHANGED <<applyVars, currentLSN, walOpen, active, reclaim, failed,
                       replayVars, cache, dirty>>
     \/ /\ task = "close"
        /\ PowerOff(disk)
     \/ /\ task = "recovered"
        /\ StampMeta(currentLSN, "close")
        /\ UNCHANGED <<applyVars, currentLSN, walOpen, active, reclaim, failed,
                       replayVars>>
  /\ UNCHANGED <<fileVars, hist>>

(* The buffer pool evicts a dirty page to make room for another one.  FlushAll
   holds the pool's lock to its end. *)
Evict(p) ==
  /\ "steal" \in Faults
  /\ pc \notin {"down", "flush"}
  /\ p \in dirty
  /\ disk' = WritePages({p})
  /\ dirty' = dirty \ {p}
  /\ UNCHANGED <<pc, volatile, cache, numData, wal, bak, crashes, hist>>

(* WAL.Checkpoint: the old log is synced and closed, the old archive removed,
   the log takes its place, and a new log file is opened. *)
RemoveArchive ==
  /\ pc = "remove" /\ walOpen
  /\ bak' = << >>
  /\ pc' = "rename"
  /\ UNCHANGED <<volatile, cache, dirty, disk, numData, wal, crashes, hist>>

RotateLog ==
  /\ pc = "rename"
  /\ bak' = wal /\ wal' = << >>
  /\ pc' = "idle" /\ task' = "none"
  /\ UNCHANGED <<applyVars, currentLSN, walOpen, active, reclaim, failed,
                 replayVars, cache, dirty, disk, numData, crashes, hist>>

(* The fsync or the close fails, as they do when an earlier rotation left the
   log closed; or the rename, or opening the new file, fails. *)
RotateFails ==
  /\ "ioerr" \in Faults
  /\ \/ pc = "remove" /\ walOpen' \in {walOpen, FALSE} /\ UNCHANGED <<wal, bak>>
     \/ pc = "rename" /\ walOpen' = FALSE /\ UNCHANGED <<wal, bak>>
     \/ pc = "rename" /\ walOpen' = FALSE /\ bak' = wal /\ wal' = << >>
  /\ pc' = "idle" /\ task' = "none"
  /\ UNCHANGED <<applyVars, currentLSN, active, reclaim, failed, replayVars,
                 cache, dirty, disk, numData, crashes, hist>>

-----------------------------------------------------------------------------
(* The process dies: what is not in a file is gone. *)
Crash ==
  /\ pc # "down" /\ crashes < MaxCrashes
  /\ crashes' = crashes + 1
  /\ PowerOff(disk)
  /\ UNCHANGED <<disk, numData, wal, bak, hist>>

(* It dies inside WAL.Write. *)
CrashInWrite ==
  /\ "torn" \in Faults
  /\ pc = "idle" /\ ~failed /\ walOpen
  /\ crashes < MaxCrashes /\ Len(wal) < MaxLSN
  /\ crashes' = crashes + 1
  /\ wal' = Append(wal, TornRecord)
  /\ PowerOff(disk)
  /\ UNCHANGED <<disk, numData, bak, hist>>

(* NewEngine, up to recoverFromWAL. *)
Start ==
  /\ pc = "down"
  /\ pc' = "replay" /\ task' = "replay"
  /\ currentLSN' = OpenLSN(disk.ckpt)
  /\ active' = disk.active
  /\ base' = disk.ckpt /\ replayPos' = 1 /\ highest' = 0
  /\ UNCHANGED <<applyVars, walOpen, reclaim, failed, cache, dirty, fileVars,
                 hist>>

AtRecord == pc = "replay" /\ replayPos <= Len(wal) /\ ~wal[replayPos].torn

(* A record the last checkpoint covers.  Mutant first: it is read again. *)
SkipRecordStuck ==
  /\ AtRecord /\ wal[replayPos].lsn <= base
  /\ UNCHANGED vars

SkipRecord ==
  /\ AtRecord /\ wal[replayPos].lsn <= base
  /\ replayPos' = replayPos + 1
  /\ UNCHANGED <<pc, task, applyVars, currentLSN, walOpen, active, reclaim,
                 failed, base, highest, cache, dirty, fileVars, hist>>

ReplayRecord ==
  /\ AtRecord /\ wal[replayPos].lsn > base
  /\ cur' = wal[replayPos].ops /\ pos' = 1
  /\ pc' = "apply"
  /\ UNCHANGED <<task, oldRid, newRid, currentLSN, walOpen, active, reclaim,
                 failed, replayVars, cache, dirty, fileVars, hist>>

(* The end of the log, or the first torn record. *)
ReplayEnds ==
  /\ pc = "replay" /\ ~AtRecord
  /\ \/ /\ highest = 0
        /\ pc' = "idle" /\ task' = "none"
        /\ base' = 0 /\ replayPos' = 0
        /\ UNCHANGED <<highest, cache, dirty>>
     \/ /\ highest # 0
        /\ StampMeta(highest, "recovered")
        /\ UNCHANGED replayVars
  /\ UNCHANGED <<applyVars, currentLSN, walOpen, active, reclaim, failed,
                 fileVars, hist>>

(* Recovery fails: newEngineInstance closes the engine and returns the error. *)
ReplayFails ==
  /\ Applying /\ task = "replay" /\ "replayerr" \in Faults
  /\ StampMeta(currentLSN, "close")
  /\ UNCHANGED <<applyVars, currentLSN, walOpen, active, reclaim, failed,
                 replayVars, fileVars, hist>>

-----------------------------------------------------------------------------
Next ==
  \/ \E r \in Requests : Log(r) \/ LogFails(r)
  \/ InsertTuple
  \/ IndexKey
  \/ FreeOld
  \/ DeleteAbsent
  \/ DeleteTuple
  \/ Unindex
  \/ ApplyFails
  \/ StartFlush
  \/ FlushAll
  \/ \E p \in PageIds : FlushPage(p) \/ Evict(p)
  \/ FlushFails
  \/ RemoveArchive
  \/ RotateLog
  \/ RotateFails
  \/ Crash
  \/ CrashInWrite
  \/ Start
  \/ SkipRecord
  \/ ReplayRecord
  \/ ReplayEnds
  \/ ReplayFails

Spec == Init /\ [][Next]_vars

(* The goroutine that holds Engine.mu keeps running: no step of these waits for
   another goroutine, and the scheduler of the Go runtime is fair. *)
Continue ==
  \/ InsertTuple \/ IndexKey \/ FreeOld \/ DeleteAbsent \/ DeleteTuple \/ Unindex
  \/ ApplyFails \/ FlushAll \/ FlushFails \/ RemoveArchive \/ RotateLog
  \/ RotateFails \/ SkipRecord \/ ReplayRecord \/ ReplayEnds \/ ReplayFails

FairSpec == Spec /\ WF_vars(Continue)

-----------------------------------------------------------------------------
(* Type invariant: the values each part of the engine's state ranges over; in
   particular the operation being applied is one of the record's, and every
   RID of the leaf is a slot of a data page. *)
TypeOK ==
  /\ pc \in {"down", "replay", "idle", "apply", "index", "free", "unindex",
             "flush", "remove", "rename"}
  /\ task \in {"none", "client", "replay", "checkpoint", "snapshot", "close",
               "recovered"}
  /\ cur \in Seq(Ops) /\ pos \in 0..Len(cur)
  /\ oldRid \in RIDs \cup {None} /\ newRid \in RIDs \cup {None}
  /\ currentLSN \in Nat /\ walOpen \in BOOLEAN
  /\ active \in DataPages /\ reclaim \subseteq DataPages
  /\ failed \in BOOLEAN
  /\ base \in Nat /\ replayPos \in Nat /\ highest \in Nat
  /\ cache \in Images /\ dirty \subseteq PageIds /\ disk \in Images
  /\ numData \in 1..NumPages
  /\ wal \in Seq(LogRecords) /\ bak \in Seq(LogRecords)
  /\ crashes \in 0..MaxCrashes
  /\ hist \in Maps

(* An engine that serves shows every operation whose record reached the log,
   in log order, and nothing else: after any interleaving of writes,
   checkpoints and crashes, recoverFromWAL rebuilds what Get and Scan returned
   before, and replaying a record never uncovers an older value. *)
Visible == pc = "idle" /\ ~failed => Contents(cache) = hist

(* Space accounting of insertTuple and freeTuple: whenever the engine serves,
   every live tuple belongs to exactly one key.  Replay re-inserts values, and
   applyPutInMemory must then free the copy a flush had already written. *)
Tuples == {r \in RIDs : cache.data[r.page][r.slot] # Free}
SpaceExact ==
  pc = "idle" /\ ~failed =>
    /\ \A r \in Tuples : \E k \in Keys : cache.leaf[k] = r
    /\ \A k, l \in Keys : cache.leaf[k] # None /\ cache.leaf[k] = cache.leaf[l] => k = l

(* What a restart would come back with: the records above the checkpoint, in
   order, over the pages on disk. *)
Touching(k) == {n \in Readable(wal) : /\ wal[n].lsn > disk.ckpt
                                      /\ \E j \in 1..Len(wal[n].ops) : wal[n].ops[j].key = k}

Recovered ==
  [k \in Keys |->
     IF Touching(k) = {} THEN Contents(disk)[k]
     ELSE LET last == CHOOSE n \in Touching(k) : \A m \in Touching(k) : m <= n
          IN  ApplyOps(Contents(disk), wal[last].ops)[k]]

(* What readers are given. *)
Offline == pc \in {"down", "replay"} \/ task \in {"replay", "recovered", "close"}

View ==
  LET st == IF Offline THEN "offline" ELSE IF failed THEN "halted"
            ELSE IF pc = "idle" THEN "serving" ELSE "busy"
  IN  [st |-> st,
       map |-> IF st = "serving" THEN Contents(cache) ELSE [k \in Keys |-> None]]

KV == INSTANCE KVStore WITH db <- Recovered, view <- View

(* The engine implements the abstract store: a request becomes durable in one
   step, when WAL.Write has synced its record, and no flush, checkpoint,
   rotation, failure, crash or replay changes what a restart would show. *)
ImplementsKVStore == KV!KVSpec

(* WAL.Write never assigns an LSN that the data file says is covered:
   recoverFromWAL skips such a record (rec.LSN <= lastCheckpointLSN) and an
   acknowledged write is lost without an error.  OpenWAL and SetCurrentLSN must
   keep it so across rotations, restarts and every failure. *)
FreshLSN ==
  [][\A n \in 1..Len(wal') : n > Len(wal) /\ ~wal'[n].torn => wal'[n].lsn > disk.ckpt]_vars

(* LSNs grow strictly along the archived log and the log, across rotations and
   restarts: a follower that streams both files (Leader.StreamWAL) relies on
   it, and so does findHighestLSN's use of the archive.  Of readable records, that
   is: the LSN of a torn one is given again. *)
LogOrdered ==
  /\ \A i, j \in Readable(wal) : i < j => wal[i].lsn < wal[j].lsn
  /\ \A i \in Readable(bak), j \in Readable(wal) : bak[i].lsn < wal[j].lsn

(* LastCheckpointLSN on disk never goes back: the records between the two
   values may already be archived or gone. *)
CheckpointMonotone == [][disk'.ckpt >= disk.ckpt]_vars

(* The engine lock is released: a write, a checkpoint or a recovery ends, in
   success or in failure, unless the process dies first. *)
LockReleased == pc \notin {"idle", "down"} ~> pc \in {"idle", "down"}
=============================================================================
