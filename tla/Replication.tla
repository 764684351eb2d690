---------------------------- MODULE Replication -----------------------------
(***************************************************************************)
(* Leader, broadcaster and followers of internal/replication, over the     *)
(* engines of internal/api.                                                *)
(*                                                                         *)
(* The leader's log is a sequence of records numbered from 1, kept in      *)
(* files: generation g holds the records gens[g]+1 .. gens[g+1], the last  *)
(* generation what follows.  A stream's handler reads the archived file,   *)
(* then the active one, then the channel it subscribed to before reading.  *)
(* It holds an open file, so a rotation does not change what it reads.     *)
(*                                                                         *)
(* Engine (and what module Engine shows of it) is reduced to its durable   *)
(* map, the records it logged since the last checkpoint, and its LSN.      *)
(***************************************************************************)
EXTENDS KVOps

CONSTANTS
  Followers,   \* follower processes
  ReplicaIds,  \* names followers give to the leader
  ReplicaId,   \* the -replica-id of each follower
  Batched,     \* the requests sent by BatchWrite: logged as one OpBatch
  NoSub,       \* a replica id without a subscriber
  Hidden,      \* what a follower that is down shows
  ChanCap,     \* capacity of a subscriber's channel (1024 in StreamWAL)
  NetCap,      \* records under way on a stream before Send blocks
  MaxLSN,      \* bound: records of the leader
  MaxGens,     \* bound: log files of the leader, rotated ones included
  MaxFaults,   \* bound: crashes and broken connections
  Faults       \* what may go wrong

(* "break"     a connection breaks
   "crash"     a follower dies
   "leader"    the leader dies
   "halt"      a logged record cannot be applied, or a rotation fails
   "skip"      a record cannot be logged, and the leader is closed *)
FaultKinds == {"break", "crash", "leader", "halt", "skip"}

ASSUME ReplicationAssumption ==
  /\ ReplicaId \in [Followers -> ReplicaIds]
  /\ NoSub \notin Followers \X {"live", "old"} /\ Hidden \notin Maps
  /\ Batched \subseteq Requests
  /\ \A r \in Requests \ Batched : Len(r.ops) = 1
  /\ ChanCap \in Nat \ {0} /\ NetCap \in Nat \ {0}
  /\ MaxLSN \in Nat /\ MaxGens \in Nat \ {0} /\ MaxFaults \in Nat
  /\ Faults \subseteq FaultKinds

VARIABLES
  \* the leader
  lpc,        \* what the goroutine that holds Engine.mu does; "down", "halted"
  log,        \* its records by LSN: [batch, ops], Hole for an LSN no record has
  published,  \* LSN of the last record acknowledged and broadcast
  gens, walGen, bakGen, \* its log files: starts, which is active, archived (0: none)
  subs,       \* Broadcaster.subscribers: whose channel an id leads to
  acks,       \* LeaderServer.acks
  \* a stream: StreamWAL's handler, its channel, the messages under way
  phase, from, handle, sent, \* FromLsn, open file, maxReplayedLSN then lastSentLSN
  chan, net,
  old,        \* an earlier handler of the follower has not returned yet
  \* a follower
  fpc,        \* "down", "waiting" to connect, "streaming"
  applied,    \* FollowerClient.lastAppliedLSN
  flsn,       \* LSN of its own engine's log
  mem, disk, tail, \* its engine: the map, the map on disk, operations logged since
  \* bookkeeping
  faults,     \* faults so far
  hist        \* history: hist[n+1] is the leader's map after n records

leaderVars   == <<lpc, log, published, gens, walGen, bakGen>>
streamVars   == <<phase, from, handle, sent, chan, net>>
followerVars == <<fpc, applied, flsn, mem, disk, tail>>
vars == <<leaderVars, subs, acks, streamVars, old, followerVars, faults, hist>>

Empty == [k \in Keys |-> None]

Init ==
  /\ lpc = "idle" /\ log = << >> /\ published = 0
  /\ gens = <<0>> /\ walGen = 1 /\ bakGen = 0
  /\ subs = [id \in ReplicaIds |-> NoSub] /\ acks = [id \in ReplicaIds |-> 0]
  /\ phase = [f \in Followers |-> "none"]
  /\ from = [f \in Followers |-> 0] /\ handle = [f \in Followers |-> 0]
  /\ sent = [f \in Followers |-> 0]
  /\ chan = [f \in Followers |-> << >>] /\ net = [f \in Followers |-> << >>]
  /\ old = [f \in Followers |-> FALSE]
  /\ fpc = [f \in Followers |-> "waiting"]
  /\ applied = [f \in Followers |-> 0] /\ flsn = [f \in Followers |-> 0]
  /\ mem = [f \in Followers |-> Empty] /\ disk = [f \in Followers |-> Empty]
  /\ tail = [f \in Followers |-> << >>]
  /\ faults = 0 /\ hist = <<Empty>>

May(kind) == kind \in Faults /\ faults < MaxFaults /\ faults' = faults + 1

-----------------------------------------------------------------------------
(* The broadcaster.  A channel is open as long as the map leads to it: whoever
   removes it from the map closes it. *)
Open(f) == subs[ReplicaId[f]] = <<f, "live">>

(* A channel's owner: the follower's current stream, or an earlier one. *)
Registered == {f \in Followers : Open(f)}

(* Mutant: a full channel stays open and the record is dropped. *)
BroadcastDrops(lsn) ==
  /\ chan' = [f \in Followers |-> IF f \in Registered /\ Len(chan[f]) < ChanCap
                                  THEN Append(chan[f], lsn) ELSE chan[f]]
  /\ UNCHANGED subs

Broadcast(lsn) ==
  LET full == {f \in Registered : Len(chan[f]) >= ChanCap} IN
  /\ chan' = [f \in Followers |-> IF f \in Registered \ full THEN Append(chan[f], lsn)
                                  ELSE chan[f]]
  /\ subs' = [id \in ReplicaIds |->
                IF \E f \in full : ReplicaId[f] = id THEN NoSub ELSE subs[id]]

(* Subscribe: the id's previous channel is closed, whoever reads it. *)
Subscribe(f) == subs' = [subs EXCEPT ![ReplicaId[f]] = <<f, "live">>]

(* The deferred unsubscribe of a handler removes its own channel only. *)
Unsubscribe(f, which) ==
  subs' = [subs EXCEPT ![ReplicaId[f]] = IF @ = <<f, which>> THEN NoSub ELSE @]

-----------------------------------------------------------------------------
(* The leader's writer: WAL.Write, then the pages, then OnCommit, under mu. *)
LeaderWrite(r, batch) ==
  /\ lpc = "idle" /\ Len(log) < MaxLSN
  /\ batch = (r \in Batched)
  /\ log' = Append(log, [batch |-> batch, ops |-> r.ops])
  /\ hist' = Append(hist, ApplyOps(hist[Len(hist)], r.ops))
  /\ lpc' = "commit"
  /\ UNCHANGED <<published, gens, walGen, bakGen, subs, acks, streamVars, old,
                 followerVars, faults>>

OnCommit ==
  /\ lpc = "commit"
  /\ Broadcast(Len(log))
  /\ published' = Len(log)
  /\ lpc' = "idle"
  /\ UNCHANGED <<log, gens, walGen, bakGen, acks, phase, from, handle, sent, net,
                 old, followerVars, faults, hist>>

(* WAL.Checkpoint. *)
RemoveArchive ==
  /\ lpc = "idle" /\ Len(gens) < MaxGens
  /\ bakGen' = 0 /\ lpc' = "rename"
  /\ UNCHANGED <<log, published, gens, walGen, subs, acks, streamVars, old,
                 followerVars, faults, hist>>

RenameLog ==
  /\ lpc = "rename"
  /\ bakGen' = walGen /\ walGen' = 0 /\ lpc' = "create"
  /\ UNCHANGED <<log, published, gens, subs, acks, streamVars, old,
                 followerVars, faults, hist>>

NewLog ==
  /\ gens' = Append(gens, Len(log))
  /\ walGen' = Len(gens) + 1

CreateLog ==
  /\ lpc = "create"
  /\ NewLog /\ lpc' = "idle"
  /\ UNCHANGED <<log, published, bakGen, subs, acks, streamVars, old,
                 followerVars, faults, hist>>

(* Engine.halt, or a rotation that leaves the log closed: no commit follows. *)
LeaderHalts ==
  /\ lpc \in {"commit", "rename", "create"} /\ May("halt")
  /\ lpc' = "halted"
  /\ UNCHANGED <<log, published, gens, walGen, bakGen, subs, acks, streamVars,
                 old, followerVars, hist>>

(* Every stream ends with the process; its records survive it. *)
LeaderDies ==
  /\ lpc' = "down"
  /\ subs' = [id \in ReplicaIds |-> NoSub] /\ acks' = [id \in ReplicaIds |-> 0]
  /\ phase' = [f \in Followers |-> "none"]
  /\ from' = [f \in Followers |-> 0] /\ handle' = [f \in Followers |-> 0]
  /\ sent' = [f \in Followers |-> 0]
  /\ chan' = [f \in Followers |-> << >>] /\ net' = [f \in Followers |-> << >>]
  /\ old' = [f \in Followers |-> FALSE]
  /\ fpc' = [f \in Followers |-> IF fpc[f] = "down" THEN "down" ELSE "waiting"]
  /\ UNCHANGED <<published, gens, walGen, bakGen, applied, flsn, mem, disk, tail>>

LeaderCrash ==
  lpc # "down" /\ May("leader") /\ LeaderDies /\ UNCHANGED <<log, hist>>

(* WAL.Write takes an LSN and fails, as it always does after a failed rotation.
   The engine is halted, and when it is closed it stamps that LSN on the data
   file: SetCurrentLSN goes on behind it, and no record ever has it. *)
Hole == [batch |-> FALSE, ops |-> << >>]

LeaderSkips ==
  /\ lpc \in {"idle", "rename", "create"} /\ May("skip") /\ Len(log) < MaxLSN
  /\ log' = Append(log, Hole)
  /\ hist' = Append(hist, hist[Len(hist)])
  /\ LeaderDies

(* OpenWAL creates the log file if a rotation died before it did. *)
LastRecord(n) ==
  /\ n = 0 \/ log[n] # Hole
  /\ \A m \in (n + 1)..Len(log) : log[m] = Hole

LeaderStart ==
  /\ lpc = "down"
  /\ lpc' = "idle" /\ published' \in {n \in 0..Len(log) : LastRecord(n)}
  /\ IF walGen = 0 THEN NewLog ELSE UNCHANGED <<gens, walGen>>
  /\ UNCHANGED <<log, bakGen, subs, acks, streamVars, old, followerVars, faults, hist>>

-----------------------------------------------------------------------------
(* SyncLoop asks for the records it lacks; StreamWAL subscribes at once. *)
Connect(f) ==
  /\ fpc[f] = "waiting" /\ lpc # "down"
  /\ fpc' = [fpc EXCEPT ![f] = "streaming"]
  /\ phase' = [phase EXCEPT ![f] = "archive"]
  /\ from' = [from EXCEPT ![f] = applied[f] + 1]
  /\ Subscribe(f)
  /\ UNCHANGED <<leaderVars, acks, handle, sent, chan, net, old, applied, flsn,
                 mem, disk, tail, faults, hist>>

(* wal.Replay opens a file, or finds none. *)
AfterFile(p) == IF p = "archive" THEN "active" ELSE "handoff"

OpenFile(f) ==
  LET gen == IF phase[f] = "archive" THEN bakGen ELSE walGen IN
  /\ phase[f] \in {"archive", "active"} /\ handle[f] = 0
  /\ IF gen # 0
     THEN handle' = [handle EXCEPT ![f] = gen] /\ UNCHANGED phase
     ELSE phase' = [phase EXCEPT ![f] = AfterFile(@)] /\ UNCHANGED handle
  /\ UNCHANGED <<leaderVars, subs, acks, from, sent, chan, net, old,
                 followerVars, faults, hist>>

(* The records of the open file that the stream still has to send. *)
LastOf(g) == IF g < Len(gens) THEN gens[g + 1] ELSE Len(log)

Unsent(f) ==
  {n \in (gens[handle[f]] + 1)..LastOf(handle[f]) :
     log[n] # Hole /\ n >= from[f] /\ n > sent[f]}

Send(f, lsn) ==
  /\ Len(net[f]) < NetCap
  /\ net' = [net EXCEPT ![f] = Append(@, lsn)]
  /\ sent' = [sent EXCEPT ![f] = lsn]

SendFromFile(f) ==
  /\ phase[f] \in {"archive", "active"} /\ handle[f] # 0
  /\ \E n \in Unsent(f) : (\A m \in Unsent(f) : n <= m) /\ Send(f, n)
  /\ UNCHANGED <<leaderVars, subs, acks, phase, from, handle, chan, old,
                 followerVars, faults, hist>>

EndOfFile(f) ==
  /\ phase[f] \in {"archive", "active"} /\ handle[f] # 0 /\ Unsent(f) = {}
  /\ handle' = [handle EXCEPT ![f] = 0]
  /\ phase' = [phase EXCEPT ![f] = AfterFile(@)]
  /\ UNCHANGED <<leaderVars, subs, acks, from, sent, chan, net, old,
                 followerVars, faults, hist>>

(* The files are read; the channel has what was committed meanwhile.  Mutant
   first: the stream subscribes only now. *)
GoLiveLate(f) ==
  /\ phase[f] = "handoff"
  /\ phase' = [phase EXCEPT ![f] = "live"]
  /\ chan' = [chan EXCEPT ![f] = << >>]
  /\ UNCHANGED <<leaderVars, subs, acks, from, handle, sent, net, old,
                 followerVars, faults, hist>>

GoLive(f) ==
  /\ phase[f] = "handoff"
  /\ phase' = [phase EXCEPT ![f] = "live"]
  /\ UNCHANGED <<leaderVars, subs, acks, from, handle, sent, chan, net, old,
                 followerVars, faults, hist>>

(* Mutant: what the files gave is sent again. *)
SendLiveAgain(f) ==
  /\ phase[f] = "live" /\ chan[f] # << >>
  /\ chan' = [chan EXCEPT ![f] = Tail(@)]
  /\ Send(f, Head(chan[f]))
  /\ UNCHANGED <<leaderVars, subs, acks, phase, from, handle, old, followerVars,
                 faults, hist>>

SendLive(f) ==
  /\ phase[f] = "live" /\ chan[f] # << >>
  /\ chan' = [chan EXCEPT ![f] = Tail(@)]
  /\ IF Head(chan[f]) > sent[f] THEN Send(f, Head(chan[f])) ELSE UNCHANGED <<net, sent>>
  /\ UNCHANGED <<leaderVars, subs, acks, phase, from, handle, old, followerVars,
                 faults, hist>>

(* Mutant: a closed channel is taken for an empty one. *)
EndStreamDeaf(f) ==
  /\ phase[f] = "live" /\ chan[f] = << >> /\ ~Open(f)
  /\ UNCHANGED vars

(* The channel is closed and empty: ResourceExhausted. *)
EndStream(f) ==
  /\ phase[f] = "live" /\ chan[f] = << >> /\ ~Open(f)
  /\ phase' = [phase EXCEPT ![f] = "ended"]
  /\ Unsubscribe(f, "live")
  /\ UNCHANGED <<leaderVars, acks, from, handle, sent, chan, net, old,
                 followerVars, faults, hist>>

(* A handler whose follower has gone returns some time later. *)
OldHandlerReturns(f) ==
  /\ old[f]
  /\ old' = [old EXCEPT ![f] = FALSE]
  /\ Unsubscribe(f, "old")
  /\ UNCHANGED <<leaderVars, acks, streamVars, followerVars, faults, hist>>

-----------------------------------------------------------------------------
(* The follower gives the stream up: what is under way is lost, and the handler
   becomes an old one unless it has returned. *)
Abandon(f, next) ==
  /\ fpc' = [fpc EXCEPT ![f] = next]
  /\ phase' = [phase EXCEPT ![f] = "none"]
  /\ from' = [from EXCEPT ![f] = 0] /\ handle' = [handle EXCEPT ![f] = 0]
  /\ sent' = [sent EXCEPT ![f] = 0]
  /\ chan' = [chan EXCEPT ![f] = << >>] /\ net' = [net EXCEPT ![f] = << >>]
  /\ old' = [old EXCEPT ![f] = @ \/ phase[f] \notin {"none", "ended"}]
  /\ subs' = [subs EXCEPT ![ReplicaId[f]] = IF Open(f) THEN <<f, "old">> ELSE @]

(* ApplyReplicatedRecord.  Put and Delete go through the follower's own log; a
   batch is applied in memory only. *)
Apply(f, rec) ==
  /\ mem' = [mem EXCEPT ![f] = ApplyOps(@, rec.ops)]
  /\ IF rec.batch
     THEN UNCHANGED <<flsn, tail>>
     ELSE /\ flsn' = [flsn EXCEPT ![f] = @ + 1]
          /\ tail' = [tail EXCEPT ![f] = @ \o rec.ops]

Incoming(f) == Head(net[f])

Receives(f) == fpc[f] = "streaming" /\ net[f] # << >>

(* Mutants: records applied before are applied again; gaps are not noticed. *)
ReceiveAgain(f) ==
  /\ Receives(f) /\ Incoming(f) <= applied[f] + 1
  /\ net' = [net EXCEPT ![f] = Tail(@)]
  /\ Apply(f, log[Incoming(f)])
  /\ applied' = [applied EXCEPT ![f] = Incoming(f)]
  /\ acks' \in {acks, [acks EXCEPT ![ReplicaId[f]] = Incoming(f)]}
  /\ UNCHANGED <<leaderVars, subs, phase, from, handle, sent, chan, old, fpc,
                 disk, faults, hist>>

ReceiveLater(f) ==
  /\ Receives(f) /\ Incoming(f) > applied[f]
  /\ net' = [net EXCEPT ![f] = Tail(@)]
  /\ Apply(f, log[Incoming(f)])
  /\ applied' = [applied EXCEPT ![f] = Incoming(f)]
  /\ acks' \in {acks, [acks EXCEPT ![ReplicaId[f]] = Incoming(f)]}
  /\ UNCHANGED <<leaderVars, subs, phase, from, handle, sent, chan, old, fpc,
                 disk, faults, hist>>

(* The next record in line; the follower may acknowledge it. *)
Receive(f) ==
  /\ Receives(f) /\ Incoming(f) = applied[f] + 1
  /\ net' = [net EXCEPT ![f] = Tail(@)]
  /\ Apply(f, log[Incoming(f)])
  /\ applied' = [applied EXCEPT ![f] = Incoming(f)]
  /\ acks' \in {acks, [acks EXCEPT ![ReplicaId[f]] = Incoming(f)]}
  /\ UNCHANGED <<leaderVars, subs, phase, from, handle, sent, chan, old, fpc,
                 disk, faults, hist>>

(* A record applied before. *)
Ignore(f) ==
  /\ Receives(f) /\ Incoming(f) <= applied[f]
  /\ net' = [net EXCEPT ![f] = Tail(@)]
  /\ UNCHANGED <<leaderVars, subs, acks, phase, from, handle, sent, chan, old,
                 followerVars, faults, hist>>

(* ErrReplicationGap. *)
Gap(f) == Receives(f) /\ Incoming(f) > applied[f] + 1

RejectGap(f) ==
  /\ Gap(f)
  /\ Abandon(f, "waiting")
  /\ UNCHANGED <<leaderVars, acks, applied, flsn, mem, disk, tail, faults, hist>>

StreamEnds(f) ==
  /\ phase[f] = "ended" /\ net[f] = << >>
  /\ Abandon(f, "waiting")
  /\ UNCHANGED <<leaderVars, acks, applied, flsn, mem, disk, tail, faults, hist>>

ConnectionBreaks(f) ==
  /\ fpc[f] = "streaming" /\ May("break")
  /\ Abandon(f, "waiting")
  /\ UNCHANGED <<leaderVars, acks, applied, flsn, mem, disk, tail, hist>>

(* A checkpoint of the follower's engine; what is on disk is read again only
   after a crash. *)
FollowerCheckpoint(f) ==
  /\ "crash" \in Faults
  /\ fpc[f] # "down" /\ (mem[f] # disk[f] \/ tail[f] # << >>)
  /\ disk' = [disk EXCEPT ![f] = mem[f]]
  /\ tail' = [tail EXCEPT ![f] = << >>]
  /\ UNCHANGED <<leaderVars, subs, acks, streamVars, old, fpc, applied, flsn, mem,
                 faults, hist>>

FollowerCrash(f) ==
  /\ fpc[f] # "down" /\ May("crash")
  /\ Abandon(f, "down")
  /\ mem' = [mem EXCEPT ![f] = Empty] /\ applied' = [applied EXCEPT ![f] = 0]
  /\ UNCHANGED <<leaderVars, acks, flsn, disk, tail, hist>>

(* NewEngine recovers what was logged; NewFollowerClient resumes at its LSN.
   Mutant first: it takes the LSN of the next record for that of the last. *)
FollowerStartAhead(f) ==
  /\ fpc[f] = "down"
  /\ fpc' = [fpc EXCEPT ![f] = "waiting"]
  /\ mem' = [mem EXCEPT ![f] = ApplyOps(disk[f], tail[f])]
  /\ disk' = [disk EXCEPT ![f] = ApplyOps(disk[f], tail[f])]
  /\ tail' = [tail EXCEPT ![f] = << >>]
  /\ applied' = [applied EXCEPT ![f] = flsn[f] + 1]
  /\ UNCHANGED <<leaderVars, subs, acks, streamVars, old, flsn, faults, hist>>

FollowerStart(f) ==
  /\ fpc[f] = "down"
  /\ fpc' = [fpc EXCEPT ![f] = "waiting"]
  /\ mem' = [mem EXCEPT ![f] = ApplyOps(disk[f], tail[f])]
  /\ disk' = [disk EXCEPT ![f] = ApplyOps(disk[f], tail[f])]
  /\ tail' = [tail EXCEPT ![f] = << >>]
  /\ applied' = [applied EXCEPT ![f] = flsn[f]]
  /\ UNCHANGED <<leaderVars, subs, acks, streamVars, old, flsn, faults, hist>>

-----------------------------------------------------------------------------
Next ==
  \/ \E r \in Requests, batch \in BOOLEAN : LeaderWrite(r, batch)
  \/ OnCommit
  \/ RemoveArchive
  \/ RenameLog
  \/ CreateLog
  \/ LeaderHalts
  \/ LeaderCrash
  \/ LeaderSkips
  \/ LeaderStart
  \/ \E f \in Followers :
       \/ Connect(f)
       \/ OpenFile(f)
       \/ SendFromFile(f)
       \/ EndOfFile(f)
       \/ GoLive(f)
       \/ SendLive(f)
       \/ EndStream(f)
       \/ OldHandlerReturns(f)
       \/ Receive(f)
       \/ Ignore(f)
       \/ RejectGap(f)
       \/ StreamEnds(f)
       \/ ConnectionBreaks(f)
       \/ FollowerCheckpoint(f)
       \/ FollowerCrash(f)
       \/ FollowerStart(f)

Spec == Init /\ [][Next]_vars

(* The goroutine that holds the leader's Engine.mu, the handler of a stream and
   the follower's loop each keep running; SyncLoop is called again a second
   after it returns; a process that dies is restarted (docker-compose.yml,
   "restart: unless-stopped"). *)
LeaderWorks == OnCommit \/ RenameLog \/ CreateLog
Handler(f)  == \/ OpenFile(f) \/ SendFromFile(f) \/ EndOfFile(f)
               \/ GoLive(f) \/ SendLive(f) \/ EndStream(f)
SyncLoop(f) == Receive(f) \/ Ignore(f) \/ RejectGap(f) \/ StreamEnds(f) \/ Connect(f)

FairSpec ==
  /\ Spec
  /\ WF_vars(LeaderWorks) /\ WF_vars(LeaderStart)
  /\ \A f \in Followers : WF_vars(Handler(f)) /\ WF_vars(SyncLoop(f)) /\ WF_vars(FollowerStart(f))

-----------------------------------------------------------------------------
(* Type invariant: in particular an open file is one the leader has had, and
   whatever is under way is the number of a record in the leader's log. *)
TypeOK ==
  /\ lpc \in {"idle", "commit", "rename", "create", "halted", "down"}
  /\ log \in Seq([batch : BOOLEAN, ops : Seq(Ops)]) /\ published \in 0..Len(log)
  /\ gens \in Seq(0..Len(log)) /\ walGen \in 0..Len(gens) /\ bakGen \in 0..Len(gens)
  /\ subs \in [ReplicaIds -> (Followers \X {"live", "old"}) \cup {NoSub}]
  /\ acks \in [ReplicaIds -> 0..Len(log)]
  /\ phase \in [Followers -> {"none", "archive", "active", "handoff", "live", "ended"}]
  /\ from \in [Followers -> 0..(Len(log) + 1)] /\ handle \in [Followers -> 0..Len(gens)]
  /\ sent \in [Followers -> 0..Len(log)]
  /\ chan \in [Followers -> Seq(1..Len(log))] /\ net \in [Followers -> Seq(1..Len(log))]
  /\ old \in [Followers -> BOOLEAN]
  /\ fpc \in [Followers -> {"down", "waiting", "streaming"}]
  /\ applied \in [Followers -> 0..Len(log)] /\ flsn \in [Followers -> 0..Len(log)]
  /\ mem \in [Followers -> Maps] /\ disk \in [Followers -> Maps]
  /\ tail \in [Followers -> Seq(Ops)]
  /\ faults \in 0..MaxFaults
  /\ hist \in Seq(Maps) /\ Len(hist) = Len(log) + 1

(* A follower that serves shows exactly the leader's state after the records
   SyncLoop says it has applied. *)
FollowerPrefix ==
  \A f \in Followers : fpc[f] # "down" => mem[f] = hist[applied[f] + 1]

Position == [f \in Followers |-> IF fpc[f] = "down" THEN flsn[f] ELSE applied[f]]
Seen     == [f \in Followers |-> IF fpc[f] = "down" THEN Hidden ELSE mem[f]]

RS == INSTANCE ReplicatedStore WITH history <- hist, at <- Position, seen <- Seen

(* Followers show the leader's states, one after the other, and never go back,
   however streams break, files rotate, channels overflow and nodes restart. *)
ImplementsReplicatedStore == RS!RSSpec

(* The follower's own log numbers records as the leader does: after a restart
   NewFollowerClient asks for the records after engine.CurrentLSN().  And what
   the leader has been told is applied would survive a crash of the follower. *)
NumberingAligned ==
  \A f \in Followers : /\ fpc[f] # "down" => flsn[f] = applied[f]
                        /\ acks[ReplicaId[f]] <= flsn[f]

(* A stream never sends a record twice or behind a later one, although the file
   and the channel both hold what is committed while StreamWAL catches up. *)
StreamOrdered ==
  \A f \in Followers : \A i, j \in 1..Len(net[f]) :
    i < j => net[f][i] < net[f][j] /\ net[f][j] <= sent[f]

(* As long as the leader keeps its log, no follower is told there is a gap: what
   is committed between reading the files and the live phase is in the channel,
   because StreamWAL subscribes before it reads. *)
NoFalseGap == \A f \in Followers : ~Gap(f)

(* A follower with nothing left to read on an open stream has everything the
   leader has acknowledged: records are not dropped without the stream ending. *)
NoSilentHole ==
  \A f \in Followers :
    phase[f] = "live" /\ chan[f] = << >> /\ net[f] = << >> /\ Open(f) =>
      applied[f] >= published

(* Followers catch up: whatever breaks, a follower comes to have every record
   the leader has acknowledged, again and again. *)
Converges == \A f \in Followers : []<>(applied[f] >= published)
=============================================================================
