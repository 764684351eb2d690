-------------------------- MODULE ReplicationProofs ---------------------------
(***************************************************************************)
(* Theorems about Replication for any followers, requests, channels, log   *)
(* lengths and faults.                                                     *)
(***************************************************************************)
EXTENDS Replication, KVOpsProofs, SequenceTheorems

(* TypeOK, in four parts. *)
LeaderTypes ==
  /\ lpc \in {"idle", "commit", "rename", "create", "halted", "down"}
  /\ log \in Seq([batch : BOOLEAN, ops : Seq(Ops)]) /\ published \in 0..Len(log)
  /\ gens \in Seq(0..Len(log)) /\ walGen \in 0..Len(gens) /\ bakGen \in 0..Len(gens)
  /\ faults \in 0..MaxFaults
  /\ hist \in Seq(Maps) /\ Len(hist) = Len(log) + 1
SubTypes ==
  /\ subs \in [ReplicaIds -> (Followers \X {"live", "old"}) \cup {NoSub}]
  /\ acks \in [ReplicaIds -> 0..Len(log)]
  /\ old \in [Followers -> BOOLEAN]
StreamTypes ==
  /\ phase \in [Followers -> {"none", "archive", "active", "handoff", "live", "ended"}]
  /\ from \in [Followers -> 0..(Len(log) + 1)] /\ handle \in [Followers -> 0..Len(gens)]
  /\ sent \in [Followers -> 0..Len(log)]
  /\ chan \in [Followers -> Seq(1..Len(log))] /\ net \in [Followers -> Seq(1..Len(log))]
FollowerTypes ==
  /\ fpc \in [Followers -> {"down", "waiting", "streaming"}]
  /\ applied \in [Followers -> 0..Len(log)] /\ flsn \in [Followers -> 0..Len(log)]
  /\ mem \in [Followers -> Maps] /\ disk \in [Followers -> Maps]
  /\ tail \in [Followers -> Seq(Ops)]

(* A record is committed after it was logged, a follower's log has no more records
   than the follower has applied, and a stream has a follower. *)
Counted ==
  /\ lpc = "commit" => log # << >>
  /\ \A f \in Followers :
       /\ fpc[f] # "down" => flsn[f] <= applied[f]
       /\ fpc[f] # "streaming" => phase[f] = "none"

TypeInv == LeaderTypes /\ SubTypes /\ StreamTypes /\ FollowerTypes /\ Counted

(* Everything sent on a stream is at most sent, in order. *)
Sorted(f) ==
  /\ \A i \in 1..Len(net[f]) : net[f][i] <= sent[f]
  /\ \A i, j \in 1..Len(net[f]) : i < j => net[f][i] < net[f][j]

(* hist and log tell the same history. *)
Recorded ==
  /\ hist[1] = Empty
  /\ \A n \in 1..Len(log) : hist[n + 1] = ApplyOps(hist[n], log[n].ops)
  /\ Batched = {} => \A n \in 1..Len(log) : ~log[n].batch

(* A follower's map, and what it would come back with. *)
Restartable(f) ==
  /\ fpc[f] # "down" => flsn[f] = applied[f]
  /\ ApplyOps(disk[f], tail[f]) = hist[flsn[f] + 1]
Shows(f) ==
  /\ fpc[f] # "down" => mem[f] = hist[applied[f] + 1]
  /\ Batched = {} => Restartable(f)
  /\ "crash" \notin Faults => fpc[f] # "down"

(* A stream is where its follower is connected, and a channel that is open is
   that of a handler that reads the log or the channel. *)
Linked(f) ==
  /\ lpc = "down" => phase[f] = "none"
  /\ fpc[f] = "streaming" <=> phase[f] # "none"
  /\ phase[f] = "none" => net[f] = << >> /\ chan[f] = << >> /\ sent[f] = 0 /\ handle[f] = 0
  /\ phase[f] # "none" => from[f] \in 1..(applied[f] + 1)
  /\ Open(f) => phase[f] \in {"archive", "active", "handoff", "live"}
  /\ handle[f] # 0 => phase[f] \in {"archive", "active"}

(* The leader has one log file, and a record for every number. *)
OneFile ==
  /\ gens = <<0>> /\ walGen = 1 /\ bakGen = 0
  /\ \A n \in 1..Len(log) : log[n] # Hole
  /\ lpc \notin {"rename", "create"}

Committed ==
  /\ lpc = "idle" => published = Len(log)
  /\ lpc = "commit" => Len(log) = published + 1

Successive(s) == \A i \in 1..(Len(s) - 1) : s[i + 1] = s[i] + 1

(* What is under way follows what the follower has, without a gap. *)
NetWhole(f) ==
  /\ net[f] # << >> => net[f][1] <= applied[f] + 1 /\ net[f][Len(net[f])] = sent[f]
  /\ net[f] = << >> => sent[f] <= applied[f]
  /\ Successive(net[f])

(* The channel holds what was committed since the handler subscribed, up to the
   last commit as long as it is open ... *)
ChanWhole(f) ==
  /\ Successive(chan[f])
  /\ Open(f) /\ chan[f] # << >> => chan[f][Len(chan[f])] = published

(* ... and the files hold what was committed before. *)
Read(f)    == phase[f] \in {"archive", "active"} => sent[f] = 0 \/ sent[f] >= from[f]
Joined(f)  ==
  phase[f] \in {"handoff", "live"} =>
    /\ chan[f] # << >> => chan[f][1] <= sent[f] + 1 \/ (sent[f] = 0 /\ chan[f][1] <= from[f])
    /\ chan[f] = << >> /\ Open(f) => sent[f] >= published \/ (sent[f] = 0 /\ from[f] > published)

Whole(f) == NetWhole(f) /\ ChanWhole(f) /\ Read(f) /\ Joined(f)

OrderInv == TypeInv /\ \A f \in Followers : Sorted(f)
ShowInv  == TypeInv /\ Recorded /\ \A f \in Followers : Shows(f)
WholeInv == TypeInv /\ OneFile /\ Committed /\ \A f \in Followers : Linked(f) /\ Whole(f)

----------------------------------------------------------------------------
LEMMA EmptyMap == Empty \in Maps
BY DEF Empty, Maps

LEMMA SeqGrows ==
  ASSUME NEW a \in Nat, NEW b \in Nat, a <= b, NEW m \in Nat, NEW s \in Seq(m..a)
  PROVE  s \in Seq(m..b)
BY SeqMonotonic

LEMMA InitType == ASSUME Init PROVE TypeInv
<1>1. LeaderTypes
  BY ReplicationAssumption, EmptyMap DEF Init, LeaderTypes
<1>2. SubTypes /\ StreamTypes
  BY DEF Init, SubTypes, StreamTypes
<1>3. FollowerTypes
  BY EmptyMap DEF Init, FollowerTypes
<1>4. Counted
  BY DEF Init, Counted
<1> QED BY <1>1, <1>2, <1>3, <1>4 DEF TypeInv

LEMMA LeaderWriteType ==
  ASSUME TypeInv, NEW r \in Requests, NEW batch \in BOOLEAN, LeaderWrite(r, batch)
  PROVE  TypeInv'
<1> USE DEF leaderVars, streamVars, followerVars, TypeInv
<1>2. r.ops \in Seq(Ops) BY RequestsAssumption
<1>3. /\ Len(log) \in Nat /\ Len(gens) \in Nat /\ log' # << >>
      /\ Len(log') = Len(log) + 1 /\ log' \in Seq([batch : BOOLEAN, ops : Seq(Ops)])
  <2>1. [batch |-> batch, ops |-> r.ops] \in [batch : BOOLEAN, ops : Seq(Ops)] BY <1>2
  <2>2. log \in Seq([batch : BOOLEAN, ops : Seq(Ops)]) /\ gens \in Seq(0..Len(log)) BY DEF LeaderTypes
  <2>3. log' = Append(log, [batch |-> batch, ops |-> r.ops]) BY DEF LeaderWrite
  <2> HIDE DEF TypeInv
  <2> QED BY <2>1, <2>2, <2>3, AppendProperties, LenProperties
<1>4. hist' \in Seq(Maps) /\ Len(hist') = Len(hist) + 1
  <2>1. hist[Len(hist)] \in Maps BY <1>3 DEF LeaderTypes
  <2>2. hist \in Seq(Maps) /\ ApplyOps(hist[Len(hist)], r.ops) \in Maps
    BY <1>2, <2>1, ApplyOpsType DEF LeaderTypes
  <2>3. hist' = Append(hist, ApplyOps(hist[Len(hist)], r.ops)) BY DEF LeaderWrite
  <2> HIDE DEF TypeInv
  <2> QED BY <2>2, <2>3, AppendProperties
<1>5. gens' \in Seq(0..Len(log')) BY <1>3, SeqGrows DEF LeaderWrite, LeaderTypes
<1>6. LeaderTypes' BY <1>3, <1>4, <1>5 DEF LeaderWrite, LeaderTypes
<1>7. SubTypes' BY <1>3 DEF LeaderWrite, SubTypes
<1>8. StreamTypes'
  <2>1. \A f \in Followers : chan[f] \in Seq(1..Len(log')) /\ net[f] \in Seq(1..Len(log'))
    BY <1>3, SeqGrows DEF StreamTypes
  <2> QED BY <1>3, <2>1 DEF LeaderWrite, StreamTypes
<1>9. FollowerTypes' BY <1>3 DEF LeaderWrite, FollowerTypes
<1>10. Counted' BY <1>3 DEF LeaderWrite, Counted
<1> QED BY <1>6, <1>7, <1>8, <1>9, <1>10

LEMMA OnCommitType == ASSUME TypeInv, OnCommit PROVE TypeInv'
<1> USE DEF TypeInv, followerVars
<1>1. Len(log) \in Nat /\ Len(log) \in 1..Len(log) BY DEF OnCommit, Counted, LeaderTypes
<1>2. \A f \in Followers : chan[f] \in Seq(1..Len(log)) /\ Append(chan[f], Len(log)) \in Seq(1..Len(log))
  <2>1. \A f \in Followers : chan[f] \in Seq(1..Len(log)) BY DEF StreamTypes
  <2> QED BY <1>1, <2>1, AppendProperties
<1>3. chan' \in [Followers -> Seq(1..Len(log))]
  BY <1>2 DEF OnCommit, Broadcast
<1>4. subs' \in [ReplicaIds -> (Followers \X {"live", "old"}) \cup {NoSub}]
  BY DEF OnCommit, Broadcast, SubTypes
<1>5. LeaderTypes' BY <1>1 DEF OnCommit, LeaderTypes
<1>6. SubTypes' BY <1>4 DEF OnCommit, SubTypes
<1>7. StreamTypes' BY <1>3 DEF OnCommit, StreamTypes
<1>8. FollowerTypes' /\ Counted' BY DEF OnCommit, FollowerTypes, Counted
<1> QED BY <1>5, <1>6, <1>7, <1>8

(* A log file is created: the files stay in order, and an open one open. *)
LEMMA NewLogType ==
  ASSUME LeaderTypes, NewLog
  PROVE  /\ gens' \in Seq(0..Len(log)) /\ walGen' \in 0..Len(gens')
         /\ Len(gens') = Len(gens) + 1
<1>1. Len(log) \in Nat /\ Len(gens) \in Nat /\ gens \in Seq(0..Len(log)) BY DEF LeaderTypes
<1>2. Len(log) \in 0..Len(log) BY <1>1
<1>3. gens' = Append(gens, Len(log)) BY DEF NewLog
<1>4. gens' \in Seq(0..Len(log)) /\ Len(gens') = Len(gens) + 1 BY <1>1, <1>2, <1>3, AppendProperties
<1> QED BY <1>1, <1>4 DEF NewLog

LEMMA FilesType ==
  ASSUME TypeInv, RemoveArchive \/ RenameLog \/ CreateLog \/ LeaderHalts \/ LeaderStart PROVE TypeInv'
<1> USE DEF TypeInv, streamVars, followerVars
<1>1. /\ UNCHANGED <<log, hist, subs, acks, old, streamVars, followerVars>>
      /\ lpc' \in {"idle", "rename", "create", "halted"}
      /\ published' \in 0..Len(log)
      /\ faults' = faults \/ (faults' = faults + 1 /\ faults < MaxFaults)
      /\ bakGen' \in {bakGen, 0, walGen}
      /\ NewLog \/ (gens' = gens /\ walGen' \in {0, walGen})
  <2>1. CASE RemoveArchive BY <2>1 DEF RemoveArchive, LeaderTypes
  <2>2. CASE RenameLog BY <2>2 DEF RenameLog, LeaderTypes
  <2>3. CASE CreateLog BY <2>3 DEF CreateLog, LeaderTypes
  <2>4. CASE LeaderHalts BY <2>4 DEF LeaderHalts, May, LeaderTypes
  <2>5. CASE LeaderStart BY <2>5 DEF LeaderStart
  <2> QED BY <2>1, <2>2, <2>3, <2>4, <2>5
<1>2. /\ gens' \in Seq(0..Len(log)) /\ walGen' \in 0..Len(gens')
      /\ Len(gens) \in Nat /\ Len(gens') \in Nat /\ Len(gens) <= Len(gens')
  BY <1>1, NewLogType DEF LeaderTypes
<1>3. LeaderTypes'
  <2>1. faults' \in 0..MaxFaults BY <1>1, ReplicationAssumption DEF LeaderTypes
  <2>2. published' \in 0..Len(log) BY <1>1
  <2>3. bakGen' \in 0..Len(gens')
    <3>1. bakGen \in 0..Len(gens) /\ walGen \in 0..Len(gens) BY DEF LeaderTypes
    <3> QED BY <1>1, <1>2, <3>1
  <2>4. lpc' \in {"idle", "commit", "rename", "create", "halted", "down"} BY <1>1
  <2>5. log' = log /\ hist' = hist BY <1>1
  <2> QED BY <1>2, <2>1, <2>2, <2>3, <2>4, <2>5 DEF LeaderTypes
<1>4. StreamTypes' BY <1>1, <1>2 DEF StreamTypes
<1> QED BY <1>1, <1>3, <1>4 DEF SubTypes, FollowerTypes, Counted

(* The leader dies, having logged what it had or used one number more. *)
LEMMA LeaderDiesType ==
  ASSUME TypeInv, LeaderDies, May("leader") \/ May("skip"),
         log' \in Seq([batch : BOOLEAN, ops : Seq(Ops)]), hist' \in Seq(Maps),
         Len(log') \in {Len(log), Len(log) + 1}, Len(hist') = Len(log') + 1
  PROVE  TypeInv'
<1> USE DEF TypeInv
<1>1. Len(log) \in Nat /\ Len(log') \in Nat /\ Len(log) <= Len(log') BY DEF LeaderTypes
<1>2. LeaderTypes'
  <2>1. gens' \in Seq(0..Len(log')) BY <1>1, SeqGrows DEF LeaderDies, LeaderTypes
  <2>2. published' \in 0..Len(log') BY <1>1 DEF LeaderDies, LeaderTypes
  <2>3. faults' \in 0..MaxFaults BY ReplicationAssumption DEF May, LeaderTypes
  <2> QED BY <2>1, <2>2, <2>3 DEF LeaderDies, LeaderTypes
<1>3. SubTypes' /\ StreamTypes' BY <1>1 DEF LeaderDies, SubTypes, StreamTypes, LeaderTypes
<1>4. FollowerTypes' BY <1>1 DEF LeaderDies, FollowerTypes
<1>5. Counted' BY DEF LeaderDies, Counted, FollowerTypes
<1> QED BY <1>2, <1>3, <1>4, <1>5

LEMMA LeaderDownType == ASSUME TypeInv, LeaderCrash \/ LeaderSkips PROVE TypeInv'
<1>1. /\ log \in Seq([batch : BOOLEAN, ops : Seq(Ops)]) /\ hist \in Seq(Maps)
      /\ Len(log) \in Nat /\ Len(hist) = Len(log) + 1
  BY DEF TypeInv, LeaderTypes
<1>2. CASE LeaderCrash BY <1>1, <1>2, LeaderDiesType DEF LeaderCrash
<1>3. CASE LeaderSkips
  <2>1. Hole \in [batch : BOOLEAN, ops : Seq(Ops)] /\ hist[Len(hist)] \in Maps BY <1>1 DEF Hole
  <2>2. /\ log' \in Seq([batch : BOOLEAN, ops : Seq(Ops)]) /\ Len(log') = Len(log) + 1
        /\ hist' \in Seq(Maps) /\ Len(hist') = Len(hist) + 1
    BY <1>1, <1>3, <2>1, AppendProperties DEF LeaderSkips
  <2> QED BY <1>1, <1>3, <2>2, LeaderDiesType DEF LeaderSkips
<1> QED BY <1>2, <1>3

----------------------------------------------------------------------------
(* Streams: only the handler's own fields and the map of channels change. *)
LEMMA FollowersKept ==
  ASSUME TypeInv, UNCHANGED <<leaderVars, followerVars, faults, hist>>
  PROVE  LeaderTypes' /\ FollowerTypes'
<1>1. LeaderTypes' BY DEF TypeInv, leaderVars, LeaderTypes
<1>2. FollowerTypes' BY DEF TypeInv, leaderVars, followerVars, FollowerTypes
<1> QED BY <1>1, <1>2

LEMMA ConnectType == ASSUME TypeInv, NEW f \in Followers, Connect(f) PROVE TypeInv'
<1> USE DEF TypeInv, leaderVars
<1>1. ReplicaId[f] \in ReplicaIds BY ReplicationAssumption
<1>2. SubTypes' BY <1>1 DEF Connect, Subscribe, SubTypes
<1>3. StreamTypes'
  <2>1. applied[f] + 1 \in 0..(Len(log) + 1) BY DEF FollowerTypes, LeaderTypes
  <2> QED BY <2>1 DEF Connect, StreamTypes
<1>4. LeaderTypes' BY DEF Connect, LeaderTypes
<1>5. FollowerTypes' BY DEF Connect, FollowerTypes
<1>6. Counted' BY DEF Connect, Counted, FollowerTypes, StreamTypes
<1> QED BY <1>2, <1>3, <1>4, <1>5, <1>6

(* A record of the open file is one of the log. *)
LEMMA UnsentLogged ==
  ASSUME TypeInv, NEW f \in Followers, handle[f] # 0
  PROVE  Unsent(f) \subseteq 1..Len(log)
<1> USE DEF TypeInv
<1>1. handle[f] \in 1..Len(gens) /\ Len(gens) \in Nat /\ Len(log) \in Nat
  BY DEF StreamTypes, LeaderTypes
<1>2. gens[handle[f]] \in 0..Len(log) BY <1>1 DEF LeaderTypes
<1>3. LastOf(handle[f]) \in 0..Len(log)
  <2>1. CASE handle[f] < Len(gens)
    <3>1. handle[f] + 1 \in 1..Len(gens) BY <1>1, <2>1
    <3> QED BY <2>1, <3>1 DEF LastOf, LeaderTypes
  <2>2. CASE ~(handle[f] < Len(gens)) BY <1>1, <2>2 DEF LastOf
  <2> QED BY <2>1, <2>2
<1> QED BY <1>1, <1>2, <1>3 DEF Unsent

LEMMA SendType ==
  ASSUME TypeInv, NEW f \in Followers, NEW n \in 1..Len(log), Send(f, n)
  PROVE  /\ net' \in [Followers -> Seq(1..Len(log))]
         /\ sent' \in [Followers -> 0..Len(log)]
<1>1. net[f] \in Seq(1..Len(log)) /\ net \in [Followers -> Seq(1..Len(log))]
      /\ sent \in [Followers -> 0..Len(log)] /\ Len(log) \in Nat
  BY DEF TypeInv, StreamTypes, LeaderTypes
<1>2. Append(net[f], n) \in Seq(1..Len(log)) BY <1>1, AppendProperties
<1> QED BY <1>1, <1>2 DEF Send

LEMMA HandlerType ==
  ASSUME TypeInv, NEW f \in Followers, Handler(f) \/ OldHandlerReturns(f) PROVE TypeInv'
<1>a. LeaderTypes' /\ FollowerTypes' /\ UNCHANGED <<leaderVars, followerVars>>
  BY FollowersKept DEF Handler, OpenFile, SendFromFile, EndOfFile, GoLive, SendLive, EndStream, OldHandlerReturns
<1>b. \A g \in Followers : phase[g] = "none" => phase'[g] = "none"
  BY DEF Handler, OpenFile, SendFromFile, EndOfFile, GoLive, SendLive, EndStream, OldHandlerReturns,
         TypeInv, StreamTypes, streamVars
<1>0. LeaderTypes' /\ FollowerTypes' /\ Counted'
  BY <1>a, <1>b DEF leaderVars, followerVars, TypeInv, Counted
<1> USE DEF TypeInv, leaderVars, streamVars
<1>1. UNCHANGED <<log, gens, walGen, bakGen>>
  BY DEF Handler, OpenFile, SendFromFile, EndOfFile, GoLive, SendLive, EndStream, OldHandlerReturns
<1>2. CASE OpenFile(f)
  <2>1. SubTypes' BY <1>1, <1>2 DEF OpenFile, SubTypes
  <2>2. StreamTypes' BY <1>1, <1>2 DEF OpenFile, StreamTypes, LeaderTypes, AfterFile
  <2> QED BY <1>0, <2>1, <2>2
<1>3. CASE SendFromFile(f)
  <2>1. SubTypes' BY <1>1, <1>3 DEF SendFromFile, SubTypes
  <2>2. StreamTypes' BY <1>1, <1>3, UnsentLogged, SendType DEF SendFromFile, StreamTypes
  <2> QED BY <1>0, <2>1, <2>2
<1>4. CASE EndOfFile(f)
  <2>1. SubTypes' BY <1>1, <1>4 DEF EndOfFile, SubTypes
  <2>2. StreamTypes' BY <1>1, <1>4 DEF EndOfFile, StreamTypes, LeaderTypes, AfterFile
  <2> QED BY <1>0, <2>1, <2>2
<1>5. CASE GoLive(f)
  BY <1>0, <1>1, <1>5 DEF GoLive, StreamTypes, SubTypes
<1>6. CASE SendLive(f)
  <2>1. SubTypes' BY <1>1, <1>6 DEF SendLive, SubTypes
  <2>2. Head(chan[f]) \in 1..Len(log) /\ Tail(chan[f]) \in Seq(1..Len(log))
    BY <1>6, HeadTailProperties DEF SendLive, StreamTypes
  <2>3. StreamTypes' BY <1>1, <1>6, <2>2, SendType DEF SendLive, StreamTypes
  <2> QED BY <1>0, <2>1, <2>3
<1>7. CASE EndStream(f) \/ OldHandlerReturns(f)
  <2>1. SubTypes' BY <1>1, <1>7 DEF EndStream, OldHandlerReturns, Unsubscribe, SubTypes
  <2>2. StreamTypes' BY <1>1, <1>7 DEF EndStream, OldHandlerReturns, StreamTypes
  <2> QED BY <1>0, <2>1, <2>2
<1> QED BY <1>2, <1>3, <1>4, <1>5, <1>6, <1>7 DEF Handler

----------------------------------------------------------------------------
(* A stream that is given up. *)
LEMMA AbandonType ==
  ASSUME TypeInv, NEW f \in Followers, NEW next \in {"down", "waiting"}, Abandon(f, next),
         UNCHANGED <<log, gens, acks>>
  PROVE  /\ SubTypes' /\ StreamTypes'
         /\ fpc' \in [Followers -> {"down", "waiting", "streaming"}]
<1> USE DEF TypeInv
<1>1. SubTypes' BY DEF Abandon, SubTypes
<1>2. StreamTypes' BY SMTT(30) DEF Abandon, StreamTypes, LeaderTypes
<1>3. fpc' \in [Followers -> {"down", "waiting", "streaming"}] BY DEF Abandon, FollowerTypes
<1> QED BY <1>1, <1>2, <1>3

LEMMA GiveUpType ==
  ASSUME TypeInv, NEW f \in Followers, RejectGap(f) \/ StreamEnds(f) \/ ConnectionBreaks(f)
  PROVE  TypeInv'
<1> USE DEF TypeInv, leaderVars
<1>1. /\ Abandon(f, "waiting") /\ UNCHANGED <<leaderVars, acks, applied, flsn, mem, disk, tail, hist>>
      /\ faults' = faults \/ (faults' = faults + 1 /\ faults < MaxFaults)
      /\ fpc[f] # "down"
  <2>1. CASE RejectGap(f) BY <2>1 DEF RejectGap, Gap, Receives
  <2>2. CASE StreamEnds(f) BY <2>2 DEF StreamEnds, Counted
  <2>3. CASE ConnectionBreaks(f) BY <2>3 DEF ConnectionBreaks, May
  <2> QED BY <2>1, <2>2, <2>3
<1>2. SubTypes' /\ StreamTypes' /\ fpc' \in [Followers -> {"down", "waiting", "streaming"}]
  BY <1>1, AbandonType
<1>3. LeaderTypes' BY <1>1, ReplicationAssumption DEF LeaderTypes
<1>4. FollowerTypes' BY <1>1, <1>2 DEF FollowerTypes
<1>5. Counted' BY <1>1 DEF Abandon, Counted, FollowerTypes, StreamTypes
<1> QED BY <1>2, <1>3, <1>4, <1>5

LEMMA FollowerCrashType == ASSUME TypeInv, NEW f \in Followers, FollowerCrash(f) PROVE TypeInv'
<1> USE DEF TypeInv, leaderVars
<1>1. SubTypes' /\ StreamTypes' /\ fpc' \in [Followers -> {"down", "waiting", "streaming"}]
  BY AbandonType DEF FollowerCrash
<1>2. LeaderTypes' BY ReplicationAssumption DEF LeaderTypes, FollowerCrash, May
<1>3. FollowerTypes'
  <2>1. mem' \in [Followers -> Maps] BY EmptyMap DEF FollowerTypes, FollowerCrash
  <2>2. applied' \in [Followers -> 0..Len(log)] BY DEF FollowerTypes, FollowerCrash, LeaderTypes
  <2> QED BY <1>1, <2>1, <2>2 DEF FollowerTypes, FollowerCrash
<1>4. Counted' BY DEF FollowerCrash, Abandon, Counted, FollowerTypes, StreamTypes
<1> QED BY <1>1, <1>2, <1>3, <1>4

(* ApplyReplicatedRecord of the next record. *)
LEMMA ReceiveType == ASSUME TypeInv, NEW f \in Followers, Receive(f) PROVE TypeInv'
<1> USE DEF TypeInv, leaderVars
<1>1. /\ Incoming(f) \in 1..Len(log) /\ Tail(net[f]) \in Seq(1..Len(log))
      /\ Incoming(f) = applied[f] + 1 /\ Len(log) \in Nat
  BY HeadTailProperties, SMTT(15), ZenonT(20) DEF Receive, Receives, Incoming, StreamTypes, LeaderTypes
<1>2. log[Incoming(f)].ops \in Seq(Ops)
  <2>1. log \in Seq([batch : BOOLEAN, ops : Seq(Ops)]) BY DEF LeaderTypes
  <2>2. log[Incoming(f)] \in [batch : BOOLEAN, ops : Seq(Ops)]
    <3> HIDE DEF TypeInv
    <3> QED BY <1>1, <2>1, ElementOfSeq
  <2> QED BY <2>2
<1>3. ApplyOps(mem[f], log[Incoming(f)].ops) \in Maps /\ tail[f] \o log[Incoming(f)].ops \in Seq(Ops)
  BY <1>2, ApplyOpsType, ConcatProperties DEF FollowerTypes
<1>4. flsn[f] \in 0..applied[f] /\ applied[f] \in 0..Len(log) /\ fpc[f] = "streaming"
  BY DEF Receive, Receives, Counted, FollowerTypes
<1>5. LeaderTypes' BY DEF Receive, LeaderTypes
<1>6. SubTypes' BY <1>1, SMTT(15), ZenonT(20) DEF Receive, SubTypes
<1>7. StreamTypes' BY <1>1 DEF Receive, StreamTypes
<1>8. FollowerTypes'
  <2>1. applied' \in [Followers -> 0..Len(log)] BY <1>1 DEF Receive, FollowerTypes
  <2>2. mem' \in [Followers -> Maps] BY <1>3 DEF Receive, Apply, FollowerTypes
  <2>3. flsn' \in [Followers -> 0..Len(log)] /\ tail' \in [Followers -> Seq(Ops)]
    <3>1. flsn[f] + 1 \in 0..Len(log) BY <1>1, <1>4
    <3>2. flsn' \in {flsn, [flsn EXCEPT ![f] = flsn[f] + 1]}
          /\ tail' \in {tail, [tail EXCEPT ![f] = tail[f] \o log[Incoming(f)].ops]}
      BY DEF Receive, Apply
    <3> QED BY <1>3, <3>1, <3>2 DEF FollowerTypes
  <2> QED BY <2>1, <2>2, <2>3 DEF Receive, FollowerTypes
<1>9. Counted'
  <2>1. flsn'[f] <= applied'[f] BY <1>1, <1>4 DEF Receive, Apply, FollowerTypes
  <2>2. \A g \in Followers \ {f} : flsn'[g] = flsn[g] /\ applied'[g] = applied[g]
    BY DEF Receive, Apply, FollowerTypes
  <2> QED BY <2>1, <2>2 DEF Receive, Counted
<1> QED BY <1>5, <1>6, <1>7, <1>8, <1>9

LEMMA IgnoreType == ASSUME TypeInv, NEW f \in Followers, Ignore(f) PROVE TypeInv'
<1> USE DEF TypeInv, leaderVars, followerVars
<1>1. Tail(net[f]) \in Seq(1..Len(log))
  BY HeadTailProperties DEF Ignore, Receives, StreamTypes
<1>2. LeaderTypes' /\ SubTypes' BY DEF Ignore, LeaderTypes, SubTypes
<1>3. StreamTypes' BY <1>1 DEF Ignore, StreamTypes
<1>4. FollowerTypes' /\ Counted' BY DEF Ignore, FollowerTypes, Counted
<1> QED BY <1>2, <1>3, <1>4

LEMMA FollowerStorageType ==
  ASSUME TypeInv, NEW f \in Followers, FollowerCheckpoint(f) \/ FollowerStart(f) PROVE TypeInv'
<1> USE DEF TypeInv, leaderVars, streamVars
<1>1. LeaderTypes' BY DEF FollowerCheckpoint, FollowerStart, LeaderTypes
<1>2. SubTypes' BY DEF FollowerCheckpoint, FollowerStart, SubTypes, leaderVars
<1>3. StreamTypes' BY DEF FollowerCheckpoint, FollowerStart, StreamTypes
<1>4. CASE FollowerCheckpoint(f)
  <2>1. FollowerTypes' BY <1>4 DEF FollowerCheckpoint, FollowerTypes
  <2>2. Counted' BY <1>4 DEF FollowerCheckpoint, Counted
  <2> QED BY <1>1, <1>2, <1>3, <2>1, <2>2
<1>5. CASE FollowerStart(f)
  <2>1. ApplyOps(disk[f], tail[f]) \in Maps BY ApplyOpsType DEF FollowerTypes
  <2>2. FollowerTypes' BY <1>5, <2>1 DEF FollowerStart, FollowerTypes
  <2>3. Counted' BY <1>5 DEF FollowerStart, Counted, FollowerTypes, LeaderTypes
  <2> QED BY <1>1, <1>2, <1>3, <2>2, <2>3
<1> QED BY <1>4, <1>5

LEMMA NextType == TypeInv /\ [Next]_vars => TypeInv'
<1> SUFFICES ASSUME TypeInv, [Next]_vars PROVE TypeInv' OBVIOUS
<1>1. CASE UNCHANGED vars
  <2> USE <1>1 DEF vars, leaderVars, streamVars, followerVars
  <2>1. LeaderTypes' /\ SubTypes' BY DEF TypeInv, LeaderTypes, SubTypes
  <2>2. StreamTypes' /\ FollowerTypes' BY DEF TypeInv, StreamTypes, FollowerTypes
  <2>3. Counted' BY DEF TypeInv, Counted
  <2> QED BY <2>1, <2>2, <2>3 DEF TypeInv
<1>2. CASE \/ \E r \in Requests, batch \in BOOLEAN : LeaderWrite(r, batch)
           \/ OnCommit \/ LeaderCrash \/ LeaderSkips
           \/ RemoveArchive \/ RenameLog \/ CreateLog \/ LeaderHalts \/ LeaderStart
  BY <1>2, LeaderWriteType, OnCommitType, LeaderDownType, FilesType
<1>3. ASSUME NEW f \in Followers,
             \/ Connect(f) \/ Handler(f) \/ OldHandlerReturns(f) \/ Receive(f) \/ Ignore(f)
             \/ RejectGap(f) \/ StreamEnds(f) \/ ConnectionBreaks(f)
             \/ FollowerCheckpoint(f) \/ FollowerCrash(f) \/ FollowerStart(f)
      PROVE  TypeInv'
  BY <1>3, ConnectType, HandlerType, ReceiveType, IgnoreType, GiveUpType, FollowerCrashType,
     FollowerStorageType
<1> QED BY <1>1, <1>2, <1>3 DEF Next, Handler

LEMMA SpecType == Spec => []TypeInv
<1>1. Init => TypeInv BY InitType
<1> QED BY <1>1, NextType, PTL DEF Spec

(* Types are kept: whatever is under way is the number of a record of the
   leader's log, and an open file is one that the leader has had. *)
THEOREM TypeCorrect == Spec => []TypeOK
<1>1. TypeInv => TypeOK
  BY DEF TypeInv, TypeOK, LeaderTypes, SubTypes, StreamTypes, FollowerTypes
<1> QED BY <1>1, SpecType, PTL

----------------------------------------------------------------------------
(* What a step does to the records under way to a follower, and to sent. *)
Sends(f) ==
  \E n \in 1..Len(log) : n > sent[f] /\ net'[f] = Append(net[f], n) /\ sent'[f] = n
Takes(f) == Receives(f) /\ net'[f] = Tail(net[f]) /\ sent'[f] = sent[f]

LEMMA NetSteps ==
  ASSUME TypeInv, [Next]_vars, NEW g \in Followers
  PROVE  \/ UNCHANGED <<net[g], sent[g]>>
         \/ net'[g] = << >>
         \/ Sends(g)
         \/ Takes(g)
<1>1. CASE UNCHANGED vars
  BY <1>1 DEF vars, streamVars
<1>2. CASE \/ \E r \in Requests, batch \in BOOLEAN : LeaderWrite(r, batch)
           \/ OnCommit \/ RemoveArchive \/ RenameLog \/ CreateLog \/ LeaderHalts \/ LeaderStart
  BY <1>2 DEF LeaderWrite, OnCommit, RemoveArchive, RenameLog, CreateLog, LeaderHalts, LeaderStart, streamVars
<1>3. CASE LeaderCrash \/ LeaderSkips
  BY <1>3 DEF LeaderCrash, LeaderSkips, LeaderDies
<1>4. ASSUME NEW f \in Followers,
             \/ Connect(f) \/ OpenFile(f) \/ EndOfFile(f) \/ GoLive(f) \/ EndStream(f)
             \/ OldHandlerReturns(f) \/ FollowerCheckpoint(f) \/ FollowerStart(f)
      PROVE  UNCHANGED <<net, sent>>
  BY <1>4 DEF Connect, OpenFile, EndOfFile, GoLive, EndStream, OldHandlerReturns, FollowerCheckpoint,
              FollowerStart, streamVars
<1>t. net \in [Followers -> Seq(1..Len(log))] /\ sent \in [Followers -> 0..Len(log)]
  BY DEF TypeInv, StreamTypes
<1>5. ASSUME NEW f \in Followers, NEW n \in 1..Len(log), n > sent[f], Send(f, n)
      PROVE  UNCHANGED <<net[g], sent[g]>> \/ Sends(g)
  BY <1>5, <1>t DEF Send, Sends
<1>6. ASSUME NEW f \in Followers, SendFromFile(f) PROVE UNCHANGED <<net[g], sent[g]>> \/ Sends(g)
  <2>1. PICK n \in Unsent(f) : Send(f, n) BY <1>6 DEF SendFromFile
  <2>2. n \in 1..Len(log) BY <1>6, UnsentLogged DEF SendFromFile
  <2>3. n > sent[f] BY DEF Unsent
  <2> QED BY <1>5, <2>1, <2>2, <2>3
<1>7. ASSUME NEW f \in Followers, SendLive(f) PROVE UNCHANGED <<net[g], sent[g]>> \/ Sends(g)
  <2>1. Head(chan[f]) \in 1..Len(log)
    BY <1>7, HeadTailProperties DEF SendLive, TypeInv, StreamTypes
  <2> QED BY <1>5, <1>7, <2>1 DEF SendLive
<1>8. ASSUME NEW f \in Followers, Receive(f) \/ Ignore(f) PROVE UNCHANGED <<net[g], sent[g]>> \/ Takes(g)
  BY <1>8, <1>t DEF Receive, Ignore, Takes
<1>9. ASSUME NEW f \in Followers,
             RejectGap(f) \/ StreamEnds(f) \/ ConnectionBreaks(f) \/ FollowerCrash(f)
      PROVE  UNCHANGED <<net[g], sent[g]>> \/ net'[g] = << >>
  BY <1>9, <1>t DEF RejectGap, StreamEnds, ConnectionBreaks, FollowerCrash, Abandon
<1> QED BY <1>1, <1>2, <1>3, <1>4, <1>6, <1>7, <1>8, <1>9 DEF Next

LEMMA SendsSorted ==
  ASSUME TypeInv, NEW f \in Followers, Sorted(f), Sends(f) PROVE Sorted(f)'
<1>1. net[f] \in Seq(1..Len(log)) /\ Len(net[f]) \in Nat BY DEF TypeInv, StreamTypes
<1>2. PICK n \in 1..Len(log) : n > sent[f] /\ net'[f] = Append(net[f], n) /\ sent'[f] = n
  BY DEF Sends
<1>3. sent[f] \in Nat /\ n \in Nat BY <1>2 DEF TypeInv, StreamTypes
<1>4. /\ Len(net'[f]) = Len(net[f]) + 1 /\ net'[f][Len(net[f]) + 1] = n
      /\ \A i \in 1..Len(net[f]) : net'[f][i] = net[f][i] /\ net[f][i] \in Nat /\ net[f][i] < n
  <2>1. \A i \in 1..Len(net[f]) : net[f][i] \in 1..Len(log) BY <1>1, ElementOfSeq
  <2> QED BY <1>1, <1>2, <1>3, <2>1, AppendProperties DEF Sorted
<1>5. \A i \in 1..Len(net'[f]) : i \in 1..Len(net[f]) \/ i = Len(net[f]) + 1 BY <1>1, <1>4
<1> QED BY <1>1, <1>2, <1>3, <1>4, <1>5 DEF Sorted

LEMMA TakesSorted ==
  ASSUME TypeInv, NEW f \in Followers, Sorted(f), Takes(f) PROVE Sorted(f)'
<1>1. net[f] \in Seq(1..Len(log)) /\ net[f] # << >> /\ Len(net[f]) \in Nat
  BY DEF TypeInv, StreamTypes, Takes, Receives
<1>2. Len(net'[f]) = Len(net[f]) - 1 /\ \A i \in 1..Len(net'[f]) : net'[f][i] = net[f][i + 1]
  BY <1>1, HeadTailProperties DEF Takes
<1>3. \A i \in 1..Len(net'[f]) : i + 1 \in 1..Len(net[f]) BY <1>1, <1>2
<1> QED BY <1>1, <1>2, <1>3 DEF Sorted, Takes

LEMMA NextOrder == OrderInv /\ [Next]_vars => OrderInv'
<1> SUFFICES ASSUME OrderInv, [Next]_vars PROVE OrderInv' OBVIOUS
<1>1. TypeInv /\ TypeInv' BY NextType DEF OrderInv
<1>2. ASSUME NEW g \in Followers PROVE Sorted(g)'
  <2>1. CASE UNCHANGED <<net[g], sent[g]>> BY <2>1 DEF OrderInv, Sorted
  <2>2. CASE net'[g] = << >> BY <2>2 DEF Sorted
  <2> QED BY <1>1, <2>1, <2>2, NetSteps, SendsSorted, TakesSorted DEF OrderInv
<1> QED BY <1>1, <1>2 DEF OrderInv

(* A stream never sends a record twice or behind a later one, whatever files,
   channels and commits give its handler. *)
THEOREM StreamsStayOrdered == Spec => []StreamOrdered
<1>1. Init => OrderInv
  BY InitType DEF Init, OrderInv, Sorted
<1>2. OrderInv => StreamOrdered
  BY DEF OrderInv, Sorted, StreamOrdered
<1> QED BY <1>1, <1>2, NextOrder, PTL DEF Spec

----------------------------------------------------------------------------
(* Steps that no reader of a follower can see, now or after a restart. *)
Quiet ==
  /\ UNCHANGED <<log, hist, applied, flsn, mem, disk, tail>>
  /\ \A f \in Followers : fpc'[f] = "down" <=> fpc[f] = "down"

LEMMA VisibleSteps ==
  ASSUME TypeInv, [Next]_vars
  PROVE  \/ Quiet
         \/ LeaderSkips \/ \E r \in Requests, batch \in BOOLEAN : LeaderWrite(r, batch)
         \/ \E f \in Followers :
              Receive(f) \/ FollowerCheckpoint(f) \/ FollowerCrash(f) \/ FollowerStart(f)
<1> USE DEF Quiet, leaderVars, streamVars, followerVars
<1>t. fpc \in [Followers -> {"down", "waiting", "streaming"}] BY DEF TypeInv, FollowerTypes
<1>1. CASE UNCHANGED vars
  BY <1>1 DEF vars
<1>2. CASE OnCommit \/ RemoveArchive \/ RenameLog \/ CreateLog \/ LeaderHalts \/ LeaderStart
  BY <1>2 DEF OnCommit, RemoveArchive, RenameLog, CreateLog, LeaderHalts, LeaderStart
<1>3. CASE LeaderCrash
  BY <1>3, <1>t DEF LeaderCrash, LeaderDies
<1>4. ASSUME NEW f \in Followers,
             \/ OpenFile(f) \/ SendFromFile(f) \/ EndOfFile(f) \/ GoLive(f) \/ SendLive(f)
             \/ EndStream(f) \/ OldHandlerReturns(f) \/ Ignore(f)
      PROVE  Quiet
  BY <1>4 DEF OpenFile, SendFromFile, EndOfFile, GoLive, SendLive, EndStream, OldHandlerReturns, Ignore
<1>5. ASSUME NEW f \in Followers, Connect(f) PROVE Quiet
  BY <1>5, <1>t DEF Connect
<1>6. ASSUME NEW f \in Followers, RejectGap(f) \/ StreamEnds(f) \/ ConnectionBreaks(f) PROVE Quiet
  <2>1. fpc[f] # "down"
    BY <1>6 DEF RejectGap, Gap, Receives, StreamEnds, ConnectionBreaks, TypeInv, Counted
  <2>2. fpc' = [fpc EXCEPT ![f] = "waiting"]
        /\ UNCHANGED <<log, hist, applied, flsn, mem, disk, tail>>
    BY <1>6 DEF RejectGap, StreamEnds, ConnectionBreaks, Abandon
  <2> QED BY <1>t, <2>1, <2>2
<1> QED BY <1>1, <1>2, <1>3, <1>4, <1>5, <1>6 DEF Next

LEMMA QuietShow ==
  ASSUME ShowInv, Quiet, TypeInv' PROVE ShowInv'
<1>1. Recorded' BY DEF Quiet, ShowInv, Recorded
<1>2. ASSUME NEW g \in Followers PROVE Shows(g)' BY DEF Quiet, ShowInv, Shows, Restartable
<1> QED BY <1>1, <1>2 DEF ShowInv

(* A map of the history is where it was after another record. *)
LEMMA RecordShow ==
  ASSUME ShowInv, NEW rec, NEW next,
         log' = Append(log, rec), hist' = Append(hist, next),
         next = ApplyOps(hist[Len(hist)], rec.ops), Batched = {} => ~rec.batch,
         UNCHANGED <<applied, flsn, mem, disk, tail>>,
         \A f \in Followers : fpc'[f] = "down" <=> fpc[f] = "down"
  PROVE  Recorded' /\ \A g \in Followers : Shows(g)'
<1>1. /\ Len(log) \in Nat /\ Len(hist) = Len(log) + 1
      /\ log \in Seq([batch : BOOLEAN, ops : Seq(Ops)]) /\ hist \in Seq(Maps)
  BY DEF ShowInv, TypeInv, LeaderTypes
<1>3. /\ Len(log') = Len(log) + 1 /\ \A n \in 1..Len(log) : log'[n] = log[n]
      /\ log'[Len(log) + 1] = rec
  BY <1>1
<1>4. /\ \A n \in 1..Len(hist) : hist'[n] = hist[n]
      /\ hist'[Len(hist) + 1] = next
  BY <1>1
<1>5. Recorded'
  <2>1. hist'[1] = Empty BY <1>1, <1>4 DEF ShowInv, Recorded
  <2>2. ASSUME NEW n \in 1..Len(log')
        PROVE  hist'[n + 1] = ApplyOps(hist'[n], log'[n].ops) /\ (Batched = {} => ~log'[n].batch)
    <3>1. CASE n \in 1..Len(log)
      <4>1. hist'[n] = hist[n] /\ hist'[n + 1] = hist[n + 1] /\ log'[n] = log[n]
        BY <1>1, <1>3, <1>4, <3>1
      <4> QED BY <3>1, <4>1 DEF ShowInv, Recorded
    <3>2. CASE n = Len(log) + 1
      <4>1. hist'[n] = hist[Len(hist)] /\ hist'[n + 1] = next /\ log'[n] = rec
        BY <1>1, <1>3, <1>4, <3>2
      <4> QED BY <4>1
    <3> QED BY <1>1, <1>3, <3>1, <3>2
  <2> QED BY <2>1, <2>2 DEF Recorded
<1>6. ASSUME NEW g \in Followers PROVE Shows(g)'
  <2>1. applied[g] + 1 \in 1..Len(hist) /\ flsn[g] + 1 \in 1..Len(hist)
    BY <1>1, SMTT(15), ZenonT(20) DEF ShowInv, TypeInv, FollowerTypes
  <2>2. hist'[applied[g] + 1] = hist[applied[g] + 1] /\ hist'[flsn[g] + 1] = hist[flsn[g] + 1]
    BY <1>4, <2>1
  <2> QED BY <2>2 DEF ShowInv, Shows, Restartable
<1> QED BY <1>5, <1>6

LEMMA LeaderWriteShow ==
  ASSUME ShowInv, TypeInv', NEW r \in Requests, NEW batch \in BOOLEAN, LeaderWrite(r, batch)
  PROVE  ShowInv'
<1> DEFINE rec == [batch |-> batch, ops |-> r.ops]
<1>1. /\ log' = Append(log, rec) /\ hist' = Append(hist, ApplyOps(hist[Len(hist)], rec.ops))
      /\ batch = (r \in Batched) /\ UNCHANGED <<applied, flsn, mem, disk, tail, fpc>>
  BY DEF LeaderWrite, followerVars
<1>2. Batched = {} => ~rec.batch BY <1>1
<1> HIDE DEF rec
<1> QED BY <1>1, <1>2, RecordShow DEF ShowInv

(* A number without a record leaves the history where it is. *)
LEMMA LeaderSkipsShow == ASSUME ShowInv, TypeInv', LeaderSkips PROVE ShowInv'
<1>1. hist[Len(hist)] \in Maps BY SMTT(30) DEF ShowInv, TypeInv, LeaderTypes
<1>2. hist[Len(hist)] = ApplyOps(hist[Len(hist)], Hole.ops) /\ ~Hole.batch
  BY <1>1, ApplyNothing DEF Hole
<1>3. /\ log' = Append(log, Hole) /\ hist' = Append(hist, hist[Len(hist)])
      /\ UNCHANGED <<applied, flsn, mem, disk, tail>>
      /\ \A f \in Followers : fpc'[f] = "down" <=> fpc[f] = "down"
  BY DEF LeaderSkips, LeaderDies, ShowInv, TypeInv, FollowerTypes
<1> QED BY <1>2, <1>3, RecordShow DEF ShowInv

(* The next record takes a follower to the next map of the history. *)
LEMMA ReceiveShow ==
  ASSUME ShowInv, TypeInv', NEW f \in Followers, Receive(f) PROVE ShowInv'
<1> USE DEF leaderVars
<1> DEFINE n == applied[f] + 1
           rec == log[n]
<1>1. /\ Incoming(f) = n /\ n \in 1..Len(log) /\ fpc[f] = "streaming"
      /\ mem[f] = hist[n]
  <2>1. Incoming(f) \in 1..Len(log)
    BY HeadTailProperties DEF Receive, Receives, Incoming, ShowInv, TypeInv, StreamTypes, LeaderTypes
  <2> QED BY <2>1 DEF Receive, Receives, ShowInv, Shows
<1>2. ApplyOps(hist[n], rec.ops) = hist[n + 1] BY <1>1 DEF ShowInv, Recorded
<1>3. /\ UNCHANGED <<log, hist, fpc, disk>>
      /\ applied' = [applied EXCEPT ![f] = n]
      /\ mem' = [mem EXCEPT ![f] = ApplyOps(@, rec.ops)]
      /\ \A g \in Followers \ {f} : flsn'[g] = flsn[g] /\ tail'[g] = tail[g]
      /\ ~rec.batch => flsn'[f] = flsn[f] + 1 /\ tail'[f] = tail[f] \o rec.ops
  BY <1>1 DEF Receive, Apply, ShowInv, TypeInv, FollowerTypes
<1>4. Recorded' BY <1>3 DEF ShowInv, Recorded
<1>5. applied'[f] = n /\ mem'[f] = hist[n + 1] /\ \A g \in Followers \ {f} : applied'[g] = applied[g] /\ mem'[g] = mem[g]
  BY <1>1, <1>2, <1>3 DEF ShowInv, TypeInv, FollowerTypes
<1>6. ASSUME NEW g \in Followers \ {f} PROVE Shows(g)'
  BY <1>3, <1>5 DEF ShowInv, Shows, Restartable
<1>7. Shows(f)'
  <2>1. Batched = {} => Restartable(f)'
    <3> SUFFICES ASSUME Batched = {} PROVE Restartable(f)' OBVIOUS
    <3>1. ~rec.batch BY <1>1 DEF ShowInv, Recorded
    <3>2. flsn[f] = applied[f] /\ ApplyOps(disk[f], tail[f]) = hist[n]
      BY <1>1 DEF ShowInv, Shows, Restartable
    <3>3. disk[f] \in Maps /\ tail[f] \in Seq(Ops) /\ rec.ops \in Seq(Ops)
      <4>1. log \in Seq([batch : BOOLEAN, ops : Seq(Ops)]) BY DEF ShowInv, TypeInv, LeaderTypes
      <4>2. rec \in [batch : BOOLEAN, ops : Seq(Ops)] BY <1>1, <4>1, ElementOfSeq
      <4> QED BY <4>2 DEF ShowInv, TypeInv, FollowerTypes
    <3>4. ApplyOps(disk[f], tail[f] \o rec.ops) = hist[n + 1]
      BY <1>2, <3>2, <3>3, ApplyConcat
    <3> QED BY <1>3, <1>5, <3>1, <3>2, <3>4 DEF Restartable
  <2> QED BY <1>1, <1>3, <1>5, <2>1 DEF ShowInv, Shows
<1> QED BY <1>4, <1>6, <1>7 DEF ShowInv

LEMMA FollowerCheckpointShow ==
  ASSUME ShowInv, TypeInv', NEW f \in Followers, FollowerCheckpoint(f) PROVE ShowInv'
<1> USE DEF leaderVars
<1>1. /\ UNCHANGED <<log, hist, fpc, applied, flsn, mem>>
      /\ disk' = [disk EXCEPT ![f] = mem[f]] /\ tail' = [tail EXCEPT ![f] = << >>]
      /\ fpc[f] # "down"
  BY DEF FollowerCheckpoint
<1>2. Recorded' BY <1>1 DEF ShowInv, Recorded
<1>3. mem[f] \in Maps /\ disk'[f] = mem[f] /\ tail'[f] = << >>
      /\ \A g \in Followers \ {f} : disk'[g] = disk[g] /\ tail'[g] = tail[g]
  BY <1>1 DEF ShowInv, TypeInv, FollowerTypes
<1>4. ApplyOps(disk'[f], tail'[f]) = mem[f] BY <1>3, ApplyNothing
<1>5. ASSUME NEW g \in Followers PROVE Shows(g)'
  BY <1>1, <1>3, <1>4 DEF ShowInv, Shows, Restartable
<1> QED BY <1>2, <1>5 DEF ShowInv

LEMMA FollowerCrashShow ==
  ASSUME ShowInv, TypeInv', NEW f \in Followers, FollowerCrash(f) PROVE ShowInv'
<1> USE DEF leaderVars
<1>1. /\ UNCHANGED <<log, hist, flsn, disk, tail>> /\ fpc'[f] = "down" /\ "crash" \in Faults
      /\ \A g \in Followers \ {f} : fpc'[g] = fpc[g] /\ applied'[g] = applied[g] /\ mem'[g] = mem[g]
  BY DEF FollowerCrash, May, Abandon, ShowInv, TypeInv, FollowerTypes
<1>2. Recorded' BY <1>1 DEF ShowInv, Recorded
<1>3. ASSUME NEW g \in Followers PROVE Shows(g)'
  BY <1>1 DEF ShowInv, Shows, Restartable
<1> QED BY <1>2, <1>3 DEF ShowInv

(* A batch is in the map of a follower and not in its log: a follower that has one
   must not die. *)
Recoverable == Batched = {} \/ "crash" \notin Faults

LEMMA FollowerStartShow ==
  ASSUME Recoverable, ShowInv, TypeInv', NEW f \in Followers, FollowerStart(f)
  PROVE  ShowInv' /\ mem'[f] = hist[flsn[f] + 1]
<1> USE DEF leaderVars
<1>1. /\ UNCHANGED <<log, hist, flsn>> /\ fpc'[f] = "waiting" /\ applied'[f] = flsn[f]
      /\ mem'[f] = ApplyOps(disk[f], tail[f]) /\ disk'[f] = mem'[f] /\ tail'[f] = << >>
      /\ \A g \in Followers \ {f} :
           fpc'[g] = fpc[g] /\ applied'[g] = applied[g] /\ mem'[g] = mem[g]
           /\ disk'[g] = disk[g] /\ tail'[g] = tail[g]
      /\ fpc[f] = "down"
  BY DEF FollowerStart, ShowInv, TypeInv, FollowerTypes
<1>2. Recorded' BY <1>1 DEF ShowInv, Recorded
<1>3. mem'[f] = hist[flsn[f] + 1]
  BY <1>1 DEF ShowInv, Shows, Restartable, Recoverable
<1>4. ApplyOps(disk'[f], tail'[f]) = mem'[f]
  <2>1. mem'[f] \in Maps BY DEF TypeInv, FollowerTypes
  <2> QED BY <1>1, <2>1, ApplyNothing
<1>5. Shows(f)' BY <1>1, <1>3, <1>4 DEF Shows, Restartable
<1>6. ASSUME NEW g \in Followers \ {f} PROVE Shows(g)'
  BY <1>1 DEF ShowInv, Shows, Restartable
<1> QED BY <1>2, <1>3, <1>5, <1>6 DEF ShowInv

LEMMA InitShow == ASSUME Init PROVE ShowInv
<1>1. TypeInv BY InitType
<1>2. Recorded BY DEF Init, Recorded
<1>3. ASSUME NEW f \in Followers PROVE Shows(f)
  <2>1. ApplyOps(disk[f], tail[f]) = Empty BY EmptyMap, ApplyNothing DEF Init
  <2> QED BY <2>1 DEF Init, Shows, Restartable
<1> QED BY <1>1, <1>2, <1>3 DEF ShowInv

LEMMA NextShow == ASSUME Recoverable, ShowInv, [Next]_vars PROVE ShowInv'
<1>1. TypeInv /\ TypeInv' BY NextType DEF ShowInv
<1> QED BY <1>1, VisibleSteps, QuietShow, LeaderWriteShow, LeaderSkipsShow, ReceiveShow, FollowerCheckpointShow,
           FollowerCrashShow, FollowerStartShow

(* A follower that serves shows exactly the leader's map after the records that it
   has applied: without batches whatever happens, with batches as long as no
   follower dies. *)
THEOREM FollowersShowHistory == ASSUME Recoverable PROVE Spec => []FollowerPrefix
<1>1. Init => ShowInv BY InitShow
<1>2. ShowInv /\ [Next]_vars => ShowInv' BY NextShow
<1>3. ShowInv => FollowerPrefix BY DEF ShowInv, Shows, FollowerPrefix
<1> QED BY <1>1, <1>2, <1>3, PTL DEF Spec

----------------------------------------------------------------------------
(* The refinement: a step of Replication is a step of ReplicatedStore or leaves
   its variables alone. *)
LEMMA RefineQuiet ==
  ASSUME TypeInv, Quiet PROVE UNCHANGED <<hist, Position, Seen>>
<1>1. fpc \in [Followers -> {"down", "waiting", "streaming"}] BY DEF TypeInv, FollowerTypes
<1> QED BY <1>1 DEF Quiet, Position, Seen

LEMMA RefineInit == ASSUME Init PROVE RS!RSInit
BY DEF Init, RS!RSInit, Position, Seen, Empty

LEMMA RefineReceive ==
  ASSUME ShowInv, ShowInv', NEW f \in Followers, Receive(f) PROVE RS!RSFollow(f)
<1>1. /\ fpc[f] = "streaming" /\ UNCHANGED <<fpc, hist, log>>
      /\ applied' = [applied EXCEPT ![f] = applied[f] + 1]
      /\ applied[f] + 1 \in 1..Len(log)
  <2>1. Incoming(f) \in 1..Len(log)
    BY HeadTailProperties DEF Receive, Receives, Incoming, ShowInv, TypeInv, StreamTypes
  <2> QED BY <2>1 DEF Receive, Receives, leaderVars
<1>2. /\ mem \in [Followers -> Maps] /\ mem' \in [Followers -> Maps]
      /\ applied \in [Followers -> 0..Len(log)] /\ Len(hist) = Len(log) + 1
      /\ \A g \in Followers \ {f} : mem'[g] = mem[g] /\ flsn'[g] = flsn[g] /\ applied'[g] = applied[g]
      /\ applied'[f] = applied[f] + 1
  BY <1>1 DEF Receive, Apply, ShowInv, TypeInv, FollowerTypes, LeaderTypes
<1>3. Seen[f] = mem[f] /\ Seen[f] # Hidden
  BY <1>1, <1>2, ReplicationAssumption DEF Seen
<1>4. Position[f] = applied[f] /\ Position[f] + 1 < Len(hist)
  BY <1>1, <1>2 DEF Position
<1>5. Position' = [Position EXCEPT ![f] = Position[f] + 1]
  BY <1>1, <1>2 DEF Position
<1>6. mem'[f] = hist[Position[f] + 2]
  <2>1. mem'[f] = hist'[applied'[f] + 1] BY <1>1 DEF ShowInv, Shows
  <2>2. applied'[f] + 1 = Position[f] + 2 BY <1>2, <1>4
  <2> QED BY <1>1, <2>1, <2>2
<1>7. Seen' = [Seen EXCEPT ![f] = hist[Position[f] + 2]]
  BY <1>1, <1>2, <1>6 DEF Seen
<1> QED BY <1>1, <1>3, <1>4, <1>5, <1>7 DEF RS!RSFollow

LEMMA RefineCrash ==
  ASSUME Recoverable, ShowInv, NEW f \in Followers, FollowerCrash(f) PROVE RS!RSStop(f)
<1>1. /\ UNCHANGED <<hist, flsn>> /\ fpc' = [fpc EXCEPT ![f] = "down"] /\ "crash" \in Faults
      /\ mem' = [mem EXCEPT ![f] = Empty] /\ applied' = [applied EXCEPT ![f] = 0] /\ fpc[f] # "down"
  BY DEF FollowerCrash, May, Abandon
<1>2. flsn[f] = applied[f] BY <1>1 DEF Recoverable, ShowInv, Shows, Restartable
<1>3. fpc \in [Followers -> {"down", "waiting", "streaming"}]
      /\ applied \in [Followers -> 0..Len(log)] /\ mem \in [Followers -> Maps]
  BY DEF ShowInv, TypeInv, FollowerTypes
<1>4. Position' = Position BY <1>1, <1>2, <1>3 DEF Position
<1>5. Seen' = [Seen EXCEPT ![f] = Hidden] BY <1>1, <1>3 DEF Seen
<1> QED BY <1>1, <1>4, <1>5 DEF RS!RSStop

LEMMA RefineStart ==
  ASSUME Recoverable, ShowInv, ShowInv', NEW f \in Followers, FollowerStart(f) PROVE RS!RSStart(f)
<1>1. /\ UNCHANGED <<hist, flsn>> /\ fpc' = [fpc EXCEPT ![f] = "waiting"] /\ fpc[f] = "down"
      /\ applied' = [applied EXCEPT ![f] = flsn[f]]
      /\ mem' = [mem EXCEPT ![f] = ApplyOps(disk[f], tail[f])]
  BY DEF FollowerStart
<1>2. mem'[f] = hist[flsn[f] + 1] BY FollowerStartShow DEF ShowInv
<1>3. fpc \in [Followers -> {"down", "waiting", "streaming"}]
      /\ applied \in [Followers -> 0..Len(log)] /\ mem \in [Followers -> Maps]
  BY DEF ShowInv, TypeInv, FollowerTypes
<1>4. Position' = Position /\ Position[f] = flsn[f] BY <1>1, <1>3 DEF Position
<1>5. Seen' = [Seen EXCEPT ![f] = hist[Position[f] + 1]] BY <1>1, <1>2, <1>3, <1>4 DEF Seen
<1> QED BY <1>1, <1>4, <1>5 DEF RS!RSStart

LEMMA RefineWrite ==
  ASSUME NEW r \in Requests, NEW batch \in BOOLEAN, LeaderWrite(r, batch) PROVE RS!RSCommit
<1>1. hist' = Append(hist, ApplyOps(hist[Len(hist)], r.ops)) /\ UNCHANGED <<fpc, flsn, applied, mem>>
  BY DEF LeaderWrite, followerVars
<1>2. Position' = Position /\ Seen' = Seen BY <1>1 DEF Position, Seen
<1>3. RS!ApplyOps(hist[Len(hist)], r.ops) = ApplyOps(hist[Len(hist)], r.ops)
  BY DEF RS!ApplyOps, RS!ApplyPrefix, ApplyOps, ApplyPrefix
<1> QED BY <1>1, <1>2, <1>3 DEF RS!RSCommit

LEMMA RefineSkip == ASSUME TypeInv, LeaderSkips PROVE RS!RSCommit
<1>1. /\ hist' = Append(hist, hist[Len(hist)]) /\ UNCHANGED <<flsn, applied, mem>>
      /\ \A f \in Followers : fpc'[f] = "down" <=> fpc[f] = "down"
  BY DEF LeaderSkips, LeaderDies, TypeInv, FollowerTypes
<1>2. Position' = Position /\ Seen' = Seen BY <1>1 DEF Position, Seen
<1>3. hist[Len(hist)] \in Maps BY DEF TypeInv, LeaderTypes
<1>4. RS!ApplyOps(hist[Len(hist)], << >>) = hist[Len(hist)]
  <2>1. RS!ApplyOps(hist[Len(hist)], << >>) = ApplyOps(hist[Len(hist)], << >>)
    BY DEF RS!ApplyOps, RS!ApplyPrefix, ApplyOps, ApplyPrefix
  <2> QED BY <1>3, <2>1, ApplyNothing
<1> QED BY <1>1, <1>2, <1>4 DEF RS!RSCommit

LEMMA RefineNext ==
  ASSUME Recoverable, ShowInv, ShowInv', [Next]_vars PROVE [RS!RSNext]_(RS!rsVars)
<1>1. TypeInv BY DEF ShowInv
<1>2. CASE Quiet BY <1>1, <1>2, RefineQuiet DEF RS!rsVars
<1>3. CASE \E r \in Requests, batch \in BOOLEAN : LeaderWrite(r, batch)
  BY <1>3, RefineWrite DEF RS!RSNext
<1>6. CASE LeaderSkips BY <1>1, <1>6, RefineSkip DEF RS!RSNext
<1>4. ASSUME NEW f \in Followers, Receive(f) \/ FollowerCrash(f) \/ FollowerStart(f)
      PROVE  [RS!RSNext]_(RS!rsVars)
  BY <1>4, RefineReceive, RefineCrash, RefineStart DEF RS!RSNext
<1>5. ASSUME NEW f \in Followers, FollowerCheckpoint(f) PROVE [RS!RSNext]_(RS!rsVars)
  <2>1. UNCHANGED <<hist, fpc, flsn, applied, mem>> BY <1>5 DEF FollowerCheckpoint
  <2> QED BY <2>1 DEF Position, Seen, RS!rsVars
<1> QED BY <1>1, <1>2, <1>3, <1>4, <1>5, <1>6, VisibleSteps

(* Followers show the leader's maps, one after the other, never go back, and come
   back from a restart where they were. *)
THEOREM Refines == ASSUME Recoverable PROVE Spec => ImplementsReplicatedStore
<1>1. Init => ShowInv BY InitShow
<1>2. ShowInv /\ [Next]_vars => ShowInv' BY NextShow
<1>3. Init => RS!RSInit BY RefineInit
<1>4. ShowInv /\ ShowInv' /\ [Next]_vars => [RS!RSNext]_(RS!rsVars) BY RefineNext
<1> QED BY <1>1, <1>2, <1>3, <1>4, PTL DEF Spec, ImplementsReplicatedStore, RS!RSSpec

----------------------------------------------------------------------------
(* Positions: a follower's log numbers records as the leader's, and the leader
   has been told of no more than is in it. *)
OwnNames == \A f, g \in Followers : ReplicaId[f] = ReplicaId[g] => f = g
Told == \A f \in Followers : acks[ReplicaId[f]] <= flsn[f]

LEMMA NextTold ==
  ASSUME Batched = {}, OwnNames, ShowInv, Told, TypeInv', [Next]_vars PROVE Told'
<1>t. /\ acks \in [ReplicaIds -> 0..Len(log)] /\ flsn \in [Followers -> 0..Len(log)]
      /\ \A f \in Followers : ReplicaId[f] \in ReplicaIds
  BY ReplicationAssumption DEF ShowInv, TypeInv, SubTypes, FollowerTypes
<1>1. ASSUME NEW f \in Followers, Receive(f) PROVE Told'
  <2>1. Incoming(f) = applied[f] + 1 /\ Incoming(f) \in 1..Len(log) /\ fpc[f] = "streaming"
    BY <1>1, HeadTailProperties DEF Receive, Receives, Incoming, ShowInv, TypeInv, StreamTypes
  <2>2. ~log[Incoming(f)].batch /\ flsn[f] = applied[f]
    BY <2>1 DEF ShowInv, Recorded, Shows, Restartable
  <2>3. flsn' = [flsn EXCEPT ![f] = applied[f] + 1]
    BY <1>1, <2>2 DEF Receive, Apply
  <2>4. acks' \in {acks, [acks EXCEPT ![ReplicaId[f]] = applied[f] + 1]}
    BY <1>1, <2>1 DEF Receive
  <2>5. applied[f] \in Nat BY DEF ShowInv, TypeInv, FollowerTypes
  <2>6. ASSUME NEW g \in Followers PROVE acks'[ReplicaId[g]] <= flsn'[g]
    <3>1. CASE g = f
      <4>1. flsn'[g] = applied[f] + 1 BY <1>t, <2>3, <3>1
      <4>2. acks[ReplicaId[g]] <= applied[f] /\ acks[ReplicaId[g]] \in Nat
        BY <1>t, <2>2, <3>1 DEF Told
      <4>3. acks'[ReplicaId[g]] \in {acks[ReplicaId[g]], applied[f] + 1} BY <1>t, <2>4, <3>1
      <4> QED BY <2>5, <4>1, <4>2, <4>3
    <3>2. CASE g # f
      <4>1. ReplicaId[g] # ReplicaId[f] BY <3>2 DEF OwnNames
      <4>2. acks'[ReplicaId[g]] = acks[ReplicaId[g]] /\ flsn'[g] = flsn[g]
        BY <1>t, <2>3, <2>4, <3>2, <4>1
      <4> QED BY <4>2 DEF Told
    <3> QED BY <3>1, <3>2
  <2> QED BY <2>6 DEF Told
<1>2. CASE LeaderDies
  <2>1. \A f \in Followers : acks'[ReplicaId[f]] = 0 /\ flsn'[f] = flsn[f] BY <1>2, <1>t DEF LeaderDies
  <2> QED BY <1>t, <2>1 DEF Told
<1>3. CASE UNCHANGED <<acks, flsn>>
  BY <1>3 DEF Told
<1>4. \/ UNCHANGED <<acks, flsn>> \/ LeaderDies \/ \E f \in Followers : Receive(f)
  <2>1. CASE UNCHANGED vars BY <2>1 DEF vars, followerVars
  <2>2. CASE \/ \E r \in Requests, batch \in BOOLEAN : LeaderWrite(r, batch)
             \/ OnCommit \/ RemoveArchive \/ RenameLog \/ CreateLog \/ LeaderHalts \/ LeaderStart
    BY <2>2 DEF LeaderWrite, OnCommit, RemoveArchive, RenameLog, CreateLog, LeaderHalts, LeaderStart, followerVars
  <2>3. ASSUME NEW f \in Followers,
               \/ Connect(f) \/ OpenFile(f) \/ SendFromFile(f) \/ EndOfFile(f) \/ GoLive(f)
               \/ SendLive(f) \/ EndStream(f) \/ OldHandlerReturns(f) \/ Ignore(f) \/ RejectGap(f)
        PROVE  UNCHANGED <<acks, flsn>>
    BY <2>3 DEF Connect, OpenFile, SendFromFile, EndOfFile, GoLive, SendLive, EndStream,
                OldHandlerReturns, Ignore, RejectGap, followerVars
  <2>4. ASSUME NEW f \in Followers,
               \/ StreamEnds(f) \/ ConnectionBreaks(f) \/ FollowerCheckpoint(f)
               \/ FollowerCrash(f) \/ FollowerStart(f)
        PROVE  UNCHANGED <<acks, flsn>>
    BY <2>4 DEF StreamEnds, ConnectionBreaks, FollowerCheckpoint, FollowerCrash, FollowerStart
  <2>5. CASE LeaderCrash \/ LeaderSkips BY <2>5 DEF LeaderCrash, LeaderSkips
  <2> QED BY <2>1, <2>2, <2>3, <2>4, <2>5 DEF Next
<1> QED BY <1>1, <1>2, <1>3, <1>4

(* After a restart a follower asks for the right records, and what the leader has
   been told is applied is not lost with it, if no record is a batch and no
   two followers use one name. *)
THEOREM NumbersAgree == ASSUME Batched = {}, OwnNames PROVE Spec => []NumberingAligned
<1>1. Init => ShowInv /\ Told
  <2>1. ASSUME Init PROVE Told
    <3>1. \A f \in Followers : ReplicaId[f] \in ReplicaIds BY ReplicationAssumption
    <3> QED BY <2>1, <3>1 DEF Init, Told
  <2> QED BY <2>1, InitShow
<1>2. ShowInv /\ Told /\ [Next]_vars => ShowInv' /\ Told'
  <2> SUFFICES ASSUME ShowInv, Told, [Next]_vars PROVE ShowInv' /\ Told' OBVIOUS
  <2>1. ShowInv' BY NextShow DEF Recoverable
  <2>2. TypeInv' BY <2>1 DEF ShowInv
  <2> QED BY <2>1, <2>2, NextTold
<1>3. ShowInv /\ Told => NumberingAligned
  BY DEF ShowInv, Shows, Restartable, Told, NumberingAligned
<1> QED BY <1>1, <1>2, <1>3, PTL DEF Spec

----------------------------------------------------------------------------
(* One log file: no gaps and no holes. *)
LEMMA InitWhole == ASSUME Init PROVE WholeInv
<1>1. TypeInv BY InitType
<1>2. ASSUME NEW f \in Followers PROVE ~Open(f)
  <2>1. ReplicaId[f] \in ReplicaIds /\ <<f, "live">> # NoSub BY ReplicationAssumption
  <2> QED BY <2>1 DEF Init, Open
<1>3. OneFile /\ Committed BY DEF Init, OneFile, Committed
<1>4. ASSUME NEW f \in Followers PROVE Linked(f)
  BY <1>2 DEF Init, Linked
<1>5. ASSUME NEW f \in Followers PROVE Whole(f)
  BY <1>2 DEF Init, Whole, NetWhole, ChanWhole, Read, Joined, Successive
<1> QED BY <1>1, <1>3, <1>4, <1>5 DEF WholeInv

LEMMA NextOneFile ==
  ASSUME MaxGens = 1, "skip" \notin Faults, TypeInv, OneFile, Committed, [Next]_vars
  PROVE  OneFile' /\ Committed'
<1>t. Len(log) \in Nat /\ Len(gens) = 1 BY DEF TypeInv, LeaderTypes, OneFile
<1>1. CASE UNCHANGED <<leaderVars>>
  BY <1>1 DEF leaderVars, OneFile, Committed
<1>2. ASSUME NEW r \in Requests, NEW batch \in BOOLEAN, LeaderWrite(r, batch) PROVE OneFile' /\ Committed'
  <2> DEFINE rec == [batch |-> batch, ops |-> r.ops]
  <2>1. rec # Hole
    <3>1. CASE r \in Batched BY <1>2, <3>1 DEF LeaderWrite, Hole
    <3>2. CASE r \notin Batched
      <4>1. Len(r.ops) = 1 BY <3>2, ReplicationAssumption
      <4>2. rec.ops # << >> /\ Hole.ops = << >> BY <4>1 DEF Hole
      <4> QED BY <4>2
    <3> QED BY <3>1, <3>2
  <2>2. log' = Append(log, rec) BY <1>2 DEF LeaderWrite
  <2> HIDE DEF rec
  <2>3. /\ Len(log') = Len(log) + 1 /\ log'[Len(log) + 1] = rec
        /\ \A n \in 1..Len(log) : log'[n] = log[n]
    BY <2>2 DEF TypeInv, LeaderTypes
  <2>4. \A n \in 1..Len(log') : log'[n] # Hole
    <3>1. \A n \in 1..Len(log') : n \in 1..Len(log) \/ n = Len(log) + 1 BY <1>t, <2>3
    <3> QED BY <2>1, <2>3, <3>1 DEF OneFile
  <2> QED BY <1>2, <1>t, <2>3, <2>4 DEF LeaderWrite, OneFile, Committed
<1>3. CASE OnCommit BY <1>3 DEF OnCommit, OneFile, Committed
<1>4. CASE RemoveArchive \/ RenameLog \/ CreateLog
  BY <1>4, <1>t DEF RemoveArchive, RenameLog, CreateLog, OneFile
<1>5. CASE LeaderHalts \/ LeaderCrash \/ LeaderSkips
  BY <1>5 DEF LeaderHalts, LeaderCrash, LeaderSkips, LeaderDies, May, OneFile, Committed
<1>6. CASE LeaderStart
  <2>1. PICK n \in 0..Len(log) : published' = n /\ LastRecord(n) BY <1>6 DEF LeaderStart
  <2>2. n = Len(log)
    <3>1. n # Len(log) => Len(log) \in (n + 1)..Len(log) /\ Len(log) \in 1..Len(log) BY <1>t, <2>1
    <3> QED BY <2>1, <3>1 DEF LastRecord, OneFile
  <2> QED BY <1>6, <2>1, <2>2 DEF LeaderStart, OneFile, Committed
<1>7. ASSUME NEW f \in Followers,
             \/ Connect(f) \/ OpenFile(f) \/ SendFromFile(f) \/ EndOfFile(f) \/ GoLive(f)
             \/ SendLive(f) \/ EndStream(f) \/ OldHandlerReturns(f) \/ Receive(f) \/ Ignore(f)
      PROVE  UNCHANGED <<leaderVars>>
  BY <1>7 DEF Connect, OpenFile, SendFromFile, EndOfFile, GoLive, SendLive, EndStream,
              OldHandlerReturns, Receive, Ignore
<1>8. ASSUME NEW f \in Followers,
             \/ RejectGap(f) \/ StreamEnds(f) \/ ConnectionBreaks(f) \/ FollowerCheckpoint(f)
             \/ FollowerCrash(f) \/ FollowerStart(f)
      PROVE  UNCHANGED <<leaderVars>>
  BY <1>8 DEF RejectGap, StreamEnds, ConnectionBreaks, FollowerCheckpoint, FollowerCrash, FollowerStart
<1> QED BY <1>1, <1>2, <1>3, <1>4, <1>5, <1>6, <1>7, <1>8 DEF Next, vars

(* Only Connect opens a channel. *)
LEMMA OpenSteps ==
  ASSUME TypeInv, [Next]_vars, NEW g \in Followers PROVE Open(g)' => Open(g) \/ Connect(g)
<1>t. ReplicaId[g] \in ReplicaIds /\ <<g, "live">> # NoSub BY ReplicationAssumption
<1>1. CASE UNCHANGED subs BY <1>1 DEF Open
<1>2. CASE OnCommit BY <1>2, <1>t DEF OnCommit, Broadcast, Open
<1>3. CASE LeaderCrash \/ LeaderSkips
  <2>1. subs' = [id \in ReplicaIds |-> NoSub] BY <1>3 DEF LeaderCrash, LeaderSkips, LeaderDies
  <2>2. subs'[ReplicaId[g]] = NoSub BY <1>t, <2>1
  <2> QED BY <1>t, <2>2 DEF Open
<1>4. ASSUME NEW f \in Followers, Connect(f), f # g PROVE Open(g)' => Open(g)
  BY <1>4, <1>t DEF Connect, Subscribe, Open, TypeInv, SubTypes
<1>5. ASSUME NEW f \in Followers, EndStream(f) \/ OldHandlerReturns(f) PROVE Open(g)' => Open(g)
  BY <1>5, <1>t DEF EndStream, OldHandlerReturns, Unsubscribe, Open, TypeInv, SubTypes
<1>6. ASSUME NEW f \in Followers,
             RejectGap(f) \/ StreamEnds(f) \/ ConnectionBreaks(f) \/ FollowerCrash(f)
      PROVE  Open(g)' => Open(g)
  <2>1. subs' = [subs EXCEPT ![ReplicaId[f]] = IF Open(f) THEN <<f, "old">> ELSE @]
    BY <1>6 DEF RejectGap, StreamEnds, ConnectionBreaks, FollowerCrash, Abandon
  <2> QED BY <1>t, <2>1 DEF Open, TypeInv, SubTypes
<1>7. CASE \/ \E r \in Requests, batch \in BOOLEAN : LeaderWrite(r, batch)
           \/ RemoveArchive \/ RenameLog \/ CreateLog \/ LeaderHalts \/ LeaderStart
  BY <1>1, <1>7 DEF LeaderWrite, RemoveArchive, RenameLog, CreateLog, LeaderHalts, LeaderStart
<1>8. ASSUME NEW f \in Followers,
             \/ OpenFile(f) \/ SendFromFile(f) \/ EndOfFile(f) \/ GoLive(f) \/ SendLive(f)
             \/ Receive(f) \/ Ignore(f) \/ FollowerCheckpoint(f) \/ FollowerStart(f)
      PROVE  UNCHANGED subs
  BY <1>8 DEF OpenFile, SendFromFile, EndOfFile, GoLive, SendLive, Receive, Ignore,
              FollowerCheckpoint, FollowerStart
<1> QED BY <1>1, <1>2, <1>3, <1>4, <1>5, <1>6, <1>7, <1>8 DEF Next, vars

(* A channel of a stream that is given up is not open. *)
LEMMA AbandonCloses ==
  ASSUME TypeInv, NEW f \in Followers, NEW next, Abandon(f, next)
  PROVE  /\ ~Open(f)' /\ fpc'[f] = next /\ phase'[f] = "none" /\ net'[f] = << >>
         /\ chan'[f] = << >> /\ sent'[f] = 0 /\ handle'[f] = 0
         /\ \A g \in Followers \ {f} :
              UNCHANGED <<fpc[g], phase[g], net[g], chan[g], sent[g], handle[g], from[g]>>
<1>1. ReplicaId[f] \in ReplicaIds BY ReplicationAssumption
<1>2. ~Open(f)' BY <1>1 DEF Abandon, Open, TypeInv, SubTypes
<1> QED BY <1>2 DEF Abandon, TypeInv, StreamTypes, FollowerTypes

LEMMA AppendSuccessive ==
  ASSUME NEW s \in Seq(Nat), NEW x \in Nat, Successive(s), s # << >> => x = s[Len(s)] + 1
  PROVE  /\ Successive(Append(s, x)) /\ Append(s, x) # << >>
         /\ Append(s, x)[1] = IF s = << >> THEN x ELSE s[1]
         /\ Append(s, x)[Len(Append(s, x))] = x
<1>1. /\ Len(Append(s, x)) = Len(s) + 1 /\ Append(s, x)[Len(s) + 1] = x
      /\ \A i \in 1..Len(s) : Append(s, x)[i] = s[i]
  BY AppendProperties
<1>2. Len(s) \in Nat /\ (s = << >> <=> Len(s) = 0) BY EmptySeq, LenProperties
<1>3. Append(s, x) # << >> BY AppendProperties
<1> QED BY <1>1, <1>2, <1>3 DEF Successive

LEMMA TailSuccessive ==
  ASSUME NEW s \in Seq(Nat), Successive(s), s # << >>
  PROVE  /\ Successive(Tail(s)) /\ Head(s) = s[1] /\ s[1] \in Nat /\ Tail(s) \in Seq(Nat)
         /\ Tail(s) # << >> => Tail(s)[1] = s[1] + 1 /\ Tail(s)[Len(Tail(s))] = s[Len(s)]
         /\ Tail(s) = << >> => s[Len(s)] = s[1]
<1>1. /\ Tail(s) \in Seq(Nat) /\ Len(Tail(s)) = Len(s) - 1 /\ Head(s) = s[1]
      /\ \A i \in 1..Len(Tail(s)) : Tail(s)[i] = s[i + 1]
  BY HeadTailProperties
<1>2. Len(s) \in Nat \ {0} /\ s[1] \in Nat BY EmptySeq, LenProperties, ElementOfSeq
<1>3. Tail(s) = << >> <=> Len(Tail(s)) = 0 BY <1>1, EmptySeq
<1> QED BY <1>1, <1>2, <1>3 DEF Successive

LEMMA StreamParts ==
  ASSUME TypeInv, NEW f \in Followers
  PROVE  /\ applied[f] \in Nat /\ sent[f] \in Nat /\ from[f] \in Nat /\ published \in Nat
         /\ Len(log) \in Nat /\ published <= Len(log) /\ sent[f] <= Len(log)
         /\ net[f] \in Seq(Nat) /\ chan[f] \in Seq(Nat)
         /\ net[f] # << >> => net[f][Len(net[f])] >= 1
         /\ chan[f] # << >> => chan[f][1] <= Len(log)
<1>1. Len(log) \in Nat BY DEF TypeInv, LeaderTypes
<1>2. net[f] \in Seq(1..Len(log)) /\ chan[f] \in Seq(1..Len(log)) BY DEF TypeInv, StreamTypes
<1>3. net[f] \in Seq(Nat) /\ chan[f] \in Seq(Nat) BY <1>1, <1>2, SeqMonotonic
<1>4. net[f] # << >> => net[f][Len(net[f])] \in 1..Len(log)
  BY <1>2, EmptySeq, LenProperties, ElementOfSeq
<1>5. chan[f] # << >> => chan[f][1] \in 1..Len(log)
  BY <1>2, EmptySeq, LenProperties, ElementOfSeq
<1>6. applied[f] \in Nat /\ sent[f] \in Nat /\ from[f] \in Nat /\ sent[f] <= Len(log)
  BY <1>1 DEF TypeInv, StreamTypes, FollowerTypes
<1>7. published \in Nat /\ published <= Len(log) BY <1>1 DEF TypeInv, LeaderTypes
<1>8. net[f] # << >> => net[f][Len(net[f])] >= 1 BY <1>1, <1>4
<1>9. chan[f] # << >> => chan[f][1] <= Len(log) BY <1>1, <1>5
<1> QED BY <1>1, <1>3, <1>6, <1>7, <1>8, <1>9

(* A follower whose stream a step does not touch. *)
LEMMA Untouched ==
  ASSUME WholeInv, [Next]_vars, NEW g \in Followers, lpc' = "down" => lpc = "down",
         UNCHANGED <<fpc[g], phase[g], net[g], chan[g], sent[g], handle[g], from[g],
                     applied[g], published>>
  PROVE  Linked(g)' /\ Whole(g)'
<1>1. Linked(g) /\ Whole(g) /\ TypeInv BY DEF WholeInv
<1>2. Open(g)' => Open(g)
  BY <1>1, OpenSteps DEF Connect, Linked, TypeInv, StreamTypes
<1>3. Linked(g)' BY <1>1, <1>2 DEF Linked
<1> QED BY <1>1, <1>2, <1>3 DEF Whole, NetWhole, ChanWhole, Read, Joined

(* A follower without a stream. *)
LEMMA NoStream ==
  ASSUME NEW g \in Followers, ~Open(g)', phase'[g] = "none", fpc'[g] # "streaming",
         net'[g] = << >>, chan'[g] = << >>, sent'[g] = 0, handle'[g] = 0, applied'[g] \in Nat
  PROVE  Linked(g)' /\ Whole(g)'
<1>1. Linked(g)' BY DEF Linked
<1> QED BY <1>1 DEF Whole, NetWhole, ChanWhole, Read, Joined, Successive

LEMMA LeaderStepsWhole ==
  ASSUME WholeInv, [Next]_vars, NEW g \in Followers,
         \/ \E r \in Requests, batch \in BOOLEAN : LeaderWrite(r, batch)
         \/ RemoveArchive \/ RenameLog \/ CreateLog \/ LeaderHalts
  PROVE  Linked(g)' /\ Whole(g)'
<1>1. lpc' # "down" /\ UNCHANGED <<streamVars, fpc, applied, published>>
  BY DEF LeaderWrite, RemoveArchive, RenameLog, CreateLog, LeaderHalts, followerVars
<1> QED BY <1>1, Untouched DEF streamVars

LEMMA LeaderDownWhole ==
  ASSUME WholeInv, NEW g \in Followers, LeaderDies \/ LeaderStart
  PROVE  Linked(g)' /\ Whole(g)'
<1>1. /\ ReplicaId[g] \in ReplicaIds /\ <<g, "live">> # NoSub
      /\ Linked(g) /\ TypeInv
  BY ReplicationAssumption DEF WholeInv
<1>2. applied'[g] \in Nat BY <1>1, StreamParts DEF LeaderDies, LeaderStart, followerVars
<1>3. CASE LeaderDies
  <2>1. /\ ~Open(g)' /\ phase'[g] = "none" /\ fpc'[g] # "streaming" /\ net'[g] = << >>
        /\ chan'[g] = << >> /\ sent'[g] = 0 /\ handle'[g] = 0
    BY <1>1, <1>3 DEF LeaderDies, Open
  <2> QED BY <1>2, <2>1, NoStream
<1>4. CASE LeaderStart
  <2>1. /\ ~Open(g) /\ phase[g] = "none" /\ fpc[g] # "streaming" /\ net[g] = << >>
        /\ chan[g] = << >> /\ sent[g] = 0 /\ handle[g] = 0
    BY <1>1, <1>4 DEF LeaderStart, Linked
  <2>2. UNCHANGED <<streamVars, fpc, subs>> BY <1>4 DEF LeaderStart, followerVars
  <2>3. ~Open(g)' BY <2>1, <2>2 DEF Open
  <2> QED BY <1>2, <2>1, <2>2, <2>3, NoStream DEF streamVars
<1> QED BY <1>3, <1>4

(* A commit reaches every open channel, or closes it. *)
LEMMA OnCommitWhole ==
  ASSUME WholeInv, [Next]_vars, NEW g \in Followers, OnCommit
  PROVE  Linked(g)' /\ Whole(g)'
<1>1. /\ ReplicaId[g] \in ReplicaIds /\ <<g, "live">> # NoSub
      /\ Linked(g) /\ Whole(g) /\ TypeInv /\ Committed
  BY ReplicationAssumption DEF WholeInv
<1>2. /\ UNCHANGED <<phase, from, handle, sent, net, fpc, applied>> /\ lpc' = "idle"
      /\ published' = published + 1 /\ published' = Len(log) /\ Broadcast(published + 1)
  BY <1>1 DEF OnCommit, Committed, followerVars
<1>3. Open(g)' => Open(g)
  BY <1>1, OpenSteps, <1>2 DEF Connect, Linked, TypeInv, StreamTypes
<1>4. chan[g] \in Seq(Nat) /\ published \in Nat BY <1>1, StreamParts
<1>5. CASE Open(g)'
  <2>1. chan'[g] = Append(chan[g], published + 1)
    BY <1>1, <1>2, <1>3, <1>5 DEF Broadcast, Registered, Open
  <2>2. chan[g] # << >> => published + 1 = chan[g][Len(chan[g])] + 1
    BY <1>1, <1>3, <1>5 DEF Whole, ChanWhole
  <2>3. /\ Successive(chan'[g]) /\ chan'[g] # << >>
        /\ chan'[g][1] = IF chan[g] = << >> THEN published + 1 ELSE chan[g][1]
        /\ chan'[g][Len(chan'[g])] = published + 1
    BY <1>1, <1>4, <2>1, <2>2, AppendSuccessive DEF Whole, ChanWhole
  <2>4. phase[g] # "none" BY <1>1, <1>3, <1>5 DEF Linked
  <2>5. Linked(g)' BY <1>1, <1>2, <1>3, <2>4 DEF Linked
  <2>6. ChanWhole(g)' BY <1>2, <2>3 DEF ChanWhole
  <2>7. Joined(g)'
    BY <1>1, <1>2, <1>3, <1>4, <1>5, <2>3, StreamParts DEF Joined, Whole
  <2> QED BY <1>1, <1>2, <2>5, <2>6, <2>7 DEF Whole, NetWhole, Read
<1>6. CASE ~Open(g)'
  <2>1. chan'[g] = chan[g]
    BY SMTT(30), ZenonT(20), <1>1, <1>2, <1>6 DEF Broadcast, Registered, Open, TypeInv, StreamTypes, SubTypes
  <2>2. Linked(g)' BY <1>1, <1>2, <1>6, <2>1 DEF Linked
  <2> QED BY <1>1, <1>2, <1>6, <2>1, <2>2 DEF Whole, NetWhole, ChanWhole, Read, Joined
<1> QED BY <1>5, <1>6

(* The steps of a follower and its stream: what they do to that follower. *)
LEMMA ConnectWhole ==
  ASSUME WholeInv, NEW f \in Followers, Connect(f)
  PROVE  Linked(f)' /\ Whole(f)'
<1>1. Linked(f) /\ Whole(f) /\ TypeInv BY DEF WholeInv
<1>2. /\ fpc'[f] = "streaming" /\ phase[f] = "none" /\ phase'[f] = "archive" /\ from'[f] = applied[f] + 1
      /\ UNCHANGED <<handle, sent, chan, net, applied>> /\ lpc' # "down"
  BY <1>1 DEF Connect, Linked, TypeInv, StreamTypes, FollowerTypes, leaderVars
<1>3. applied[f] \in Nat BY <1>1, StreamParts
<1>4. net[f] = << >> /\ chan[f] = << >> /\ sent[f] = 0 /\ handle[f] = 0 BY <1>1, <1>2 DEF Linked
<1>5. Linked(f)' BY <1>2, <1>3, <1>4 DEF Linked
<1> QED BY <1>2, <1>3, <1>4, <1>5 DEF Whole, NetWhole, ChanWhole, Read, Joined, Successive

LEMMA OpenFileWhole ==
  ASSUME WholeInv, NEW f \in Followers, OpenFile(f)
  PROVE  Linked(f)' /\ Whole(f)'
<1>1. Linked(f) /\ Whole(f) /\ TypeInv /\ OneFile BY DEF WholeInv
<1>2. /\ UNCHANGED <<lpc, fpc, from, sent, chan, net, applied, published, subs>>
      /\ \/ phase[f] = "archive" /\ phase'[f] = "active" /\ handle' = handle
         \/ phase[f] = "active" /\ phase' = phase
  BY <1>1 DEF OpenFile, OneFile, AfterFile, TypeInv, StreamTypes, leaderVars, followerVars
<1>3. handle[f] = 0 BY DEF OpenFile
<1>4. Open(f)' => Open(f) BY <1>2 DEF Open
<1>5. Linked(f)' BY <1>1, <1>2, <1>3, <1>4 DEF Linked
<1> QED BY <1>1, <1>2, <1>4, <1>5 DEF Whole, NetWhole, ChanWhole, Read, Joined

LEMMA EndOfFileWhole ==
  ASSUME WholeInv, NEW f \in Followers, EndOfFile(f)
  PROVE  Linked(f)' /\ Whole(f)'
<1>1. Linked(f) /\ Whole(f) /\ TypeInv /\ OneFile BY DEF WholeInv
<1>2. /\ UNCHANGED <<lpc, fpc, from, sent, chan, net, applied, published, subs>>
      /\ phase[f] \in {"archive", "active"} /\ phase'[f] \in {"active", "handoff"} /\ handle'[f] = 0
  BY <1>1 DEF EndOfFile, AfterFile, TypeInv, StreamTypes, leaderVars, followerVars
<1>3. Open(f)' => Open(f) BY <1>2 DEF Open
<1>4. Linked(f)' BY <1>1, <1>2, <1>3 DEF Linked
<1>5. from[f] > Len(log) \/ sent[f] >= Len(log)
  <2>1. handle[f] = 1 /\ gens[1] = 0 /\ Len(gens) = 1
    BY <1>1 DEF EndOfFile, OneFile, TypeInv, StreamTypes
  <2>2. \A n \in 1..Len(log) : ~(n >= from[f] /\ n > sent[f])
    BY <1>1, <2>1 DEF EndOfFile, Unsent, LastOf, OneFile
  <2> HIDE DEF EndOfFile
  <2>3. Len(log) \in Nat /\ from[f] \in Nat /\ sent[f] \in Nat BY <1>1, StreamParts
  <2> QED BY <2>2, <2>3
<1>6. Joined(f)'
  <2>1. sent[f] = 0 \/ sent[f] >= from[f] BY <1>1, <1>2 DEF Whole, Read
  <2> QED BY <1>1, <1>2, <1>5, <2>1, StreamParts DEF Joined
<1> QED BY <1>1, <1>2, <1>3, <1>4, <1>6 DEF Whole, NetWhole, ChanWhole, Read

(* A record sent is the next in line. *)
LEMMA SendWhole ==
  ASSUME WholeInv, NEW f \in Followers, NEW lsn \in 1..Len(log), Send(f, lsn),
         from[f] <= applied[f] + 1, UNCHANGED applied,
         lsn = sent[f] + 1 \/ (sent[f] = 0 /\ lsn <= from[f])
  PROVE  NetWhole(f)' /\ sent'[f] = lsn /\ net'[f] # << >>
<1>1. Whole(f) /\ TypeInv BY DEF WholeInv
<1>2. net'[f] = Append(net[f], lsn) /\ sent'[f] = lsn
  BY <1>1 DEF Send, TypeInv, StreamTypes
<1>3. net[f] # << >> => lsn = net[f][Len(net[f])] + 1
  BY <1>1, StreamParts DEF Whole, NetWhole
<1>4. net[f] \in Seq(Nat) /\ lsn \in Nat /\ Successive(net[f]) BY <1>1, StreamParts DEF Whole, NetWhole
<1>5. /\ Successive(net'[f]) /\ net'[f] # << >>
      /\ net'[f][1] = IF net[f] = << >> THEN lsn ELSE net[f][1]
      /\ net'[f][Len(net'[f])] = lsn
  BY <1>2, <1>3, <1>4, AppendSuccessive
<1>6. net'[f][1] <= applied[f] + 1
  BY <1>1, <1>5, StreamParts DEF Whole, NetWhole
<1> QED BY <1>2, <1>5, <1>6 DEF NetWhole

LEMMA SendFromFileWhole ==
  ASSUME WholeInv, NEW f \in Followers, SendFromFile(f)
  PROVE  Linked(f)' /\ Whole(f)'
<1>1. Linked(f) /\ Whole(f) /\ TypeInv /\ OneFile BY DEF WholeInv
<1>2. /\ UNCHANGED <<lpc, fpc, from, phase, handle, chan, applied, published, subs>>
      /\ phase[f] \in {"archive", "active"}
  BY DEF SendFromFile, leaderVars, followerVars
<1>3. handle[f] = 1 /\ gens[1] = 0 /\ Len(gens) = 1
  BY <1>1 DEF SendFromFile, OneFile, TypeInv, StreamTypes
<1>4. PICK n \in Unsent(f) : (\A m \in Unsent(f) : n <= m) /\ Send(f, n) BY DEF SendFromFile
<1>5. Unsent(f) = {n_1 \in 1..Len(log) : n_1 >= from[f] /\ n_1 > sent[f]}
  BY <1>1, <1>3 DEF Unsent, LastOf, OneFile
<1>6. from[f] \in 1..(applied[f] + 1) BY <1>1, <1>2 DEF Linked
<1>7. n = sent[f] + 1 \/ (sent[f] = 0 /\ n = from[f])
  <2>1. CASE sent[f] = 0
    <3>1. from[f] <= Len(log) BY <1>1, <1>4, <1>5, StreamParts
    <3>2. from[f] \in Unsent(f) BY <1>1, <1>5, <1>6, <2>1, <3>1, StreamParts
    <3> QED BY <1>1, <1>4, <1>5, <2>1, <3>2, StreamParts
  <2>2. CASE sent[f] >= from[f]
    <3>1. sent[f] + 1 \in Unsent(f) BY <1>1, <1>4, <1>5, <1>6, <2>2, StreamParts
    <3> QED BY <1>1, <1>4, <1>5, <3>1, StreamParts
  <2> QED BY <1>1, <1>2, <2>1, <2>2 DEF Whole, Read
<1>8. /\ n \in 1..Len(log) /\ n >= from[f] BY <1>4, <1>5
<1>9. NetWhole(f)' /\ sent'[f] = n
  BY <1>1, <1>2, <1>4, <1>6, <1>7, <1>8, SendWhole, StreamParts
<1>10. Open(f)' => Open(f) BY <1>2 DEF Open
<1>11. Linked(f)' BY <1>1, <1>2, <1>10 DEF Linked
<1> QED BY <1>1, <1>2, <1>8, <1>9, <1>10, <1>11 DEF Whole, ChanWhole, Read, Joined

LEMMA GoLiveWhole ==
  ASSUME WholeInv, NEW f \in Followers, GoLive(f)
  PROVE  Linked(f)' /\ Whole(f)'
<1>1. Linked(f) /\ Whole(f) /\ TypeInv BY DEF WholeInv
<1>2. /\ UNCHANGED <<lpc, fpc, from, handle, sent, chan, net, applied, published, subs>>
      /\ phase[f] = "handoff" /\ phase'[f] = "live"
  BY <1>1 DEF GoLive, TypeInv, StreamTypes, leaderVars, followerVars
<1>3. Open(f)' => Open(f) BY <1>2 DEF Open
<1>4. Linked(f)' BY <1>1, <1>2, <1>3 DEF Linked
<1> QED BY <1>1, <1>2, <1>3, <1>4 DEF Whole, NetWhole, ChanWhole, Read, Joined

LEMMA SendLiveWhole ==
  ASSUME WholeInv, NEW f \in Followers, SendLive(f)
  PROVE  Linked(f)' /\ Whole(f)'
<1>1. Linked(f) /\ Whole(f) /\ TypeInv BY DEF WholeInv
<1>2. /\ UNCHANGED <<lpc, fpc, from, phase, handle, applied, published, subs>>
      /\ phase[f] = "live" /\ chan[f] # << >> /\ chan'[f] = Tail(chan[f])
  BY <1>1 DEF SendLive, TypeInv, StreamTypes, leaderVars, followerVars
<1>3. Open(f)' <=> Open(f) BY <1>2 DEF Open
<1>4. /\ Successive(chan'[f]) /\ Head(chan[f]) = chan[f][1] /\ chan[f][1] \in Nat
      /\ chan'[f] # << >> => chan'[f][1] = chan[f][1] + 1 /\ chan'[f][Len(chan'[f])] = chan[f][Len(chan[f])]
      /\ chan'[f] = << >> => chan[f][Len(chan[f])] = chan[f][1]
  BY <1>1, <1>2, StreamParts, TailSuccessive DEF Whole, ChanWhole
<1>5. chan[f][1] <= sent[f] + 1 \/ (sent[f] = 0 /\ chan[f][1] <= from[f])
  BY <1>1, <1>2 DEF Whole, Joined
<1>6. from[f] \in 1..(applied[f] + 1) BY <1>1, <1>2 DEF Linked
<1>7. NetWhole(f)' /\ sent'[f] >= chan[f][1]
  <2>1. CASE chan[f][1] > sent[f]
    <3>1. Send(f, chan[f][1]) BY <1>4, <2>1 DEF SendLive
    <3>2. chan[f][1] \in 1..Len(log) BY <1>1, <1>2, <1>4, <2>1, StreamParts
    <3>3. chan[f][1] = sent[f] + 1 \/ (sent[f] = 0 /\ chan[f][1] <= from[f])
      BY <1>1, <1>4, <1>5, <2>1, StreamParts
    <3>4. from[f] <= applied[f] + 1 BY <1>6
    <3>5. NetWhole(f)' /\ sent'[f] = chan[f][1] BY <1>2, <3>1, <3>2, <3>3, <3>4, SendWhole
    <3> QED BY <1>4, <3>5
  <2>2. CASE ~(chan[f][1] > sent[f])
    <3>1. UNCHANGED <<net, sent>> BY <1>4, <2>2 DEF SendLive
    <3> QED BY <1>1, <1>2, <1>4, <2>2, <3>1, StreamParts, SMTT(15), ZenonT(20) DEF Whole, NetWhole
  <2> QED BY <2>1, <2>2
<1>8. Linked(f)' BY <1>1, <1>2, <1>3 DEF Linked
<1>9. ChanWhole(f)' BY <1>1, <1>2, <1>3, <1>4 DEF Whole, ChanWhole
<1>10. sent'[f] \in Nat BY <1>1, <1>4, StreamParts, <1>7 DEF SendLive, Send, TypeInv, StreamTypes
<1>11. Joined(f)'
  <2>1. chan'[f] # << >> => chan'[f][1] <= sent'[f] + 1 BY <1>4, <1>7, <1>10
  <2>2. chan'[f] = << >> /\ Open(f)' => sent'[f] >= published'
    BY <1>1, <1>2, <1>3, <1>4, <1>7 DEF Whole, ChanWhole
  <2> QED BY <2>1, <2>2 DEF Joined
<1> QED BY <1>2, <1>7, <1>8, <1>9, <1>11 DEF Whole, Read

LEMMA EndStreamWhole ==
  ASSUME WholeInv, NEW f \in Followers, EndStream(f)
  PROVE  Linked(f)' /\ Whole(f)'
<1>1. Linked(f) /\ Whole(f) /\ TypeInv BY DEF WholeInv
<1>2. /\ UNCHANGED <<lpc, fpc, from, handle, sent, chan, net, applied, published>>
      /\ phase[f] = "live" /\ phase'[f] = "ended" /\ ~Open(f)
  BY <1>1 DEF EndStream, TypeInv, StreamTypes, leaderVars, followerVars
<1>3. ~Open(f)'
  <2>1. ReplicaId[f] \in ReplicaIds /\ <<f, "live">> # NoSub BY ReplicationAssumption
  <2> QED BY <1>1, <1>2, <2>1 DEF EndStream, Unsubscribe, Open, TypeInv, SubTypes
<1>4. Linked(f)' BY <1>1, <1>2, <1>3 DEF Linked
<1> QED BY <1>1, <1>2, <1>3, <1>4 DEF Whole, NetWhole, ChanWhole, Read, Joined

LEMMA TakeWhole ==
  ASSUME WholeInv, NEW f \in Followers, Receive(f) \/ Ignore(f)
  PROVE  Linked(f)' /\ Whole(f)'
<1>1. Linked(f) /\ Whole(f) /\ TypeInv BY DEF WholeInv
<1>2. /\ UNCHANGED <<lpc, fpc, from, phase, handle, sent, chan, published, subs>>
      /\ net[f] # << >> /\ net'[f] = Tail(net[f])
      /\ \/ Head(net[f]) = applied[f] + 1 /\ applied'[f] = Head(net[f])
         \/ Head(net[f]) <= applied[f] /\ applied'[f] = applied[f]
  BY <1>1 DEF Receive, Ignore, Receives, Incoming, TypeInv, StreamTypes, FollowerTypes, leaderVars, followerVars
<1>3. Open(f)' <=> Open(f) BY <1>2 DEF Open
<1>4. /\ Successive(net'[f]) /\ Head(net[f]) = net[f][1] /\ net[f][1] \in Nat
      /\ net'[f] # << >> => net'[f][1] = net[f][1] + 1 /\ net'[f][Len(net'[f])] = net[f][Len(net[f])]
      /\ net'[f] = << >> => net[f][Len(net[f])] = net[f][1]
  BY <1>1, <1>2, StreamParts, TailSuccessive DEF Whole, NetWhole
<1>5. applied[f] \in Nat /\ sent[f] \in Nat /\ applied'[f] \in Nat /\ applied'[f] >= applied[f] /\ net[f][1] <= applied'[f]
  <2>1. applied[f] \in Nat /\ sent[f] \in Nat BY <1>1, StreamParts
  <2> QED BY <1>2, <1>4, <2>1
<1>6. Linked(f)' BY <1>1, <1>2, <1>3, <1>5 DEF Linked
<1>7. NetWhole(f)' BY <1>1, <1>2, <1>4, <1>5, SMTT(15), ZenonT(20) DEF Whole, NetWhole
<1> QED BY <1>1, <1>2, <1>3, <1>6, <1>7 DEF Whole, ChanWhole, Read, Joined

(* What gives a stream up, and what happens without one. *)
LEMMA GiveUpWhole ==
  ASSUME WholeInv, NEW f \in Followers,
         RejectGap(f) \/ StreamEnds(f) \/ ConnectionBreaks(f) \/ FollowerCrash(f)
  PROVE  /\ Linked(f)' /\ Whole(f)' /\ lpc' = lpc /\ published' = published
         /\ \A g \in Followers \ {f} :
              UNCHANGED <<fpc[g], phase[g], net[g], chan[g], sent[g], handle[g], from[g], applied[g]>>
<1>1. TypeInv BY DEF WholeInv
<1>2. PICK next \in {"waiting", "down"} : Abandon(f, next)
  BY DEF RejectGap, StreamEnds, ConnectionBreaks, FollowerCrash
<1>3. /\ lpc' = lpc /\ published' = published /\ applied'[f] \in Nat
      /\ \A g \in Followers \ {f} : applied'[g] = applied[g]
  BY <1>1, StreamParts DEF RejectGap, StreamEnds, ConnectionBreaks, FollowerCrash, leaderVars,
                            TypeInv, FollowerTypes
<1>4. /\ ~Open(f)' /\ fpc'[f] = next /\ phase'[f] = "none" /\ net'[f] = << >>
      /\ chan'[f] = << >> /\ sent'[f] = 0 /\ handle'[f] = 0
      /\ \A g \in Followers \ {f} :
           UNCHANGED <<fpc[g], phase[g], net[g], chan[g], sent[g], handle[g], from[g]>>
  BY <1>1, <1>2, AbandonCloses
<1>5. Linked(f)' /\ Whole(f)' BY <1>3, <1>4, NoStream
<1> QED BY <1>3, <1>4, <1>5

LEMMA FollowerStartWhole ==
  ASSUME WholeInv, NEW f \in Followers, FollowerStart(f)
  PROVE  Linked(f)' /\ Whole(f)'
<1>1. Linked(f) /\ TypeInv BY DEF WholeInv
<1>2. /\ UNCHANGED <<streamVars, subs>> /\ fpc[f] = "down" /\ fpc'[f] = "waiting" /\ applied'[f] = flsn[f]
  BY <1>1 DEF FollowerStart, TypeInv, FollowerTypes
<1>3. applied'[f] \in Nat BY <1>1, <1>2 DEF TypeInv, FollowerTypes, LeaderTypes
<1>4. phase[f] = "none" /\ ~Open(f) /\ net[f] = << >> /\ chan[f] = << >> /\ sent[f] = 0 /\ handle[f] = 0
  BY <1>1, <1>2 DEF Linked
<1>5. ~Open(f)' BY <1>2, <1>4 DEF Open
<1> QED BY <1>2, <1>3, <1>4, <1>5, NoStream DEF streamVars

LEMMA NextWhole == ASSUME MaxGens = 1, "skip" \notin Faults, WholeInv, [Next]_vars PROVE WholeInv'
<1>1. TypeInv' BY NextType DEF WholeInv
<1>2. OneFile' /\ Committed' BY NextOneFile DEF WholeInv
<1>3. ASSUME NEW g \in Followers PROVE Linked(g)' /\ Whole(g)'
  <2>1. TypeInv BY DEF WholeInv
  <2>2. CASE UNCHANGED vars
    BY <2>2, Untouched DEF vars, leaderVars, streamVars, followerVars
  <2>3. CASE \/ \E r \in Requests, batch \in BOOLEAN : LeaderWrite(r, batch)
             \/ RemoveArchive \/ RenameLog \/ CreateLog \/ LeaderHalts
    BY <2>3, LeaderStepsWhole
  <2>4. CASE LeaderCrash \/ LeaderSkips \/ LeaderStart
    BY <2>4, LeaderDownWhole DEF LeaderCrash, LeaderSkips
  <2>5. CASE OnCommit BY <2>5, OnCommitWhole
  <2>6. ASSUME NEW f \in Followers,
               \/ Connect(f) \/ OpenFile(f) \/ SendFromFile(f) \/ EndOfFile(f) \/ GoLive(f)
               \/ SendLive(f) \/ EndStream(f) \/ Receive(f) \/ Ignore(f) \/ FollowerStart(f)
        PROVE  Linked(g)' /\ Whole(g)'
    <3>1. CASE g = f
      BY <2>6, <3>1, ConnectWhole, OpenFileWhole, SendFromFileWhole, EndOfFileWhole, GoLiveWhole,
         SendLiveWhole, EndStreamWhole, TakeWhole, FollowerStartWhole
    <3>2. CASE g # f
      <4>1. /\ UNCHANGED <<fpc[g], phase[g], net[g], chan[g], sent[g], handle[g], from[g],
                            applied[g], published>>
            /\ lpc' = lpc
        <5>1. CASE Connect(f) \/ OpenFile(f) \/ EndOfFile(f) \/ GoLive(f) \/ EndStream(f) \/ FollowerStart(f)
          BY <2>1, <3>2, <5>1 DEF Connect, OpenFile, EndOfFile, GoLive, EndStream, FollowerStart,
                                  TypeInv, StreamTypes, FollowerTypes, leaderVars, streamVars, followerVars
        <5>2. CASE SendFromFile(f) \/ SendLive(f)
          <6>1. ASSUME NEW lsn, Send(f, lsn) PROVE net'[g] = net[g] /\ sent'[g] = sent[g]
            BY <2>1, <3>2, <6>1 DEF Send, TypeInv, StreamTypes
          <6>2. net'[g] = net[g] /\ sent'[g] = sent[g]
            BY <5>2, <6>1 DEF SendFromFile, SendLive
          <6>3. UNCHANGED <<lpc, fpc, phase, handle, from, applied, published>>
            BY <5>2 DEF SendFromFile, SendLive, leaderVars, followerVars
          <6>4. chan'[g] = chan[g]
            BY <2>1, <3>2, <5>2 DEF SendFromFile, SendLive, TypeInv, StreamTypes
          <6> QED BY <6>2, <6>3, <6>4
        <5>3. CASE Receive(f) \/ Ignore(f)
          BY <2>1, <3>2, <5>3 DEF Receive, Ignore,
                                  TypeInv, StreamTypes, FollowerTypes, leaderVars, followerVars
        <5> QED BY <2>6, <5>1, <5>2, <5>3
      <4> QED BY <4>1, Untouched
    <3> QED BY <3>1, <3>2
  <2>7. ASSUME NEW f \in Followers, OldHandlerReturns(f) \/ FollowerCheckpoint(f)
        PROVE  Linked(g)' /\ Whole(g)'
    BY <2>7, Untouched DEF OldHandlerReturns, FollowerCheckpoint, leaderVars, streamVars, followerVars
  <2>8. ASSUME NEW f \in Followers,
               RejectGap(f) \/ StreamEnds(f) \/ ConnectionBreaks(f) \/ FollowerCrash(f)
        PROVE  Linked(g)' /\ Whole(g)'
    <3>1. /\ Linked(f)' /\ Whole(f)' /\ lpc' = lpc /\ published' = published
          /\ \A h \in Followers \ {f} :
               UNCHANGED <<fpc[h], phase[h], net[h], chan[h], sent[h], handle[h], from[h], applied[h]>>
      BY <2>8, GiveUpWhole
    <3> QED BY <3>1, Untouched
  <2> QED BY <2>2, <2>3, <2>4, <2>5, <2>6, <2>7, <2>8 DEF Next
<1> QED BY <1>1, <1>2, <1>3 DEF WholeInv

LEMMA SpecWhole == ASSUME MaxGens = 1, "skip" \notin Faults PROVE Spec => []WholeInv
<1>1. Init => WholeInv BY InitWhole
<1>2. WholeInv /\ [Next]_vars => WholeInv' BY NextWhole
<1> QED BY <1>1, <1>2, PTL DEF Spec

(* A leader that keeps its log in one file, and is not closed after a failed write
   of it, never makes a follower see a gap, whatever crashes, breaks or overflows:
   StreamWAL has subscribed before it reads the file, so file and channel overlap. *)
THEOREM NoGapSeen == ASSUME MaxGens = 1, "skip" \notin Faults PROVE Spec => []NoFalseGap
<1>1. WholeInv => NoFalseGap
  <2> SUFFICES ASSUME WholeInv, NEW f \in Followers, Gap(f) PROVE FALSE BY DEF NoFalseGap
  <2>1. Whole(f) /\ TypeInv BY DEF WholeInv
  <2>2. net[f] \in Seq(Nat) /\ applied[f] \in Nat BY <2>1, StreamParts
  <2>3. Head(net[f]) = net[f][1] /\ net[f][1] \in Nat
    BY <2>1, <2>2, TailSuccessive DEF Gap, Receives, Whole, NetWhole
  <2> QED BY <2>1, <2>2, <2>3 DEF Gap, Receives, Incoming, Whole, NetWhole
<1> QED BY <1>1, SpecWhole, PTL

(* Nor is a record lost between the two: who has read the file and emptied an
   open channel has applied everything the leader acknowledged. *)
THEOREM NoHole == ASSUME MaxGens = 1, "skip" \notin Faults PROVE Spec => []NoSilentHole
<1>1. WholeInv => NoSilentHole
  <2> SUFFICES ASSUME WholeInv, NEW f \in Followers, phase[f] = "live",
                      chan[f] = << >>, net[f] = << >>, Open(f)
               PROVE  applied[f] >= published
    BY DEF NoSilentHole
  <2>1. Linked(f) /\ Whole(f) /\ TypeInv BY DEF WholeInv
  <2>2. /\ sent[f] \in Nat /\ from[f] \in Nat /\ applied[f] \in Nat /\ published \in Nat
    BY <2>1, StreamParts
  <2>3. sent[f] >= published \/ (sent[f] = 0 /\ from[f] > published)
    BY <2>1 DEF Whole, Joined
  <2>4. sent[f] <= applied[f] /\ from[f] <= applied[f] + 1
    BY <2>1 DEF Whole, NetWhole, Linked
  <2> QED BY <2>2, <2>3, <2>4
<1> QED BY <1>1, SpecWhole, PTL
==============================================================================
