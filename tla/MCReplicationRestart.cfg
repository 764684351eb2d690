SPECIFICATION Spec
CONSTANTS
  k1 = k1
  k2 = k2
  v1 = v1
  v2 = v2
  f1 = f1
  f2 = f2
  id1 = id1
  id2 = id2
  None = None
  NoSub = NoSub
  Hidden = Hidden
  Keys = {k1}
  Vals = {v1}
  Followers = {f1}
  ReplicaIds = {id1}
  ReplicaId <- OwnIds
  Requests <- MCSingles
  Batched = {}
  ChanCap = 1
  NetCap = 2
  MaxLSN = 3
  MaxGens = 3
  MaxFaults = 1
  Faults = {"break", "crash", "leader", "halt", "skip"}
\* A follower that needs records no file holds reconnects for ever, a leader
\* that is halted waits to be killed.
CHECK_DEADLOCK FALSE
INVARIANT TypeOK
INVARIANT NumberingAligned
INVARIANT StreamOrdered
PROPERTY ImplementsReplicatedStore
