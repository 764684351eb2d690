SPECIFICATION Spec
CONSTANTS
  k1 = k1
  k2 = k2
  v1 = v1
  v2 = v2
  f1 = f1
  f2 = f2
  id1 = id1
  id2 = id2
  None = None
  NoSub = NoSub
  Hidden = Hidden
  Keys = {k1, k2}
  Vals = {v1}
  Followers = {f1}
  ReplicaIds = {id1}
  ReplicaId <- OwnIds
  Requests <- MCMixed
  Batched <- MCBatches
  ChanCap = 1
  NetCap = 1
  MaxLSN = 3
  MaxGens = 1
  MaxFaults = 1
  Faults = {"crash"}
\* A follower crashes after a batch it has not written to its own log.
CHECK_DEADLOCK FALSE
INVARIANT FollowerPrefix
