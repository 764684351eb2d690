SPECIFICATION FairSpec
CONSTANTS
  k1 = k1
  k2 = k2
  v1 = v1
  v2 = v2
  f1 = f1
  f2 = f2
  id1 = id1
  id2 = id2
  None = None
  NoSub = NoSub
  Hidden = Hidden
  Keys = {k1, k2}
  Vals = {v1}
  Followers = {f1, f2}
  ReplicaIds = {id1}
  ReplicaId <- SharedIds
  Requests <- MCBatches
  Batched <- MCBatches
  ChanCap = 1
  NetCap = 1
  MaxLSN = 2
  MaxGens = 1
  MaxFaults = 2
  Faults = {"break", "leader", "halt"}
\* Once MaxLSN records are written and delivered nothing is left to do.
CHECK_DEADLOCK FALSE
INVARIANT NoFalseGap
INVARIANT NoSilentHole
PROPERTY Converges
