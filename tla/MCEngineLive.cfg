SPECIFICATION FairSpec
\* An insert that finds no page below NumPages fails, as on a full disk.
CONSTANTS
  k1 = k1
  k2 = k2
  v1 = v1
  v2 = v2
  Keys = {k1}
  Vals = {v1}
  None = None
  Free = Free
  Requests <- MCFewRequests
  NumPages = 6
  NumSlots = 1
  MaxLSN = 2
  MaxCrashes = 2
  Faults = {"ioerr", "applyerr", "replayerr", "closehalted"}
CHECK_DEADLOCK FALSE
PROPERTY LockReleased
