SPECIFICATION Spec
CONSTANTS
  k1 = k1
  k2 = k2
  v1 = v1
  v2 = v2
  Keys = {k1, k2}
  Vals = {v1, v2}
  None = None
  Free = Free
  Requests <- MCRequests
  NumPages = 4
  NumSlots = 2
  MaxLSN = 3
  MaxCrashes = 2
  Faults = {"ioerr", "applyerr"}
INVARIANT Visible
INVARIANT SpaceExact
PROPERTY ImplementsKVStore
\* A halted engine waits to be killed, and MaxCrashes bounds how often it is.
CHECK_DEADLOCK FALSE
