SPECIFICATION Spec
\* A torn record stays in the log, and records written after it are not read.
CONSTANTS
  k1 = k1
  k2 = k2
  v1 = v1
  v2 = v2
  Keys = {k1}
  Vals = {v1}
  None = None
  Free = Free
  Requests <- MCFewRequests
  NumPages = 2
  NumSlots = 1
  MaxLSN = 3
  MaxCrashes = 2
  Faults = {"torn"}
CHECK_DEADLOCK FALSE
INVARIANT Visible
