SPECIFICATION Spec
\* A process that dies between two page writes of FlushAll: the meta page is written
\* first, and the records it claims to cover are skipped at the next start.
CONSTANTS
  k1 = k1
  k2 = k2
  v1 = v1
  v2 = v2
  Keys = {k1}
  Vals = {v1}
  None = None
  Free = Free
  Requests <- MCFewRequests
  NumPages = 2
  NumSlots = 1
  MaxLSN = 3
  MaxCrashes = 2
  Faults = {"tornflush"}
CHECK_DEADLOCK FALSE
INVARIANT Visible
