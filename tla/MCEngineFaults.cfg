SPECIFICATION Spec
CONSTANTS
  k1 = k1
  k2 = k2
  v1 = v1
  v2 = v2
  Keys = {k1}
  Vals = {v1}
  None = None
  Free = Free
  Requests <- MCFewRequests
  NumPages = 2
  NumSlots = 1
  MaxLSN = 2
  MaxCrashes = 2
  Faults = {"steal", "tornflush", "torn", "ioerr", "applyerr", "freeerr",
            "replayerr", "closehalted"}
\* A halted engine waits to be killed, and MaxCrashes bounds how often it is.
CHECK_DEADLOCK FALSE
INVARIANT TypeOK
INVARIANT LogOrdered
PROPERTY FreshLSN
PROPERTY CheckpointMonotone
