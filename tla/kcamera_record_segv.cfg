\* A recording reader (streamer_frame) against the capture thread's kcStopRecord when the memory reserve is exceeded.
CONSTANTS
  NULL = NULL
  p1 = p1
  p2 = p2
  c1 = c1
  c2 = c2
  Consumers <- MCConsumers
  Controllers <- MCControllers
  Captures <- MCCaptures
  Ops <- RecordOps
  MaxRecords = 1
  RecordFrames = 2
  LatencyFrames = 1
  FrameTimeout = FALSE
  AllocMayFail = FALSE
  MemReserveMayExceed = TRUE
  RecordWhileRunning = FALSE
SPECIFICATION Spec
INVARIANT NoNullDereference
