\* kcStop's pthread_join under paramsMutex against the capture thread's own timeout stop, which needs paramsMutex.
CONSTANTS
  NULL = NULL
  p1 = p1
  p2 = p2
  c1 = c1
  c2 = c2
  Consumers <- MCConsumers
  Controllers <- MCControllers
  Captures <- MCCaptures
  Ops <- StopOnly
  MaxRecords = 0
  RecordFrames = 2
  LatencyFrames = 1
  FrameTimeout = TRUE
  AllocMayFail = FALSE
  MemReserveMayExceed = FALSE
  RecordWhileRunning = FALSE
SPECIFICATION Spec
INVARIANT NoWaitCycle
