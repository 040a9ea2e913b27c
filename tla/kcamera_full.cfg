\* Every call and every capture-side stop: live reads, kcStop, restarts,
\* recordings, the 5 s timeout, frame malloc failure, the memory reserve.
\* The code deadlocks in this configuration (run kcamera_stop_deadlock),
\* so TLC's deadlock check is off here; the invariants are checked in
\* every reachable state.
CONSTANTS
  NULL = NULL
  p1 = p1
  p2 = p2
  c1 = c1
  c2 = c2
  Consumers <- MCConsumers
  Controllers <- MCControllers
  Captures <- MCCaptures
  Ops <- AllOps
  MaxRecords = 2
  RecordFrames = 2
  LatencyFrames = 1
  FrameTimeout = TRUE
  AllocMayFail = TRUE
  MemReserveMayExceed = TRUE
  RecordWhileRunning = FALSE
SPECIFICATION Spec
INVARIANT OneFrameProducer
CHECK_DEADLOCK FALSE
