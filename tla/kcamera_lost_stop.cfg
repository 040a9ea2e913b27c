\* kcStop racing a freshly created capture thread: kcStopCameraLoop's run = false can land before the thread's run = true.
CONSTANTS
  NULL = NULL
  p1 = p1
  p2 = p2
  c1 = c1
  c2 = c2
  Consumers <- MCConsumers
  Controllers <- MCControllers
  Captures <- MCCaptures
  Ops <- StopOnly
  MaxRecords = 0
  RecordFrames = 2
  LatencyFrames = 1
  FrameTimeout = FALSE
  AllocMayFail = FALSE
  MemReserveMayExceed = FALSE
  RecordWhileRunning = FALSE
SPECIFICATION Spec
PROPERTY StopJoinReturns
