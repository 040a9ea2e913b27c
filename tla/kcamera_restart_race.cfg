\* A consumer's kcStart after the capture thread stopped itself (timeout): kcStopped runs before the camera is released.
CONSTANTS
  NULL = NULL
  p1 = p1
  p2 = p2
  c1 = c1
  c2 = c2
  Consumers <- MCConsumers
  Controllers <- MCControllers
  Captures <- MCCaptures
  Ops <- NoOps
  MaxRecords = 0
  RecordFrames = 2
  LatencyFrames = 1
  FrameTimeout = TRUE
  AllocMayFail = FALSE
  MemReserveMayExceed = FALSE
  RecordWhileRunning = FALSE
SPECIFICATION Spec
INVARIANT CameraHandover
