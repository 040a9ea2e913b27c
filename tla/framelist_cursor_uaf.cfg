\* Delayed start: the reader's cursor after the keep-one-frame free.
CONSTANTS
  NULL = NULL
  FRONT = FRONT
  StartShifts <- PosShift
  Durations <- NoDuration
  StartPts <- EarlyPts
  MaxPts = 7
  MaxStep = 2
  MaxAllocs = 4
  AllocMayFail = FALSE
  IntBits = 8
  PtsBits = 16
  MemFree <- PlentyMem
  MemReserve = 1
INIT Init
NEXT Next
INVARIANT CursorValid
\* Once the streamer is deallocated no call on the list remains.
CHECK_DEADLOCK FALSE
