\* Delayed start on a clock past the int range of m_t0 (int scaled to 3 bits).
CONSTANTS
  NULL = NULL
  FRONT = FRONT
  StartShifts <- PosShift
  Durations <- NoDuration
  StartPts <- LatePts
  MaxPts = 7
  MaxStep = 2
  MaxAllocs = 4
  AllocMayFail = FALSE
  IntBits = 3
  PtsBits = 6
  MemFree <- PlentyMem
  MemReserve = 1
INIT Init
NEXT Next
PROPERTY ActivationAfterShift
\* Once the streamer is deallocated no call on the list remains.
CHECK_DEADLOCK FALSE
