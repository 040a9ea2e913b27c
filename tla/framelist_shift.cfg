\* Pre-roll, delayed start and setAttr moving between them: list structure and refinement of the window through trimming and activation.
CONSTANTS
  NULL = NULL
  FRONT = FRONT
  StartShifts <- AllShifts
  Durations <- MCDurations
  StartPts <- MCStartPts
  MaxPts = 6
  MaxStep = 2
  MaxAllocs = 5
  AllocMayFail = FALSE
  IntBits = 8
  PtsBits = 16
  MemFree <- PlentyMem
  MemReserve = 1
INIT Init
NEXT Next
INVARIANT ListIntact
PROPERTY RefinesWindow
\* Once the streamer is deallocated no call on the list remains.
CHECK_DEADLOCK FALSE
