\* Recording without start shift, node malloc may fail: list structure, refinement of the window, the reader's cursor.
CONSTANTS
  NULL = NULL
  FRONT = FRONT
  StartShifts <- NoShift
  Durations <- MCDurations
  StartPts <- EarlyPts
  MaxPts = 6
  MaxStep = 2
  MaxAllocs = 4
  AllocMayFail = TRUE
  IntBits = 8
  PtsBits = 16
  MemFree <- MCMemFree
  MemReserve = 1
INIT Init
NEXT Next
INVARIANT ListIntact
PROPERTY RefinesWindow
INVARIANT CursorConsistent
\* Once the streamer is deallocated no call on the list remains.
CHECK_DEADLOCK FALSE
