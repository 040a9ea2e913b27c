\* One thread encodes while another changes the resolution.
CONSTANTS
  e1 = e1
  e2 = e2
  Threads <- MCThreads
  Calls <- ResizeWhileEncoding
  NumOutput = 2
  NumCapture = 2
  Bitrates <- MCBitrates
  InitMayFail = FALSE
  MaxFrames = 3
  MaxGens = 2
SPECIFICATION Spec
INVARIANT NoFreedEncoderUse
\* The behaviour ends once the bound on encoder instances is used up and the last one is dropped.
CHECK_DEADLOCK FALSE
