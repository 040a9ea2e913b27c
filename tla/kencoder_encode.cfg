\* One encoding thread that also restarts and drops the encoder, a second thread changing the bitrate.
CONSTANTS
  e1 = e1
  e2 = e2
  Threads <- MCThreads
  Calls <- EncoderOwner
  NumOutput = 2
  NumCapture = 2
  Bitrates <- MCBitrates
  InitMayFail = FALSE
  MaxFrames = 3
  MaxGens = 2
SPECIFICATION Spec
PROPERTY EncodeReturns
\* The behaviour ends once the bound on encoder instances is used up and the last one is dropped.
CHECK_DEADLOCK FALSE
