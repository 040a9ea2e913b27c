\* One kcStartCameraLoop: set-up failure or start, frames, control updates
\* from Python and a kcStopCameraLoop at any point.
CONSTANTS
  NumBufs <- MCNumBufs
  MaxCtl <- MCMaxCtl
SPECIFICATION Spec
INVARIANT BuffersCirculate
PROPERTY LoopExits
PROPERTY ControlsReachCamera
INVARIANT CameraLifecycle
