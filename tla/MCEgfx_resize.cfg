\* A client that may suspend its acknowledgements, and a server that may resize.
SPECIFICATION Spec
CONSTANTS
  Stored <- NothingStored
  ConfiguredMax = 3
  ClientMax = 2
  FrameSpace = 8
  FirstFrame = 6
  Suspending = TRUE
  MaxCreates = 2
  MaxFrames = 2
  MaxResizes = 1
  MaxResets = 0
  MaxOpens = 0
INVARIANT FramesAnswered
CHECK_DEADLOCK FALSE
