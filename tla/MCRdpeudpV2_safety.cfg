SPECIFICATION SafetySpec
CONSTANTS
  Modulus = 16
  ReorderThreshold = 2
  InitialWindow = 3
  MinWindow = 1
  AckVectorMaxEntries = 3
  AckVectorMaxRun = 2
  SendBufferMultiple = 2
  Window <- UnevenWindows
  InitialSeq <- NearWrap
  MaxChunks <- ThreeAndOne
  MaxFaults <- OneOfEach
INVARIANTS
  IndInv
  TimersServeWork
  AcksTruthful
  NoChunkForgotten
  WindowContiguous
  ReceiverBounded
PROPERTIES
  ImplementsStream
CHECK_DEADLOCK FALSE
