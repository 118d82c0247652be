SPECIFICATION FairSpec
CONSTANTS
  Modulus = 16
  ReorderThreshold = 1
  InitialWindow = 2
  MinWindow = 1
  AckVectorMaxEntries = 3
  AckVectorMaxRun = 2
  SendBufferMultiple = 2
  Window <- SmallWindows
  InitialSeq <- NearWrap
  MaxChunks <- TwoOneWay
  MaxFaults <- OneLoss
PROPERTIES
  EverythingDelivered
  EverythingResolved
CHECK_DEADLOCK FALSE
