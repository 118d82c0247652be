SPECIFICATION V1Spec
CONSTANTS
  Modulus = 16
  ReorderThreshold = 1
  InitialWindow = 2
  MinWindow = 1
  AckVectorMaxEntries = 3
  AckVectorMaxRun = 2
  SendBufferMultiple = 2
  V1VectorMaxElements = 2
  V1VectorMaxRun = 2
  AckOfAcksInterval = 2
  MaxTransmissions = 4
  Window <- SmallWindows
  InitialSeq <- NearWrap
  MaxChunks <- TwoOneWay
  MaxFaults <- LossAndEarly
INVARIANTS
  InOrderDelivery
  V1NoChunkForgotten
  V1AcksTruthful
CHECK_DEADLOCK FALSE
