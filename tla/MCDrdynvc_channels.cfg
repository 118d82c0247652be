SPECIFICATION FairSpec
CONSTANTS
  OnceNames <- Gfx
  FactoryNames <- Input
  OtherNames <- Absent
  MaxChannels = 2
  MaxData = 2
  MaxClientClosed = 4
  Registered <- OneRegistered
  MaxEarly = 2
  TunneledCloses <- NoOne
INVARIANTS
  ViewsAgree
  OnceProcessorKept
  InOrderDelivery
  NoSessionFailure
PROPERTIES
  CreationSettles
  SoftSyncCompletes
CHECK_DEADLOCK FALSE
