SPECIFICATION Spec
CONSTANTS
  OnceNames <- Gfx
  FactoryNames <- NoNames
  OtherNames <- NoNames
  MaxChannels = 1
  MaxData = 1
  MaxClientClosed = 4
  Registered <- OneRegistered
  MaxEarly = 2
  TunneledCloses <- TheServer
INVARIANT NoSessionFailure
CHECK_DEADLOCK FALSE
