\* One Share Data PDU and one resize in a plain session.
SPECIFICATION Spec
CONSTANTS
  ClientChannels <- Channels
  ServerChannels = {"rdpsnd"}
  Configs <- PlainOnly
  Traffic = {"ShareData"}
  MaxTraffic = 1
  MaxResizes = 1
INVARIANT OnlyJustifiedFailures
CHECK_DEADLOCK FALSE
