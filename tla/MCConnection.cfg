\* Every configuration of the two ends; two resizes under two PDUs of channel data or input.
SPECIFICATION Spec
CONSTANTS
  ClientChannels <- Channels
  ServerChannels = {"rdpsnd"}
  Configs <- AllConfigs
  Traffic = {"Static", "FastPath"}
  MaxTraffic = 2
  MaxResizes = 2
INVARIANTS
  EndsAgree
  OnlyJustifiedFailures
  RequestAnswered
  ChannelDataKept
PROPERTY AttemptSettles
CHECK_DEADLOCK FALSE
