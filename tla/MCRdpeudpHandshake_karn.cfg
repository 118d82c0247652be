SPECIFICATION Spec
CONSTANTS
  OfferVersions = {1, 2, 3}
  RetransmitLimit = 1
  Mtu <- UnequalMtus
  MaxOutbox = 1
  MaxLosses = 0
INVARIANT
  SamplesUnambiguous
CHECK_DEADLOCK FALSE
