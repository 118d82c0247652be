SPECIFICATION FairSpec
CONSTANTS
  OfferVersions = {1, 2, 3}
  RetransmitLimit = 1
  Mtu <- UnequalMtus
  MaxOutbox = 1
  MaxLosses = 1
INVARIANTS
  ClientConnectsFirst
  SidesAgree
  WaitingIsTimed
  ClientSampleUnambiguous
PROPERTIES
  ClosedIsFinal
  BothEstablish
  HandshakeEnds
  HalfOpenEnds
CHECK_DEADLOCK FALSE
