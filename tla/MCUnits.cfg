SPECIFICATION Spec
INVARIANTS
  MessagesIntact
  LimitsKept
  ChannelSetConsistent
  ClosestMatch
  LocksBalanced
  AnsweredOnce
  FramesAnswered
  ClientFollows
PROPERTIES
  NothingStale
CHECK_DEADLOCK FALSE
