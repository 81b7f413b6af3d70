SPECIFICATION RelayFairSpec
CONSTANTS
  CHAN_CAP = 2
  BODY_CAP = 4
  MAX_EVENTS = 4
INVARIANTS DoneOnceAndLast ShortStreamsComplete
PROPERTY HandlerReturns
CHECK_DEADLOCK FALSE
