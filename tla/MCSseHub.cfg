SPECIFICATION LiveSpec
CONSTANTS
  Clients = {c1, c2}
  Watermarks <- MCWatermarks
  NumShards = 2
INVARIANTS
  NothingForgotten
  WaitingEnds
PROPERTIES
  FeedSpec
CHECK_DEADLOCK FALSE
