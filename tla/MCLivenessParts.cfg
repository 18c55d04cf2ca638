SPECIFICATION MCSpec
CONSTANTS
  MaxRevision = 2
  MaxEventId = 3
  PageLimit = 2
  Reads = {r1, r2, r3}
  Transactional = {r1, r2}
  Connections = {c1, c2}
  NoConnection = NoConnection
  Concurrency = 2
  MaxQueueSize = 1
  MaximumAttempts = 2
  MaxRows = 5
  PopLimits = {1, 2}
  CompactAt = 2
INVARIANTS
  ShowsTheLog
  NoLostWakeup
  SlotsAddUp
  ConnectionsAreSafe
  NothingSticks
PROPERTIES
  NeverBackwards
  KeepsItsCallbacks
  Converges
  NothingHangs
  EverythingScrollsBy
CHECK_DEADLOCK FALSE
