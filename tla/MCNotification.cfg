SPECIFICATION LiveSpec
CONSTANTS
  Instances = {i1, i2}
  Clients = {c1}
  MaxRevision = 2
  MaxEventId = 1
  MaxAnnouncing = 1
INVARIANTS
  ToldBetween
  NoResponseHangs
PROPERTIES
  Converges
  DeletionReaches
CHECK_DEADLOCK FALSE
