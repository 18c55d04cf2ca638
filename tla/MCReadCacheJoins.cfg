SPECIFICATION LiveSpec
CONSTANTS
  Readers = {r1, r2}
  MaxRevision = 1
  MaxEventId = 1
  MaxVisibility = 1
  Lease = 0
  Deadline = 0
  SlowRebuild = TRUE
  MaxPasses = 1
  MaxAttempts = 1
  MayDelete = FALSE
PROPERTIES
  CallersAnswered
