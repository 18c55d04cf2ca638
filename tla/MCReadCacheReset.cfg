SPECIFICATION Spec
CONSTANTS
  Readers = {r1}
  MaxRevision = 2
  MaxEventId = 1
  MaxVisibility = 1
  Lease = 0
  Deadline = 0
  SlowRebuild = FALSE
  MaxPasses = 2
  MaxAttempts = 2
  MayDelete = FALSE
INVARIANTS
  StaleRevisionIsReset
