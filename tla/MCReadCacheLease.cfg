SPECIFICATION Spec
CONSTANTS
  Readers = {r1}
  MaxRevision = 1
  MaxEventId = 1
  MaxVisibility = 2
  Lease = 1
  Deadline = 1
  SlowRebuild = FALSE
  MaxPasses = 1
  MaxAttempts = 1
  MayDelete = TRUE
INVARIANTS
  PageWithinLease
