SPECIFICATION Spec
CONSTANTS
  Readers = {r1}
  MaxRevision = 1
  MaxEventId = 2
  MaxVisibility = 1
  Lease = 1
  Deadline = 1
  SlowRebuild = TRUE
  MaxPasses = 1
  MaxAttempts = 1
  MayDelete = FALSE
INVARIANTS
  AuthorityIsRecent
