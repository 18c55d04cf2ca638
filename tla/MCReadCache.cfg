SPECIFICATION Spec
CONSTANTS
  Readers = {r1}
  MaxRevision = 2
  MaxEventId = 1
  MaxVisibility = 2
  Lease = 0
  Deadline = 0
  SlowRebuild = TRUE
  MaxPasses = 2
  MaxAttempts = 2
  MayDelete = FALSE
INVARIANTS
  SnapshotFitsEntry
  PageCoversHeard
PROPERTIES
  TargetMonotone
