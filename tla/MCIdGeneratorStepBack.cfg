SPECIFICATION IdSpec
CONSTANTS
  Procs = {p1, p2}
  Slots = {w1}
  None = None
  Clock <- MCClock
  Window = 1
  MaxBackward = 1
  MaxSequence = 1
  MaxReserved = 4
  MaxIds = 3
  EarlyStepBack = TRUE
SYMMETRY MCSymmetry
INVARIANTS
  UniqueIds
CHECK_DEADLOCK FALSE
