SPECIFICATION MCSpec
CONSTANTS
  Producers = {p1, p2}
  Solutions = {s1}
  Times = {0, 1}
  FreezeStarts = {}
  NoProducer = NoProducer
  NoSolution = NoSolution
  NoTime = NoTime
  NoFreeze = NoFreeze
  MaxRevision = 2
  MaxEventId = 3
  MaxBatch = 2
  Batches <- MCBatches
  Procs = {q1, q2}
  Slots = {w1}
  None = None
  Clock <- MCClock
  Window = 1
  MaxBackward = 1
  MaxSequence = 1
  MaxReserved = 4
  MaxIds = 3
  EarlyStepBack = FALSE
SYMMETRY MCSymmetry
INVARIANTS
  LogIsWhole
  AckDurable
  SubmitTimeResolved
  SingleWriter
  SealedIsJudged
  UniqueIds
  NoRequestStranded
PROPERTIES
  HistoryStands
CHECK_DEADLOCK FALSE
