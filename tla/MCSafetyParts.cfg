SPECIFICATION MCSpec
CONSTANTS
  MaxConnections = 2
  MaxCommits = 2
  MaxWire = 2
  Finalizers = {f1, f2}
  Uploads = {u1}
  NoFile = NoFile
  MaxVersion = 2
  Solutions = {s1, s2}
  FrozenSolutions = {s2}
  ChunkEventCount = 2
  MaxSynchronousProjectionChunks = 1
  MaxEvents = 5
  Limits = {1, 2, 3}
  Problems = {"p"}
  Users = {"u1", "u2"}
  Submissions <- MCSubmissions
  FreezeTime = 5
  MaxBatch = 2
  Results = {"AC", "RJ"}
  Contests = {c1, c2}
  Flights = {g1, g2}
  Responses = {r1, r2}
  NoFlight = NoFlight
  MaxBytes = 4
  MaxEntryBytes = 4
  MaxPage = 1
  MaxFresh = 2
  Keys = {k1, k2}
  NoKey = NoKey
  MaxSessions = 2
  MaxResets = 1
  MaxApplied = 2
INVARIANTS
  NoSilentGap
  ArchiveStands
  NothingLeftBehind
  AnswersAreTrue
  PagesAgree
  ReadersMissNothing
  BoardIsProjection
  MemoryIsAccounted
  ReservationsSuffice
  ScreenFollowsStream
CHECK_DEADLOCK FALSE
