\* Every component of MC_Components on a small instance of its own.
SPECIFICATION ComponentsSpec
CONSTANTS
  Watches = {w1}
  NoWatch = NoWatch
  Capacity = 1
  WindowSize = 1
  LookBack = 1
  MaxAdmitted = 3
  MaxUpsets = 1
  Requests = {q1, q2}
  Editors = {e1, e2}
  NoChange = NoChange
  MaxVersions = 3
  MaxAnswers = 2
  MaxLosses = 1
  MaxJobs = 2
  MaxInputs = 2
  MaxForgets = 1
  MaxRestarts = 1
  Kinds = {"focus", "scroll"}
  Windows = {v1}
  Pages = {p1, p2}
  MaxText = 0
  Monitors = {m1}
  CacheLimit = 1
  BatchSize = 1
  BusSize = 1
  MailSize = 2
  MaxEvents = 2
  MaxSlips = 1
  MaxSessions = 2
  SettleLag = 1
  ChunkSize = 2
  MaxRows = 2
  MaxTime = 2
  MaxHour = 2
  MaxMishaps = 2
  MaxUploads = 2
  ByteLimit = FALSE
  MaxFrames = 3
  MaxSetbacks = 2
  Calls = {c1, c2}
  Timers = {t1, t2}
  NoTask = NoTask
  Asked = {"pause", "resume", "settings", "download", "wipe", "policy"}
  MaxBegun = 2
  MaxFailures = 1
  Runners = {t1, t2}
  Loops = {l1, l2}
  NoLoop = NoLoop
  Permits = 2
  MaxAttempts = 2
  MaxTaken = 2
  MaxOthers = 0
  MaxChanges = 1
  TaskTroubles = {"provider", "permanent", "resolve", "storage", "deletion", "crash"}
  MaxTaskTroubles = 1
  MaxRequests = 3
  PageLimit = 2
  TakeLimit = 2
  MailTroubles = {"disconnect", "storage", "interrupt", "wipe", "crash"}
  MaxMailTroubles = 2
  MaxSaves = 2
  MaxRecorders = 1
INVARIANTS
  NothingUnwatched
  NoLostUpdate
  ReadyIsOnDisk
  RunningIsBuilt
  LinksTellTheTruth
  BothEndsMeet
  OneContentPerSegment
  BareMeansAccepted
  NoImageIsForgotten
  PauseHolds
  CursorMeansDone
  NoRequestIsLost
  ClearedIsNotSent
PROPERTIES
  EndedStaysEnded
CHECK_DEADLOCK FALSE
