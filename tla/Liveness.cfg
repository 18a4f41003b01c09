\* Every component of MC_Liveness on a small instance of its own.
SPECIFICATION LiveSpec
CONSTANTS
  AskRuns = {r1}
  NoAskRun = NoAskRun
  NoJob = NoJob
  MaxQuestions = 1
  MaxTurns = 1
  MaxReplies = 1
  Troubles = {"stop", "view", "crash"}
  MaxTroubles = 1
  Watches = {w1}
  NoWatch = NoWatch
  Capacity = 1
  WindowSize = 1
  LookBack = 1
  MaxAdmitted = 2
  MaxUpsets = 1
  Workers = {tick, refresh}
  Background = tick
  Contexts = {c1}
  NoPacket = NoPacket
  ObservationLimit = 1
  MaxObservations = 2
  MaxFaults = 1
  MaxRefreshes = 1
  MaxWipes = 0
  Rows = {1}
  Opportunities = {1}
  RefLimit = 1
  MaxVersions = 1
  Disturbances = {"policy", "expire", "forget", "failure", "crash"}
  MaxDisturbances = 2
  Ticks = {t1}
  Frame = frame
  Event = event
  Texts = {a, b}
  NoRow = NoRow
  NoBatch = NoBatch
  PageLimit = 1
  BatchLimit = 1
  Lag = 1
  MaxRows = 2
  WipeAtRest = TRUE
  Kinds = {"click", "key"}
  Windows = {w1}
  Pages = {p1}
  MaxText = 0
  Monitors = {}
  CacheLimit = 1
  BatchSize = 1
  BusSize = 2
  MailSize = 2
  MaxEvents = 2
  MaxSlips = 1
  MaxSessions = 1
  SettleLag = 1
  ChunkSize = 1
  MaxTime = 2
  MaxHour = 2
  MaxMishaps = 1
  Calls = {c1}
  Timers = {t1, t2}
  NoTask = NoTask
  Asked = {"pause", "policy", "wipe"}
  MaxBegun = 2
  MaxFailures = 1
  Runners = {t1, t2}
  Loops = {l1}
  NoLoop = NoLoop
  Permits = 1
  MaxAttempts = 2
  MaxTaken = 2
  MaxOthers = 1
  MaxChanges = 0
  TaskTroubles = {"provider", "permanent", "resolve", "storage", "deletion", "crash"}
  MaxTaskTroubles = 1
  MaxRequests = 3
  MailPage = 1
  TakeLimit = 1
  MailTroubles = {"disconnect", "storage", "interrupt", "wipe", "crash"}
  MaxMailTroubles = 2
  DayLength = 2
  Evening = 1
  ObservationThreshold = 3
  EpisodeThreshold = 2
  NormalInterval = 2
  BurstThreshold = 3
  BurstInterval = 1
  DeadlineThreshold = 2
  MaxPendingAge = 2
  MaxUnowned = 3
  MaxWakeFailures = 1
PROPERTIES
  ThinkingEnds
  WatchesCatchUp
  SparseWorkIsTaken
  EveryObservationSettles
  GoneRowsAreDeleted
  ExclusionsReachCards
  EveryRowConsumed
  HeardEventsAreLinked
  EverythingReachesTheCloud
  PauseEnds
  EveryEventDelivered
  EveryRequestAnswered
CHECK_DEADLOCK FALSE
