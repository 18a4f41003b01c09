\* Two workers, two changes of the setting and one fault of any kind in the queue; two
\* rows, one finding, and one or two disturbances (CardsBound) in the cards.
SPECIFICATION RecordsSpec
CONSTANTS
  Rows = {1, 2}
  Opportunities = {1}
  RefLimit = 2
  MaxVersions = 2
  Disturbances = {"policy", "rewrite", "expire", "forget", "failure", "crash"}
  MaxDisturbances = 2
  Workers = {w1, w2}
  NoWorker = NoWorker
  BatchSize = 1
  MaxAttempts = 2
  MaxFrames = 1
  MaxToggles = 2
  Faults = {"state", "settle", "save", "start", "crash"}
  MaxFaults = 1
SYMMETRY WorkerSymmetry
INVARIANTS
  CardsAreJustified
  BackendIsHonest
  ProcessingIsInHand
PROPERTIES
  NoCardReturns
  NoHistoricalSweep
CHECK_DEADLOCK FALSE
