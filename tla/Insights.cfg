\* Explorer: two overlapping ticks, windows of one row, two faults (a batch can be
\* rejected), one deletion (BatchBound).  Ask for a fix: two runs, two turns, one question,
\* one trouble (AskBound).
SPECIFICATION InsightsSpec
CONSTANTS
  AskRuns = {r1, r2}
  NoAskRun = NoAskRun
  NoJob = NoJob
  MaxQuestions = 1
  MaxTurns = 2
  MaxReplies = 1
  Troubles = {"stop", "view", "crash", "erase"}
  MaxTroubles = 1
  Ticks = {t1, t2}
  Frame = frame
  Event = event
  Texts = {a, b}
  Contexts = {c1}
  NoRow = NoRow
  NoBatch = NoBatch
  NoPacket = NoPacket
  PageLimit = 1
  BatchLimit = 1
  Lag = 1
  MaxRows = 2
  MaxFaults = 2
  MaxWipes = 1
  WipeAtRest = TRUE
SYMMETRY TickAndTextSymmetry
INVARIANTS
  EveryTextOffered
  CursorsCutInTime
  SessionIsWhole
  MemoIsOfThisTurn
CHECK_DEADLOCK FALSE
