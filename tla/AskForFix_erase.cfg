\* One run, one turn, and one deletion of everything.
SPECIFICATION AskSpec
CONSTANTS
  AskRuns = {r1}
  NoAskRun = NoAskRun
  NoJob = NoJob
  MaxQuestions = 1
  MaxTurns = 1
  MaxReplies = 2
  Troubles = {"erase"}
  MaxTroubles = 1
INVARIANTS
  DeletionClears
CHECK_DEADLOCK FALSE
