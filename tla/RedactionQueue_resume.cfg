\* One crash, and a session after it; the setting stays as it is.
SPECIFICATION FairQueueSpec
CONSTANTS
  Workers = {w1}
  NoWorker = NoWorker
  BatchSize = 1
  MaxAttempts = 2
  MaxFrames = 1
  MaxToggles = 0
  Faults = {"crash"}
  MaxFaults = 1
PROPERTIES
  ThePassResumes
CHECK_DEADLOCK FALSE
