\* The byte limit of a pass applies.
SPECIFICATION ImageSpec
CONSTANTS
  MaxUploads = 2
  ByteLimit = TRUE
  MaxFrames = 3
  MaxSetbacks = 1
INVARIANTS
  NoImageIsForgotten
CHECK_DEADLOCK FALSE
