SPECIFICATION ConsentSpec
CONSTANTS
  MaxSaves = 1
  MaxRecorders = 1
INVARIANTS
  RevocationClears
CHECK_DEADLOCK FALSE
