SPECIFICATION FairSpec
CONSTANTS
  Rows = {1, 2}
  Opportunities = {1}
  RefLimit = 2
  MaxVersions = 1
  Disturbances = {"rewrite", "forget"}
  MaxDisturbances = 2
PROPERTIES
  GoneRowsAreDeleted
CHECK_DEADLOCK FALSE
