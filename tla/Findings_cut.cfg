SPECIFICATION Spec
CONSTANTS
  Rows = {1, 2}
  Opportunities = {1}
  RefLimit = 2
  MaxVersions = 1
  Disturbances = {"forget", "failure", "crash"}
  MaxDisturbances = 2
INVARIANTS
  ForgottenIsWithdrawn
CHECK_DEADLOCK FALSE
