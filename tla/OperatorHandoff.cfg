SPECIFICATION HandoffSpec
CONSTANTS
  Projects = {"unit", "integration"}
  MaxTests = 2
  Contents = {"before", "after"}
  MaxEdits = 2
  MaxCrashes = 1
CHECK_DEADLOCK FALSE
INVARIANTS FailedGateIsNotBypassed
