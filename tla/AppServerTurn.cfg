SPECIFICATION Spec
CONSTANTS
  MaxRetries = 1
  MaxFaults = 1
  MaxEvents = 2
CHECK_DEADLOCK FALSE
INVARIANTS OutputIsOfTheTurn
PROPERTIES CompletedTurnIsRecovered
