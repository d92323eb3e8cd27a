SPECIFICATION MCSpec
CONSTANTS
  i1 = i1
  i2 = i2
  t1 = t1
  t2 = t2
  Order <- MCOrder
  Packages <- Chain
  MaxRework = 1
  Trees <- MCTrees
  None = None
  MaxAttempts = 3
  MaxCrashes = 1
  MaxEdits = 1
  MaxConsents = 1
  MaxTroubles = 1
CHECK_DEADLOCK FALSE
INVARIANTS DependenciesFirst UnknownIsNotReplayed
PROPERTIES CompletionIsVerified ComesToRest
