SPECIFICATION MCSpec
CONSTANTS
    s1 = s1
    s2 = s2
    Sessions = {s1, s2}
    Slots = 1
    MaxGen = 2
    MaxIntents = 3
    CleanupFails = {s1}
    RenewFails = {s1}
    OthersCompete = TRUE
CHECK_DEADLOCK FALSE
INVARIANTS WorkingWithinLimit WorkersHoldTheWorktree LiveWorkersAreTracked RestingHoldsNothing
PROPERTIES SlotOfALostWorkerReturns
