SPECIFICATION MCSpec
CONSTANTS
    c1 = c1
    c2 = c2
    Installers = {1, 2, 3, 4}
    Commits = {c1, c2}
    None = None
    Removal = Removal
    Assets = {"command", "tool"}
    Retained = {"tool"}
    AssetsOf <- NewAssets
    MaxStops = 2
    MaxRunning = 2
    MaxRuns = 2
CHECK_DEADLOCK FALSE
INVARIANTS ActiveIsAdopted PendingIsRecoverable OneDriver RemovalIsResumable
PROPERTIES ActivationIsAtomic NothingOfTheUserIsLost RecoveryCompletes
