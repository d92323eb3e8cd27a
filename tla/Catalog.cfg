SPECIFICATION MCSpec
CONSTANTS
    s1 = s1
    s2 = s2
    c1 = c1
    c2 = c2
    Sessions = {s1, s2}
    Checkouts = {c1, c2}
    Owners = {o1, o2}
    NoCheckout = NoCheckout
    NoOwner = NoOwner
    TreeKind = "WINDOWS_KILL_ON_CLOSE_JOB"
    Limits = {1, 2}
    DefaultLimit = 1
    Reported = {"FAILED"}
    Prompted = {c1}
    OrderBound = 3
    MaxMoves = 1
INVARIANTS CapacityBackedByLease LeasesExclusive RowsReadable LeaseFollowsSession
PROPERTIES TakeoverOnlyFromDead UnavailableGainsNothing AdmissionIsFirstComeFirstServed LiveQueueAdvances
