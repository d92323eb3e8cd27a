CONSTANTS
    Sessions = {s1, s2}
    Packages = {"old", "new"}
    Old = "old"
    Issues = {"i1"}
    MaxThreads = 2
    MaxCrashes = 1
    MaxFaults = 1
    NoSession = NoSession
SPECIFICATION Spec
SYMMETRY Interchangeable
CHECK_DEADLOCK FALSE
PROPERTIES RestoredThreadIsKept BoundPackagesAreKept
