SPECIFICATION Spec
CONSTANTS
    p1 = p1
    p2 = p2
    i1 = i1
    i2 = i2
    Procs = {p1, p2}
    Pids = {i1, i2}
    None = None
    Wants = {"idle", "ended"}
    MaxSeq = 3
    MaxLeases = 3
    MaxDeaths = 2
SYMMETRY Symmetry
CHECK_DEADLOCK FALSE
INVARIANTS LogStaysReadable ExtendsWhatIsStored
PROPERTIES KeepsItsPromises
