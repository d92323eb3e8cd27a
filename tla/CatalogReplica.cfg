CONSTANTS
    Apps = {a1, a2}
    Ids = {s1, s2}
    Checkouts = {c1, c2}
    Found = {0, 1, 3, 5, 7, 8}
    MaxWrites = 3
    NoApp = nobody
    NoCheckout = nowhere
SYMMETRY Interchangeable
SPECIFICATION ReplicaSpec
CHECK_DEADLOCK FALSE
INVARIANTS EveryVersionOpens NoViewIsStuck
