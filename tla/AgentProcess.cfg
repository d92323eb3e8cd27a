CONSTANTS
    MaxLaunches = 2
    MaxEvents = 1
    MaxReaps = 2

SPECIFICATION FairSpec
CHECK_DEADLOCK FALSE
INVARIANTS StoppedTreesAreDead
PROPERTIES AttemptEnds
