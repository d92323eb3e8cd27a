SPECIFICATION RunSpec
CONSTANTS
    a = a
    b = b
    dev = dev
    rev = rev
    Order <- MCOrder
    Needs <- MCNeeds
    Steps = {dev, rev}
    Start = dev
    Route <- MCRoute
    Answers <- MCAnswers
    Inputs <- MCInputs
    Coders = {dev}
    Reviewers = {rev}
    MaxPasses = 2
    Rounds = 1
    Single = FALSE
    NoStep = NoStep
    NoIssue = NoIssue
    MaxDisturbed = 3
CHECK_DEADLOCK FALSE
INVARIANTS ReworkReachesTheCoder ResumesUnlessDeadEnd WaitsBelongToTheirIssue
