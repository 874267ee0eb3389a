SPECIFICATION FairSpec
CONSTANTS
    p = p
    q = q
    Pages <- TwoPages
    MaxWorkers = 3
    StealAfter = 2
    StopLimit = 1
    Modes <- Kinds
INVARIANTS OneCore FailedStaysBehind
PROPERTY NobodyLeftSilent
CHECK_DEADLOCK FALSE
