SPECIFICATION Spec
CONSTANTS
    Modes <- SafetyModes
    MaxSession = 2
    MaxId = 5
    MaxFaults = 3
    MaxTasks = 2
INVARIANTS TypeOK ClosedForGood ForgottenAreCounted GhostTakesTwo
CHECK_DEADLOCK FALSE
