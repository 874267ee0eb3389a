SPECIFICATION Spec
CONSTANTS
    j1 = j1
    j2 = j2
    Joins <- TwoJoins
    MaxGen = 3
    Switching = TRUE
    Overlapping = TRUE
INVARIANTS EndedWithTheSession
CHECK_DEADLOCK FALSE
