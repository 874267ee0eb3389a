SPECIFICATION LiveSpec
CONSTANTS
    j1 = j1
    j2 = j2
    Joins <- TwoJoins
    MaxGen = 4
    Switching = FALSE
    Overlapping = FALSE
INVARIANTS TypeOK EndedOnce EndedWithTheSession
PROPERTIES MembershipEndsWithTheSession
CHECK_DEADLOCK FALSE
