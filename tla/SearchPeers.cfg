SPECIFICATION AskingSpec
CONSTANTS
    a = a
    b = b
    c = c
    Devices <- All
    Modes <- Passing
    MaxServing = 2
INVARIANTS TypeOK OneAttempt
PROPERTIES AsksAgain TriedOnce CompletedByItsOwn
CHECK_DEADLOCK FALSE
