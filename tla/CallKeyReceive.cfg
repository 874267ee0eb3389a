SPECIFICATION ReceiverLiveSpec
CONSTANTS
    p1 = p1
    p2 = p2
    Sender = {p1, p2}
    Modes = {TRUE, FALSE}
    Indices = 2
    Capacity = 2
    MaxGen = 2
    MaxSends = 3
    Focused <- Foci
INVARIANTS ShownIsHeard
PROPERTIES NeverBackwards StayerIsHeard
CHECK_DEADLOCK FALSE
