SPECIFICATION LiveSpec
CONSTANTS
    Peer = {p1}
    Gen = {1, 2}
    IndexMod = 3
    UseDelay = 2
    Grace = 3
    Reshare = 4
    MaxAge = 6
    Interval = 2
    MaxBusy = 1
    LostAck = TRUE
INVARIANTS
    TypeOK
    HoldersOnTheBooks
    JoinersGetNoOldKey
    BookedLeaverLosesKey
PROPERTIES
    KeysUsedInOrder
    MemberGetsKey
    LeaverEventuallyLosesKey
