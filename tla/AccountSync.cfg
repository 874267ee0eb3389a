SPECIFICATION LiveSpec
CONSTANTS
    a = a
    b = b
    x = x
    y = y
    Null = Null
    Device = {a, b}
    Field = {x, y}
    Modes <- SyncModes
    MaxValue = 3
INVARIANT TypeOK
PROPERTIES EditStands Converges
CHECK_DEADLOCK FALSE
