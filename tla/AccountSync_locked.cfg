SPECIFICATION Spec
CONSTANTS
    a = a
    b = b
    x = x
    y = y
    Null = Null
    Device = {a, b}
    Field = {x}
    Modes <- Locked
    MaxValue = 3
PROPERTIES LockedIsNotOverwritten
CHECK_DEADLOCK FALSE
