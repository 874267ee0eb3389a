SPECIFICATION LiveSpec
CONSTANTS
    Modes <- LiveModes
    MaxSession = 1
    MaxId = 4
    MaxFaults = 1
    MaxTasks = 1
PROPERTIES SeenOrEnded ProtectedOrEnded SlotVacated
CHECK_DEADLOCK FALSE
