\* One room under every hazard that the code copes with.
CONSTANTS
    History = 3
    Newest = 5
    Modes <- Soundly
SPECIFICATION Spec
INVARIANTS
    CheckpointKeepsUp
    PassedIsFound
PROPERTIES
    KeepsItsPromise
    EverythingKept
    RedactedPurged
CHECK_DEADLOCK FALSE
