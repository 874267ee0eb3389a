SPECIFICATION Spec
CONSTANTS
    k1 = k1
    phone = phone
    laptop = laptop
    NoDevice = NoDevice
    Keys = {k1}
    Devices = {phone, laptop}
    Rooms <- TwoRooms
    Hour = 3
    MaxTime = 7
    MaxRedacted = 2
INVARIANTS LastWriterShows RedactedShowsNobody
PROPERTIES GoneByItsDevice
CHECK_DEADLOCK FALSE
