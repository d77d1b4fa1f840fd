CONSTANTS
    Sockets = {s1, s2}
    Edits = {e1}
    Starter = starter
    Rooms = {r1}
    SaveIds = {w1}
    NoRoom = NoRoom
    Kind = "sandbox"
    MaxBytes = 3
    MaxStrays = 1
    DbFails = FALSE
    SlowWrites = TRUE
SPECIFICATION FairSpec
CHECK_DEADLOCK FALSE
PROPERTIES
    OpenAnswered
    EditsGetStored
    EmptyRoomUnloads
    ExpiredGetsDeleted
