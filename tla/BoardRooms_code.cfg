CONSTANTS
    Sockets = {s1, s2}
    Edits = {e1}
    Starter = starter
    Rooms = {r1, r2}
    SaveIds = {w1, w2}
    NoRoom = NoRoom
    Kind = "code"
    MaxBytes = 3
    MaxStrays = 2
    DbFails = TRUE
    SlowWrites = FALSE
SPECIFICATION Spec
SYMMETRY Symmetry
CHECK_DEADLOCK FALSE
INVARIANTS
    OrderlyIsStored
    JoinedHearsUpdates
    LiveIsOpen
    EvictedForGood
PROPERTIES
    UnloadKeepsEdits
    IsSharedDocument
