SPECIFICATION TabsSpec
CONSTANTS
    Tabs = {t1}
    Messages = {m1, m2}
    NoData = NoData
    MaxOutside = 2
    Projects = {"p1", "p2", "big"}
    TooLarge = {"big"}
    Names = {"n1", "n2"}
    Requests = {q1, q2}
    None = None
    MayLeave = TRUE
    MayFail = TRUE
    MaxEdits = 4
    Editors = {t1, t2}
    Edits = {e1}
    Seeds = {s1, s2}
    MaxTroubles = 2
    MaxRestarts = 1
    Closes = FALSE
    Slow = FALSE
    DbFails = FALSE
    Refuses = FALSE
INVARIANTS SavedIsStored AwayIsCaughtUp OldestFirst
PROPERTIES EditsSettle EditsReachEveryone
CHECK_DEADLOCK FALSE
