SPECIFICATION FairSpec
CONSTANTS
    Tabs = {t1, t2}
    Edits = {e1}
    Seeds = {s1}
    MaxTroubles = 1
    MaxRestarts = 0
    Closes = FALSE
    Slow = TRUE
    DbFails = FALSE
    Refuses = FALSE
PROPERTIES EditsReachEveryone
CHECK_DEADLOCK FALSE
