SPECIFICATION Spec
CONSTANTS
    Tabs = {t1, t2}
    Edits = {e1, e2}
    Seeds = {s1, s2}
    MaxTroubles = 2
    MaxRestarts = 1
    Closes = TRUE
    Slow = TRUE
    DbFails = TRUE
    Refuses = TRUE
SYMMETRY Symmetric
INVARIANTS HearsEverything SaysEverything QuietTabsAgree
PROPERTIES IsSharedDocument
CHECK_DEADLOCK FALSE
