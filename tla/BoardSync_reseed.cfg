SPECIFICATION Spec
CONSTANTS
    Tabs = {t1, t2}
    Edits = {e1}
    Seeds = {s1, s2}
    MaxTroubles = 0
    MaxRestarts = 1
    Closes = FALSE
    Slow = FALSE
    DbFails = FALSE
    Refuses = FALSE
INVARIANTS SeededOnce
CHECK_DEADLOCK FALSE
