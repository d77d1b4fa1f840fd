SPECIFICATION BackSpec
CONSTANTS
    Events = {e1}
    RetryAttempts = 3
    MaxLosses = 2
    Tabs = {t1, t2}
    NoTab = NoTab
    MaxCalls = 3
    MaxIssued = 5
    MaxOutside = 2
INVARIANTS Accounted AttemptsBounded
PROPERTIES Settles EndedStaysEnded GoodSessionIsKept ConsoleSettles
CHECK_DEADLOCK FALSE
