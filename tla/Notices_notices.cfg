SPECIFICATION Spec
CONSTANTS
    u1 = u1
    Users = {u1}
    People = {u1}
    Sockets = {s1}
    Owner <- OneOwner
    Reads = {r1}
    Jobs = {j1, j2, j3}
    Sends = {n1, n2}
    NoKey = NoKey
    SendKeys = {k1}
    Calls <- AllCalls
    Keys <- AllKeys
    Mails <- AllMails
    CronRuns = {}
    MaxAttempts = 2
    First = First
    MaxTime = 1
    MaxOutside = 3
SYMMETRY Symmetric
INVARIANTS OrphansAreReported OnlineIsConnected DecisionIsAnnounced
PROPERTIES AskingTakesNothing
CHECK_DEADLOCK FALSE
