SPECIFICATION FairSpec
CONSTANTS
    u1 = u1
    Users = {u1}
    People = {u1}
    Sockets = {s1}
    Owner <- OneOwner
    Reads = {r1}
    Jobs = {j1}
    Sends = {}
    NoKey = NoKey
    SendKeys = {}
    Calls <- AllCalls
    Keys <- AllKeys
    Mails <- AllMails
    CronRuns = {p1, p2}
    MaxAttempts = 2
    First = First
    MaxTime = 0
    MaxOutside = 3
INVARIANTS GivesUpLate
PROPERTIES CacheCatchesUp MailSettles
CHECK_DEADLOCK FALSE
