SPECIFICATION Spec
CONSTANTS
    a1 = a1
    People = {a1, a2}
    Devices = {d1, d2}
    Requests = {q1, q2}
    Removals = {k1}
    Owner <- OneOwner
    NoJti = NoJti
    Emails = {e1, e2}
    NoEmail = NoEmail
    Works = {w1, w2, w3}
    Registered = {a1}
    MaxOutside = 4
SYMMETRY Symmetric
INVARIANTS CookieIsGood VerifiedIsProven ChangeCanBeReverted
PROPERTIES RemovedStaysOut
CHECK_DEADLOCK FALSE
