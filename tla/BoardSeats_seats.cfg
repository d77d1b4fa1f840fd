SPECIFICATION Spec
CONSTANTS
    Requests = {r1, r2}
    Users = {u1, u2, u3}
    Codes = {c1, c2}
    BoardIds = {b1, b2}
    Seats = {2}
    MaxAttempts = 1
    Batch = 1
    MaxFailures = 1
    NoBoard = NoBoard
    NoCode = NoCode
    Nobody = Nobody
SYMMETRY Symmetric
INVARIANTS SeatsKept LocksAreLetGo
PROPERTIES SweepIsThorough IsSeating
