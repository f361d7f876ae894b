SPECIFICATION Spec
CONSTANTS
    u1 = u1  u2 = u2  k1 = k1  k2 = k2  r1 = r1  r2 = r2  r3 = r3
    NoReq = NoReq
    Users <- OneUser
    Keys <- OneKey
    Requests <- TwoRequests
    TotalStock = 1
    PerUserLimit = 1
    Modes = {TRUE}
    InitStatus = {"ACTIVE"}
    InitWindow = {"open"}
    StatusMoves <- NoMoves
    ClockMoves <- NoMoves
    MaxFaults = 1
    MaxFlushes = 0
CHECK_DEADLOCK FALSE
INVARIANT RolledBackOnPersistFailure
