SPECIFICATION Spec
CONSTANTS
    u1 = u1  u2 = u2  k1 = k1  k2 = k2  r1 = r1  r2 = r2  r3 = r3
    NoReq = NoReq
    Users <- MCUsers
    Keys <- MCKeys
    Requests <- MCRequests
    TotalStock = 2
    PerUserLimit = 1
    Modes <- Both
    InitStatus = {"ACTIVE"}
    InitWindow = {"open"}
    StatusMoves <- NoMoves
    ClockMoves <- NoMoves
    MaxFaults = 1
    MaxFlushes = 1
SYMMETRY Symmetry
CHECK_DEADLOCK FALSE
INVARIANTS TypeOK WithinLimit AnswersAreLedgered RedisNeverOveradmits EntriesAreCounted
    SameKeySameClaim
