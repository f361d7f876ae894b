SPECIFICATION FairSpec
CONSTANTS
    u1 = u1  u2 = u2  k1 = k1  k2 = k2  r1 = r1  r2 = r2  r3 = r3
    NoReq = NoReq
    Users <- MCUsers
    Keys <- OneKey
    Requests <- TwoRequests
    TotalStock = 1
    PerUserLimit = 0
    Modes <- Both
    InitStatus = {"MISSING", "ACTIVE"}
    InitWindow = {"before", "open"}
    StatusMoves <- CampaignMoves
    ClockMoves <- ClockRuns
    MaxFaults = 1
    MaxFlushes = 0
CHECK_DEADLOCK FALSE
INVARIANTS NoOversell RedisMirrorsLedger ReplayIsStable AdmissionHolds
PROPERTIES RefusedForCause RequestEnds ImplementsLedger
