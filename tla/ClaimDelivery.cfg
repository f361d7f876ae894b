SPECIFICATION DeliverySpec
CONSTANTS
    Tasks = {t1, t2}
    ClaimIds = {t1}
    Users = {u1, u2}
    Keys = {k1}
    TotalStock = 1
    Limit = 1
    Relays = {x1, x2}
    Workers = {w1, w2}
    Schedulers = {s1}
    Compensators = {c1}
    Replayers = {p1}
    NoTask = NoTask
    MaxRetry = 1
    MaxReady = 2
    MaxFaults = 0
    MaxReplays = 0
SYMMETRY Symmetry
INVARIANTS
    EveryClaimOnItsWay
    ExclusiveRun
PROPERTIES
    DeliversLedger
CHECK_DEADLOCK FALSE
