SPECIFICATION ServerFairSpec
CONSTANTS
    Requests = {r1, r2, r3}
    Jobs = {r1, r2}
    MaxConcurrent = 1
    MaxQueue = 1
    Rate = 1
    Burst = 1
    Unit = 2
    MaxTime = 2
    PoolWorkers = {w1}
    Buffer = 1
    NoJob = NoJob
INVARIANTS
    ServerTypeOK
    Bounded
    NothingLeaks
    JobsConserved
    CloseDrains
    RateBound
    RateExact
PROPERTIES
    AcquireEnds
    AcceptedJobsRun
    StopEnds
CHECK_DEADLOCK FALSE
