SPECIFICATION Spec
CONSTANTS
    Tasks = {t1}
    Relays = {x1}
    Workers = {w1}
    Schedulers = {s1}
    Compensators = {c1}
    Replayers = {p1, p2}
    NoTask = NoTask
    MaxRetry = 1
    MaxReady = 2
    MaxFaults = 0
    MaxReplays = 2
CHECK_DEADLOCK FALSE
INVARIANTS
    DeadIsReplayable
