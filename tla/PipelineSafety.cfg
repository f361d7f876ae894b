SPECIFICATION Spec
CONSTANTS
    Tasks = {t1}
    Relays = {x1}
    Workers = {w1, w2}
    Schedulers = {s1, s2}
    Compensators = {c1}
    Replayers = {p1}
    NoTask = NoTask
    MaxRetry = 2
    MaxReady = 1
    MaxFaults = 1
    MaxReplays = 1
SYMMETRY Symmetry
INVARIANTS
    TypeOK
    RetryBudget
    NoSilentLoss
    ExclusiveRun
    DeadLetters
CHECK_DEADLOCK FALSE
