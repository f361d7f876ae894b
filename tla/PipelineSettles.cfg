SPECIFICATION FairSpec
CONSTANTS
    Tasks = {t1}
    Relays = {x1}
    Workers = {w1}
    Schedulers = {s1}
    Compensators = {c1}
    Replayers = {p1}
    NoTask = NoTask
    MaxRetry = 2
    MaxReady = 2
    MaxFaults = 2
    MaxReplays = 0
PROPERTIES
    ImplementsLifecycle
    Settles
CHECK_DEADLOCK FALSE
