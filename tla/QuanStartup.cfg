SPECIFICATION MCSpec
CONSTANTS
    Instances = {i1, i2}
    Files <- QuanFiles
    Total = 2
    MaxFaults = 1
    UseRedis = TRUE
    Loops = {"consumer"}
    MaxBoots = 3
    Chars = {"x", ";", "'", "bt", "-", "#", "/", "*", "bs", "nl"}
    MaxText = 5
INVARIANTS
    AppTypeOK
    ServesOnlyMigrated
    SeedsBeforeSales
    StopIsComplete
    SplitsAsMySQL
PROPERTIES
    MigrationFailsForCause
    LifecycleEnds
CHECK_DEADLOCK FALSE
