SPECIFICATION FairSpec
CONSTANTS
    Tasks = {t1, t2}
    NoTask = NoTask
    MaxQueuedTasks = 2
    MaxTerminalTasks = 1
    StorageModes = {"local", "s3"}
    Faults = {"collective", "filesystem"}
CHECK_DEADLOCK FALSE
PROPERTIES KeepsContract ServiceEnds
