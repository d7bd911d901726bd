SPECIFICATION Spec
CONSTANTS
    Tasks = {t1}
    NoTask = NoTask
    MaxQueuedTasks = 1
    MaxTerminalTasks = 1
    StorageModes = {"local"}
    Faults = {}

CHECK_DEADLOCK FALSE
INVARIANT SurvivesCancellation
