SPECIFICATION Spec
CONSTANTS
    Tasks = {t1, t2, t3}
    NoTask = NoTask
    MaxQueuedTasks = 2
    MaxTerminalTasks = 1
    StorageModes = {"local", "s3"}
    Faults = {}
SYMMETRY Symmetry
CHECK_DEADLOCK FALSE
INVARIANTS ServiceTypeOK CancelCommitExclusive QueueSound SignalHitsRequestedTask FilesMatchOutcome LimboOnlyByRace
PROPERTY StartsInOrder
