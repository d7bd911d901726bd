CONSTANTS
    ObjectCount = 2
    NumFrames = 12
    InferLen = 3
    Overlap = 2
    SceneLists <- AnyScenes
    Presences <- SomeRuns
    Modes = {"preload", "streaming", "logical"}
SPECIFICATION Spec
INVARIANTS ChainInOrder FinishedIsWhole FailuresExplained BoundedCaches
PROPERTY StepsMakeProgress
