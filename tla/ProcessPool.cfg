CONSTANTS
    World = 3
    Steps = 2
    MaxWindows = 2
    Transports = {TRUE, FALSE}
SPECIFICATION FairSpec
INVARIANTS CallsMatched MemoryGivenBack
PROPERTY EveryCallReturns
