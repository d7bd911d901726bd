SPECIFICATION FairSpec
CONSTANTS
    Ranks = {0, 1}
    Modes = {"replicated", "commit_sync", "writer_owned"}
    Plans <- FewPlans
    MaxRequests = 1
    MaxFaults = 1
CHECK_DEADLOCK FALSE
INVARIANTS RanksTogether OneWindowResident
PROPERTY EveryRankReturns
