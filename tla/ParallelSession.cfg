SPECIFICATION FairSpec
CONSTANTS
    N = 4
    Jobs <- FourRankJobs
    MaxFaults = 1
    Owner = 1
    Plans <- SmallPlans
    Unusual = {0}
CHECK_DEADLOCK FALSE
INVARIANTS NothingLeaks RanksEndAlike
PROPERTY SessionEnds
