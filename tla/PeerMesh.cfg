SPECIFICATION FairSpec
CONSTANTS
  Plans <- SmallPlans
  MaxFaults = 1
  Warmup = 1
  EndGuard = 1
  MaxReuse = 2
  Threshold = 3
  Distances = {0, 1}
\* A closed window takes no further step; WindowEnds finds every other stop.
CHECK_DEADLOCK FALSE
INVARIANTS ExchangesPair ReuseAgrees
PROPERTY WindowEnds
