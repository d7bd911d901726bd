CONSTANTS
    AttentionCalls <- MCAttentionCalls
    ShardCalls <- MCShardCalls
    Networks <- MCNetworks
    TileRequests <- MCTileRequests
    TimeTileRequests <- MCTimeTileRequests
    Topologies <- MCTopologies
    GuidanceSteps <- MCGuidanceSteps
    Servers <- MCServers
    WindowJobs <- MCWindowJobs
    Schedules <- MCSchedules
    TextCalls <- MCTextCalls
    Plans <- MCPlans
SPECIFICATION Spec
CHECK_DEADLOCK FALSE
INVARIANTS AttentionIsPlain VaeIsPlain GroupsWork AdmissionIsHonest WindowsExact TextBelongs
