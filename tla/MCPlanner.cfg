SPECIFICATION FairSpec
CONSTANTS
    Shows = {"s1", "s2"}
    Chains <- MCChains
    Totals <- MCTotals
    AutoPlan = {"s2"}
    PreferBatch = {"s2"}
    Asked <- MCAsked
    List <- MCList
    Watched = {"s1"}
    Commands = {"cli"}
    DailyCap = 1
    FirstCap = 1
    Week = 1
    MaxEpisode = 2
    Finds = 2
    MaxAsks = 1
    MaxKills = 1
INVARIANTS
    TypeOK
    
    FirstSyncConfirmed
    MissingHasJob
    DailyCapHolds
PROPERTIES
    NextIsQueued
