SPECIFICATION Spec
CONSTANTS
    Episodes = {1}
    Torrents = {"t1", "t2"}
    NoTorrent = "none"
    Questions = {1, 2}
    MaxJobs = 1
    MaxCrashes = 1
    MaxFailedCandidates = 2
    SearchConcurrency = 1
    ActiveDownloads = 1
    RemoveWhenFinished = TRUE
    MovesFiles = TRUE
    FullyAired = TRUE
    Batches = {}
    Large = {"t2"}
    Group <- MCGroup
    Flaky = {"qbit"}
    Answers <- Offered
    UserActions = {"remove"}
INVARIANTS
    TypeOK
    BlockedReturns
    MonitorHasTorrent
    RetryBudget
    
CHECK_DEADLOCK FALSE
