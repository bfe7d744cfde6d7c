SPECIFICATION Spec
CONSTANTS
    Episodes = {1, 2}
    Torrents = {"t1", "b1"}
    NoTorrent = "none"
    Questions = {1, 2}
    MaxJobs = 3
    MaxCrashes = 1
    MaxFailedCandidates = 1
    SearchConcurrency = 1
    ActiveDownloads = 1
    RemoveWhenFinished = FALSE
    MovesFiles = FALSE
    FullyAired = FALSE
    Batches = {"b1"}
    Large = {}
    Group <- MCGroup
    Flaky = {}
    Answers <- NoAnswers
    UserActions = {}
INVARIANTS
    BudgetRespected
    NoOrphanTorrent

    
CHECK_DEADLOCK FALSE
