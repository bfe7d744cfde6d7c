SPECIFICATION FairSpec
CONSTANTS
    Episodes = {1}
    Torrents = {"t1"}
    NoTorrent = "none"
    Questions = {1, 2}
    MaxJobs = 2
    MaxCrashes = 0
    MaxFailedCandidates = 2
    SearchConcurrency = 1
    ActiveDownloads = 1
    RemoveWhenFinished = FALSE
    MovesFiles = FALSE
    FullyAired = TRUE
    Batches = {}
    Large = {}
    Group <- MCGroup
    Flaky = {"metadata", "nyaa", "disk"}
    Answers <- NoAnswers
    UserActions = {"pause", "plan"}
PROPERTIES
    BlockedResumes
    
CHECK_DEADLOCK FALSE
