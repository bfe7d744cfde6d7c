SPECIFICATION Spec
CONSTANTS
    Episodes = {1}
    Torrents = {"t1"}
    NoTorrent = "none"
    Questions = {1, 2}
    MaxJobs = 1
    MaxCrashes = 1
    MaxFailedCandidates = 2
    SearchConcurrency = 1
    ActiveDownloads = 1
    RemoveWhenFinished = FALSE
    MovesFiles = FALSE
    FullyAired = TRUE
    Batches = {}
    Large = {}
    Group <- MCGroup
    Flaky = {}
    Answers <- NoAnswers
    UserActions = {}
INVARIANTS
    ReconcileResumes
