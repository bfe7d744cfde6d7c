SPECIFICATION Spec
CONSTANTS
    Shows = {"a", "b"}
    Editors = {"e1"}
    Edits <- MCEdits
    Resets <- MCResets
    Unset = Unset
    Torrents = {1, 2, 3, 4, 5, 6}
    Release <- MCRelease
    Show <- MCShow
    Hits <- MCHits
    BatchHits <- MCBatchHits
    Seeders <- MCSeeders
    PerName = 3
    StopAfter = 5
    RowLimit = 3
    RankLimit = 2
    Shown = 4
    score_threshold = 80
    score_margin = 15
    min_episode_mb = 100
    max_episode_mb = 2560
    max_batch_mb = 200000
    MaxSearches = 2
INVARIANTS
    CheckedRulesValid
PROPERTIES
    
    NotFoundIsReal
CHECK_DEADLOCK FALSE
