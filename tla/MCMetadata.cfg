SPECIFICATION FairSpec
CONSTANTS
    Shows = {1, 2}
    Watching = {2}
    Procs = {"daemon", "other"}
    Daemon = "daemon"
    MaxCount = 1
    MaxEvents = 2
INVARIANTS
    TypeOK
    ClaimExclusive
PROPERTIES
    MetadataArrives
