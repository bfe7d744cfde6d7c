SPECIFICATION FairSpec
CHECK_DEADLOCK FALSE
CONSTANTS
    Shows = {1, 2, 3}
    Sequel <- MCSequel
    Versions <- MCVersions
    Procs = {"daemon", "cli"}
    Daemon = "daemon"
    MaxEvents = 2
INVARIANTS
    TypeOK
    TokenKept
    
PROPERTIES
    SyncIsExact
    
