SPECIFICATION FairSpec
CHECK_DEADLOCK FALSE
CONSTANTS
    Jobs = {"single", "batch"}
    Episodes = {1, 2, 3}
    Own <- MCOwn
    Holds <- MCHolds
    Dirs = {"title", "renamed"}
    Default = "title"
    Modes <- MCModes
    MaxEvents = 2
INVARIANTS
    TypeOK
    SingleOwnsWhole
    IdentityKept

    
    
    
