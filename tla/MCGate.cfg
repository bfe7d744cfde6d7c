SPECIFICATION FairSpec
CONSTANTS
    Calls = {"c1", "c2", "c3"}
    Keys = {"k1"}
    Threshold = 2
    Cooldown = 3
    TTL = 2
    MaxAttempts = 2
INVARIANTS
    TypeOK
    ProbeHasOwner
PROPERTIES
    ServiceRecovers
    CallsEnd
