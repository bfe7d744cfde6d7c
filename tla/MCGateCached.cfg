SPECIFICATION Spec
CONSTANTS
    Calls = {"c1", "c2"}
    Keys = {"k1"}
    Threshold = 2
    Cooldown = 3
    TTL = 4
    MaxAttempts = 2
INVARIANTS
    ProbeHasOwner
