SPECIFICATION FairSpec
CONSTANTS
    Candidates = 2
    Size = 2
    Timeout = 4
    Quick = 3
    Poll = 2
    MaxCrashes = 1
PROPERTIES
    
    LaunchIsNoStall
    StartedSettles
