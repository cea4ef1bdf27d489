CONSTANTS
    i1 = i1
    i2 = i2
    i3 = i3
    Instances = {i1, i2}
    NoInstance = NoInstance
    PidOf <- MCPidOf
    ImageOf <- MCImageOf
    Ruled = {"a", "b"}
    MaxChecks = 1
    MaxGeneration = 1
    MaxWatchers = 2
SPECIFICATION FairSpec
INVARIANTS
    TypeOK
    NoProcessMissed
    EntryIsWatched
    StaleSignatureIsRescanned
    
PROPERTIES
    ExitedLeaves
CHECK_DEADLOCK FALSE
