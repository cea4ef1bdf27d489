CONSTANTS
    i1 = i1
    i2 = i2
    i3 = i3
    Instances = {i1}
    NoInstance = NoInstance
    PidOf <- MCPidOf
    ImageOf <- MCImageOf
    Ruled = {"a", "b"}
    MaxChecks = 3
    MaxGeneration = 1
    MaxWatchers = 2
SPECIFICATION FairSpec
PROPERTIES
    SaturationIsFinal
CHECK_DEADLOCK FALSE
