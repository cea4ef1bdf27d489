CONSTANTS
    Keys = {k1, k2}
    MaxChecks = 3
    PriorityJob = FALSE
SPECIFICATION FairSpec
INVARIANTS
    NoLostWakeup
PROPERTIES
    OwedChecksAreDone
    ShutdownCompletes
CHECK_DEADLOCK FALSE
