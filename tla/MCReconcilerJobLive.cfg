CONSTANTS
    Keys = {k1}
    MaxChecks = 3
    PriorityJob = TRUE
SPECIFICATION FairSpec
PROPERTIES
    PendingServed
CHECK_DEADLOCK FALSE
