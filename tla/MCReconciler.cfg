CONSTANTS
    Keys = {k1, k2, k3}
    MaxChecks = 3
    PriorityJob = TRUE
SPECIFICATION Spec
SYMMETRY KeySymmetry
INVARIANTS
    TypeOK
    WakeIsBacked
    NoIdleTimer
PROPERTIES
    NoDeadlineReset
    DisabledIsFinal
    ImplementsBoundedChecks
CHECK_DEADLOCK FALSE
