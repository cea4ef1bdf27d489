CONSTANTS
    Threads = {t1, t2, t3}
    MaxLost = 2
SPECIFICATION FairSpec
INVARIANTS
    OneReconciler
    MarkedWasScanned
    NoStrandedLoss
PROPERTIES
    LossReconciled
CHECK_DEADLOCK FALSE
