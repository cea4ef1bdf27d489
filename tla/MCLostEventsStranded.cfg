CONSTANTS
    Threads = {t1, t2}
    MaxLost = 2
SPECIFICATION Spec
INVARIANTS
    NothingStranded
CHECK_DEADLOCK FALSE
