CONSTANTS
    MaskBits = 12
    Machines <- MCMachines
    Expressions <- MCExpressions
SPECIFICATION Spec
INVARIANTS
    MaskIsUsable
    TiersPartition
    LowPowerAvailable
    LowPowerIsolated
    TermsCombine
    CacheIsOneLargest
