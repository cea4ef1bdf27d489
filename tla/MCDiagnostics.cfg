CONSTANTS
    MaxRuns = 4
    Readers = {x1}
SPECIFICATION DiagnosticsSpec
INVARIANTS
    NothingLeftBehind
    PageIsMine
    
PROPERTIES
    StopEnds
CHECK_DEADLOCK FALSE
