SPECIFICATION InstallSpec
INVARIANTS
    PublishedEventIsOpen
    StoppedIsClean
    NoCallbackAfterShutdown
    ReplacementIsClean
PROPERTIES
    StatusNeverGoesBack
    StopHonoured
    InstallEnds
CHECK_DEADLOCK FALSE
