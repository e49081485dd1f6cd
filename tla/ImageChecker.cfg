SPECIFICATION CheckerSpec
CONSTANT Job <- AllJobs
CHECK_DEADLOCK FALSE
INVARIANTS
    CheckerTypeOK
    FailsOnlyIfSure
    FoundIsThere
    Decided
