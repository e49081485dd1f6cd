SPECIFICATION CheckerSpec
CONSTANT Job <- AllJobs
CHECK_DEADLOCK FALSE
INVARIANT OnlyIfSure
