SPECIFICATION Spec
CONSTANTS
    Limit = 5
    Tags = 1
    Base = 1
    Key = 2
    Factor = 1
    MaxLen = 3
CHECK_DEADLOCK FALSE
INVARIANT SummaryIsWritten
