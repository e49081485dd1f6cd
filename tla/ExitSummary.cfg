SPECIFICATION Spec
CONSTANTS
    Limit = 6
    Tags = 1
    Base = 1
    Key = 1
    Factor = 2
    MaxLen = 3
CHECK_DEADLOCK FALSE
INVARIANTS
    TypeOK
    SummaryFits
    LossOrder
    MatchIsKept
