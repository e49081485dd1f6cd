SPECIFICATION Spec
CONSTANTS
    Instances = {a, b, c}
    Ignores = {c}
    RETRY_INTERVAL = 60
    Minutes = 1
CHECK_DEADLOCK FALSE
INVARIANTS
    TypeOK
    NobodyGoesFirst
    GivesUpAfterAllRounds
PROPERTY BarrierEnds
