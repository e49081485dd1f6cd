SPECIFICATION Spec
CONSTANTS
    MaxLines <- FourAndOne
    PipeCap = 1
    RotSize = 2
    Evident = {"out", "err"}
    MaxPreLines = 0
    MinLog = 2
    MaxSearch = 3
    UserCode = 10
    PlatCode = 20
    DefaultCode = 255
CHECK_DEADLOCK FALSE
INVARIANTS
    TypeOK
    LossOnlyIfLate
    TailIsKept
    PostAfterOutput
    KnownFailureRecognised
PROPERTY ContractKept
