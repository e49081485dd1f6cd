SPECIFICATION Spec
CONSTANTS
    Char = {"x", "y", "n", "r"}
    Contents <- MCContents
    MaxSize = 6
    MaxLines = 5
    MaxLen = 9
CHECK_DEADLOCK FALSE
INVARIANTS
    MatchIsShown
    ReportIsContiguous
    PanicNeedsLongOrCR
