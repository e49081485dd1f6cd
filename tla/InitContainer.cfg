SPECIFICATION Spec
CONSTANTS
    N = 2
    MaxRuns = 3
    d1 = d1
    d2 = d2
    d3 = d3
    DirNames = {d1, d2, d3}
SYMMETRY DirSymmetry
CHECK_DEADLOCK FALSE
INVARIANTS
    TypeOK
    WorkspaceIsFresh
    TeardownMirrorsSetup
PROPERTY NoLogIsLost
