SPECIFICATION SearchSpec
CONSTANT SpecFiles <- MCSpecFiles
CHECK_DEADLOCK FALSE
INVARIANTS
    SearchTypeOK
    FirstMatchDecides
    ReportsOwnMatch
