SPECIFICATION Spec
CONSTANTS
    r1 = r1
    r2 = r2
    r3 = r3
    None = None
    AnyScope = "assistant:review"
    Requests <- MCRequests
    Actions <- MCActions
    Scope <- MCScope
    StopSets <- MCStopSets
    ScopeSets <- MCScopeSets
SYMMETRY Symmetry
INVARIANTS
    TypeOK
    WritesAuthorised
    CalmSingleUse
    CalmResumable
CHECK_DEADLOCK FALSE
