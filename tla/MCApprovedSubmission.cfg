SPECIFICATION Spec
CONSTANTS
    d1 = d1
    d2 = d2
    c1 = c1
    c2 = c2
    c3 = c3
    e1 = e1
    e2 = e2
    None = None
    Direct <- MCDirect
    Conversations <- MCConversations
    MaxClients = 3
    Employees <- MCEmployees
    StopSets <- MCStopSets
    ScopeSets <- MCScopeSets
SYMMETRY Symmetry
INVARIANTS
    RecordsAccountedFor
    CalmApprovalsTellTheTruth
PROPERTIES
    ImplementsThread
CHECK_DEADLOCK FALSE
