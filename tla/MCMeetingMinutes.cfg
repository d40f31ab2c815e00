SPECIFICATION Spec
CONSTANTS
    r1 = r1
    r2 = r2
    r3 = r3
    None = None
    MaxRequests = 6
    Requests <- MCRequests
SYMMETRY Symmetry
INVARIANTS
    MailedWasApproved
    QuotableWasApproved
    CalmSentIsMailed
PROPERTIES
    ImplementsOutcome
CHECK_DEADLOCK FALSE
