SPECIFICATION Spec
CONSTANTS
    r1 = r1
    r2 = r2
    r3 = r3
    r4 = r4
    e1 = e1
    e2 = e2
    None = None
    Requests <- MCRequests
    Employees <- MCEmployees
SYMMETRY Symmetry
INVARIANTS
    SubmittedWasReviewed
    AnswersAgree
    RememberedWasAudited
    CalmSingleSubmission
    CalmSubmittedIsRemembered
PROPERTIES
    ImplementsOutcome
CHECK_DEADLOCK FALSE
