SPECIFICATION Spec
CONSTANTS
    None = None
    Failed = Failed
    Answers <- MCAnswers
    Given <- MCGiven
    Normal <- MCNormal
    Limit = 1
INVARIANTS
    PartialResultsKept
    SensitiveStaysOut
    BestEventKept
CHECK_DEADLOCK FALSE
