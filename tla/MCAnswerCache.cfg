SPECIFICATION Spec
CONSTANTS
    c1 = c1
    c2 = c2
    None = None
    Calls <- MCCalls
    Questions <- MCQuestions
    Queries <- MCQueries
    Trimmed <- MCTrimmed
    MaxCalls = 3
    Ttl = 2
    Timeout = 1
INVARIANTS
    KeptApart
    AgeBounded
    BadNewsIsFresh
PROPERTIES
    KnowledgeEnds
CHECK_DEADLOCK FALSE
