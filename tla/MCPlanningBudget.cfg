SPECIFICATION AgentSpec
CONSTANTS
    MaxDelegations = 2
    MaxPlanUpdates = 1
    MaxParallel = 2
    RecursionLimit = 2
    MaxInvocations = 2
    MaxSummaries = 1
INVARIANTS
    OvershootBounded
PROPERTIES
    ReplanBeforeDelegation
CHECK_DEADLOCK FALSE
