SPECIFICATION FairSpec
CONSTANTS
    t1 = t1
    t2 = t2
    w1 = w1
    w2 = w2
    None = None
    Tasks <- MCTasks
    Unhandled <- MCUnhandled
    Workers <- MCWorkers
    MaxAttempts = 3
    Lease = 4
    Timeout = 2
    Slack = 1
    RetryDelay = 2
    AckLoss = TRUE
    MaxCrashes = 1
INVARIANTS
    OneWorkerPerTask
    WorkerOwnsItsRow
    AttemptsBounded
    CancelledMeansRequested
PROPERTIES
    TerminalIsFinal
    ImplementsLifecycle
    EventuallyFinished
