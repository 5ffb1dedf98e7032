SPECIFICATION FairSpec
CONSTANTS
    Workers = {k1, k2}
    Roles = {"api", "scheduler", "worker", "all"}
    MaxRequests = 2
    MaxBatches = 2
    Accidents = {"watchdog", "close"}
INVARIANT TypeOK
INVARIANT ClosedMeansIdle
INVARIANT OneJobAfterStop
INVARIANT PromptBetweenTicks
PROPERTY ShutdownEnds
CHECK_DEADLOCK FALSE
