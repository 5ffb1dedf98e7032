SPECIFICATION Spec
CONSTANTS
    Deliveries = {d1, d2}
    Capacity = 2
    Workers = {w1, w2}
    Schedulers = {s1}
    NoJob = NoJob
    BatchSize = 2
    MaxAttempts = 2
    Deletable = {d1, d2}
    MaxReplays = 1
    MaxFaults = 2
    Faults = {"query", "offer", "reply", "redis"}
    WorkerCrashPoints = {"claim", "read", "send", "complete"}
    SchedulerAbortPoints = {"reapUpdate", "release", "sweepFind", "checkWindow", "resetOrphans", "measureReady", "measureInFlight", "claimBatch", "publish", "resetRejected"}
SYMMETRY Symmetry
INVARIANT TypeOK
INVARIANT NoConcurrentSend
INVARIANT WindowBounded
INVARIANT OneSlotPerFault
PROPERTY ImplementsLifecycle
