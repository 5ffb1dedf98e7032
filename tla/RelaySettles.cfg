SPECIFICATION FairSpec
CONSTANTS
    Deliveries = {d1, d2}
    Capacity = 1
    Workers = {w1, w2}
    Schedulers = {s1}
    NoJob = NoJob
    BatchSize = 1
    MaxAttempts = 2
    Deletable = {}
    MaxReplays = 0
    MaxFaults = 2
    Faults = {"query", "offer", "reply", "redis"}
    WorkerCrashPoints = {"read", "send"}
    SchedulerAbortPoints = {"reapUpdate", "sweepFind", "checkWindow", "resetOrphans", "measureReady", "measureInFlight", "claimBatch", "publish", "resetRejected"}
PROPERTY EventuallySettled
