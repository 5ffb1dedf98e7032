SPECIFICATION Spec
CONSTANTS
    Deliveries = {d1}
    Capacity = 1
    Workers = {w1, w2}
    Schedulers = {s1, s2}
    NoJob = NoJob
    BatchSize = 1
    MaxAttempts = 2
    Deletable = {}
    MaxReplays = 0
    MaxFaults = 1
    Faults = {}
    WorkerCrashPoints = {"send"}
    SchedulerAbortPoints = {}
INVARIANT NoConcurrentSend
