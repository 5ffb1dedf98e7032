SPECIFICATION Spec
CONSTANTS
    Deliveries = {d1}
    Capacity = 1
    Workers = {w1}
    Schedulers = {s1}
    NoJob = NoJob
    BatchSize = 1
    MaxAttempts = 2
    Deletable = {}
    MaxReplays = 0
    MaxFaults = 2
    Faults = {}
    WorkerCrashPoints = {"send"}
    SchedulerAbortPoints = {}
INVARIANT ExhaustedIsSettled
