SPECIFICATION Spec
CONSTANTS
    Deliveries = {d1, d2, d3}
    Capacity = 2
    Workers = {w1, w2}
    Schedulers = {s1}
    NoJob = NoJob
    BatchSize = 2
    MaxAttempts = 2
    Deletable = {}
    MaxReplays = 1
    MaxFaults = 2
    Faults = {"query", "offer"}
    WorkerCrashPoints = {"read", "send"}
    SchedulerAbortPoints = {"reapUpdate", "sweepFind", "checkWindow", "resetOrphans", "measureReady", "measureInFlight", "claimBatch", "publish", "resetRejected"}
SYMMETRY Symmetry
INVARIANT DedupeExact
INVARIANT SlotsComeBack
INVARIANT QueuedIsVisible
INVARIANT WaitingOutsideWindow
PROPERTY TerminalUntilReplayed
