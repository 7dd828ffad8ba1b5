CONSTANTS
    Workers = {w1, w2, w3}
    Submitters = {s1, s2}
    Jobs = {j1, j2, j3}
    NoJob = NoJob
    MaxNumberOfWorker = 2
    MinNumberOfWorker = 1
    QueueSize = 1
    MaxStarts = 1
SPECIFICATION FairSpec
INVARIANTS
    TypeOK
    CountersExact
    WorkerBounds
    ExactlyOnce
    NoStrandedJob
    StopDrained
    NoPanicBeforeRestart
PROPERTY RefinesJobPool
