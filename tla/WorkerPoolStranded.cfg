CONSTANTS
    Workers = {w1, w2}
    Submitters = {s1}
    Jobs = {j1, j2}
    NoJob = NoJob
    MaxNumberOfWorker = 2
    MinNumberOfWorker = 0
    QueueSize = 1
    MaxStarts = 1
SPECIFICATION Spec
INVARIANT StopDrained
