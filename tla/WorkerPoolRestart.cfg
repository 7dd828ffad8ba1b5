CONSTANTS
    Workers = {w1, w2, w3}
    Submitters = {s1, s2}
    Jobs = {j1, j2, j3}
    NoJob = NoJob
    MaxNumberOfWorker = 2
    MinNumberOfWorker = 2
    QueueSize = 1
    MaxStarts = 2
SPECIFICATION Spec
PROPERTY RefinesJobPoolSafety
\* After a second Start the process may end in a panic.
CHECK_DEADLOCK FALSE
