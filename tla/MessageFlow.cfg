CONSTANTS
    Messages = {m1, m2}
    Foreign = {m2}
    MaxDeliveries <- ForeignOnce
    MaxNumberOfWorker = 2
    MaxNumberOfMessages = 3
    MaxCrashes = 1
SPECIFICATION FairSpec
INVARIANTS
    TypeOK
    HandledOnlyDeleted
    NoDuplicateWithoutTimeout
    InFlightHasKeeper
    ExitLeavesNothing
PROPERTY StopEnds
\* The process exits.
CHECK_DEADLOCK FALSE
