CONSTANTS
    Messages = {m1}
    Foreign = {}
    MaxDeliveries <- OnceEach
    MaxNumberOfWorker = 1
    MaxNumberOfMessages = 1
    MaxCrashes = 0
SPECIFICATION Spec
INVARIANT GracefulStop
\* The process exits.
CHECK_DEADLOCK FALSE
