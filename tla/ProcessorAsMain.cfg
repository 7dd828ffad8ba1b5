CONSTANTS
    Urls = {u1, u2}
    MaxQueues = 2
    Periods = {1}
    Jobs = {j1}
    GitJobs = {j1}
    MaxNumberOfWorker = 1
SPECIFICATION FairSpec
INVARIANTS
    TypeOK
    NoStrayPoller
    PoolOutlivesPollers
    PollersFollowToken
    CredentialsFollowToken
    ScriptsFindRepository
    PositivePeriodsNeverPanic
PROPERTY StopEnds
\* The process exits.
CHECK_DEADLOCK FALSE
