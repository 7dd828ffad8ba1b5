CONSTANTS
    Senders = {s1}
    maxRetryCount = 5
    Statuses = {202, 403, 429, 503}
SPECIFICATION FairSpec
INVARIANT RetriesAreBounded
PROPERTY SenderEnds
\* The results have been sent.
CHECK_DEADLOCK FALSE
