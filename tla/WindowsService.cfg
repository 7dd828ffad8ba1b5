CONSTANT MaxStarts = 3
SPECIFICATION FairSpec
INVARIANT NoOrphan
PROPERTY ServiceFollowsOec
\* The service may remain stopped.
CHECK_DEADLOCK FALSE
