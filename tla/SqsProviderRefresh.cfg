CONSTANTS
    Callers = {p, w1, w2}
    Poller = p
    MaxRefreshes = 2
SPECIFICATION FairSpec
INVARIANTS
    TypeOK
    FlagMeansExpired
PROPERTIES
    RefreshEnds
    ExpirationNoticed
