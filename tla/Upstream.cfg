SPECIFICATION FairSpec
CONSTANTS
    e1 = e1
    e2 = e2
    s1 = s1
    s2 = s2
    None = None
    Reqs = {e1, e2}
    Sessions = {s1, s2}
    MaxRestarts = 1
INVARIANTS
    StaleCostsOneRetry
    PoolIsLive
PROPERTIES
    KeepsPromise
    TlsRequestsEnd
CHECK_DEADLOCK FALSE
