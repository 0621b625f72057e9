CONSTANTS
    Reqs = {r1, r2}
    Keys = {k1, k2}
    Ocsp = {k2}
    Locks = {l1, l2}
    Modes = {"LAZY", "REQ", "OFFLINE"}
    NoLock = NoLock
    NoKey = NoKey
    Ttl = 1
    FailureTtl = 1
    MaxLocks = 1
    MaxMemos = 1
    MaxTime = 3
SPECIFICATION FairSpec
INVARIANTS OneFlightPerKey FetchOnlyWhatIsMissing FailureHidesNoRecord ExpiredNeverServed
PROPERTIES FreshNeverDropped EveryRequestEnds
