CONSTANTS
    Calls = {c1, c2, c3}
    Permits = 1
    MaxAttempts = 3
    MaxThrottled = 2
SPECIFICATION FairSpec
INVARIANTS PermitsConserved StormNotAmplified FailsOnlyAtTheEnd RetriesCounted
PROPERTIES EveryCallEnds
CHECK_DEADLOCK FALSE
