CONSTANTS
    Jobs = {j1, j2}
    Raws = {r1, r2}
    Tcbms = {t1, t2}
    Ppids = {p1}
    Manifests = {m1}
    None = None
    Found = Found
    Stray = Stray
    Modes = {"LAZY", "REQ", "OFFLINE"}
    Upstreams = {"PCS", "PCCS"}
    Interval = 1
    MaxTime = 1
SPECIFICATION Spec
SYMMETRY Symmetry
INVARIANT RowsMatchPool
PROPERTIES LevelsNeverLost CredentialsChangeByRegistration ServedFromCurrentPool RefetchesSpaced
CHECK_DEADLOCK FALSE
