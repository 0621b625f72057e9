CONSTANTS
    Jobs = {j1, j2}
    Raws = {r1}
    Tcbms = {t1}
    Ppids = {p1, p2}
    Manifests = {m1}
    None = None
    Found = Found
    Stray = Stray
    Modes = {"REQ"}
    Upstreams = {"PCS"}
    Interval = 1
    MaxTime = 0
SPECIFICATION Spec
INVARIANT FailedPostStaysQueued
CHECK_DEADLOCK FALSE
