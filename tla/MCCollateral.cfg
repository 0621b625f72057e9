CONSTANTS
    Jobs = {j1, j2}
    Nothing = Nothing
    PckCrls = {}
    Tcbs = {tcb, early}
    Standard = tcb
    Identities = {}
    Roots = {root}
    Crls = {}
    CacheModes = {"LAZY", "REQ", "OFFLINE"}
    Issues = {older, newer}
SPECIFICATION DocSpec
SYMMETRY Symmetry
INVARIANTS RefreshOkCoversAll RegistersAllOrNothing
PROPERTIES FillsOnlyMissing
CHECK_DEADLOCK FALSE
