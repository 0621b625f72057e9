CONSTANTS
    Targets = {t1, t2}
    Scheduler = Scheduler
    None = None
    Modes = {"LAZY", "OFFLINE"}
    Calls = {c1, c2, c3}
SPECIFICATION FairSpec
INVARIANTS OneLeaderPerTarget SharesUnlessLeft
PROPERTIES AnsweredUnlessLeft
CHECK_DEADLOCK FALSE
