CONSTANTS
    Targets = {t1, t2}
    Scheduler = Scheduler
    None = None
    Modes = {"LAZY", "OFFLINE"}
    Calls = {c1, c2}
SPECIFICATION FairSpec
PROPERTY EveryCallAnswered
CHECK_DEADLOCK FALSE
