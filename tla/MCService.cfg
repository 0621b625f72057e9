CONSTANTS
    Unset = Unset
    None = None
    c1 = c1
    c2 = c2
    Clients = {c1, c2}
    MayAsk <- MCMayAsk
    Files <- MCFiles
    Jsons <- MCJsons
    Lines <- MCLines
    Sha512 <- MCSha512
    UsizeMax = 2147483647
    DevUser = "du"
    DevAdmin = "da"
SPECIFICATION Spec
INVARIANTS FailsClosed KeptOnlyIfPublic CutOffOnlyByGrace
PROPERTIES ShutdownEnds
CHECK_DEADLOCK FALSE
