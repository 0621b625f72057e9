CONSTANTS
    Kinds = {amd}
    Keys = {1, 2, 3}
    Caps = {0, 1, 2}
    UnitsPerSec = 2
    MaxLegacy = 1
    Horizon = 8
    MaxWrites = 6
SPECIFICATION Spec
INVARIANTS IndexConsistent OrderWithinRun IndexFollowsWriteOrder
PROPERTY FifoSpec
