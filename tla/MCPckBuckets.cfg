CONSTANTS
    Components = {1, 2}
    Svns = {0, 1, 2}
    MaxLevels = 1
    MaxInput = 5
SPECIFICATION Spec
INVARIANT BucketsDescend
CHECK_DEADLOCK FALSE
