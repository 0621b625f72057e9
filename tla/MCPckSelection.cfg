CONSTANTS
    Components = {1, 2}
    Svns = {0, 1, 2}
    MaxLevels = 4
    MaxInput = 5
SPECIFICATION Spec
INVARIANTS NeighboursDescend HigherNeverLater ChosenFromBestBucket BestOfComparable
CHECK_DEADLOCK FALSE
