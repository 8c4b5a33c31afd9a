SPECIFICATION Spec
CONSTANTS
    N = 3
    AsyncReceive = FALSE
    Repeats <- MCRepeats
    MaxRuns = 1
PROPERTIES
    RunEnds
CHECK_DEADLOCK FALSE
