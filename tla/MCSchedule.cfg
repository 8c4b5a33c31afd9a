SPECIFICATION FairSpec
CONSTANTS
    Times <- MCTimes
    STOPTM = 500000
    RUNTM = 100000
    TRIALS = 3
    IntMax = 4095
    MaxN = 60
INVARIANTS TypeOK Nearby
PROPERTIES Increasing SweepEnds
CHECK_DEADLOCK FALSE
