SPECIFICATION Spec
CONSTANTS
    Libraries = {"shmem"}
    Requests <- FourOctets
    Pattern <- MCPattern
    MaxCalls = 1
INVARIANTS
    SizeIsRight
CHECK_DEADLOCK FALSE
