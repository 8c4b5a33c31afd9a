SPECIFICATION Spec
CONSTANTS
    Libraries = {"shmem"}
    Requests <- FourOctets
    Pattern <- MCPattern
    MaxCalls = 1
PROPERTIES
    RecvDataReturns
CHECK_DEADLOCK FALSE
