SPECIFICATION Spec
CONSTANTS
    Libraries = {"shmem"}
    Requests <- AlreadyThere
    Pattern <- MCPattern
    MaxCalls = 1
INVARIANTS
    ReceivedMeansArrived
CHECK_DEADLOCK FALSE
