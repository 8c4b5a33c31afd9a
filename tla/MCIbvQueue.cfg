SPECIFICATION Spec
CONSTANTS
    Orders = {"initFirst"}
    Requests <- MCRequests
    Pattern <- MCPattern
    MaxWq = 5
    MaxCalls = 3
INVARIANTS
    QueueHasRoom
CHECK_DEADLOCK FALSE
