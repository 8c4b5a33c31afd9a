SPECIFICATION Spec
CONSTANTS
    Requests <- MCRequests
    Pattern <- MCPattern
    MaxWq = 5
    MaxCalls = 2
INVARIANTS
    SendFindsReceive
CHECK_DEADLOCK FALSE
