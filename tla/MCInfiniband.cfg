SPECIFICATION Spec
CONSTANTS
    Orders = {"hostFirst", "initFirst"}
    Requests <- MCRequests
    Pattern <- MCPattern
    MaxWq = 5
    MaxCalls = 3
INVARIANTS
    PairedWithPeer NothingLeaked ReceivedMeansArrived AimsAtLiveBuffer
PROPERTIES
    FailureEnds
CHECK_DEADLOCK FALSE
