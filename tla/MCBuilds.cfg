SPECIFICATION Spec
CONSTANTS
    Orders <- MCOrders
    Requests <- MCRequests
    Pattern <- MCPattern
    MaxCalls = 3
    MaxRuns = 2
    Ranks = 3
    Repeats <- MCRepeats
    Addr <- MCAddr
    MaxAllocs = 3
    Addresses <- MCAddresses
    CopySizes <- MCCopySizes
    Sizes <- MCSizes
    Arrivals <- MCArrivals
INVARIANTS
    ReceivedMeansArrived NoMessageLost NrepeatIsRight LandsInItsBuffer RanksInStep
    RemoteIsPartner EachOctetOnce PatternsDiffer ReportsExactly
PROPERTY RunEnds
CHECK_DEADLOCK FALSE
