SPECIFICATION FairSpec
CONSTANTS
    Requests <- TestRequests
    MaxCalls = 1
    Cap = 16
    Mortal = {"tr", "rcv"}
    RcvPassesArgs = FALSE
INVARIANTS
    ResultMeansBounced
