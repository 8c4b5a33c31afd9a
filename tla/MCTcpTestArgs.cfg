SPECIFICATION FairSpec
CONSTANTS
    Requests <- TestRequests
    MaxCalls = 1
    Cap = 16
    Mortal = {}
    RcvPassesArgs = TRUE
PROPERTIES
    NobodyFailsWhileBothUp
