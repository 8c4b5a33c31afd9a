SPECIFICATION FairSpec
CONSTANTS
    Requests <- SignalRequests
    MaxCalls = 2
    Cap = 16
    Mortal = {}
    RcvPassesArgs = FALSE
INVARIANTS
    ExitSignalHonoured
