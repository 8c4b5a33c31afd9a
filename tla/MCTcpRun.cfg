SPECIFICATION FairSpec
CONSTANTS
    Requests <- MCRequests
    MaxCalls = 3
    Cap = 6
    Mortal = {"tr", "rcv"}
    RcvPassesArgs = FALSE
INVARIANTS
    TypeOK
    OctetsAligned
    BufferIntact
PROPERTIES
    SyncFailsOnlyAlone
    CallsReturn
    NobodyLeftBehind
    PromiseKept
