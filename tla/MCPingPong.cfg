SPECIFICATION Spec
CONSTANTS
    Requests <- MCRequests
    MaxCalls = 3
INVARIANTS
    TypeOK
    InStep
    StreamAligned
    Lockstep
    TimingIsClean
    ResultsAgree
    ResultsAreFull
