SPECIFICATION Spec
CONSTANTS
    MaxResets = 5
    RcvFirst = TRUE
    OneInterpreter = FALSE
INVARIANTS TypeOK SameConnection
PROPERTIES NeverTurnedAway FirstPairing CleanUpEnds
CHECK_DEADLOCK FALSE
