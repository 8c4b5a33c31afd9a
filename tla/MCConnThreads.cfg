SPECIFICATION Spec
CONSTANTS
    MaxResets = 0
    RcvFirst = FALSE
    OneInterpreter = TRUE
PROPERTY FirstPairing
CHECK_DEADLOCK FALSE
