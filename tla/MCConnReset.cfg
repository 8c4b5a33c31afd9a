SPECIFICATION Spec
CONSTANTS
    MaxResets = 1
    RcvFirst = TRUE
    OneInterpreter = FALSE
PROPERTY ResetReconnects
CHECK_DEADLOCK FALSE
