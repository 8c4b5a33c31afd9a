SPECIFICATION Spec
CONSTANTS
    Orders = {"hostFirst"}
    Requests <- MCRequests
    Pattern <- MCPattern
    MaxWq = 5
    MaxCalls = 1
PROPERTIES
    TransmitterConnects
CHECK_DEADLOCK FALSE
