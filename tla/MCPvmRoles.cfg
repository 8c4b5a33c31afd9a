SPECIFICATION Spec
CONSTANTS
    Orders = {"hostFirst"}
    Others = {}
    Requests <- MCRequests
    MaxCalls = 1
PROPERTIES
    ReceiverIsTold
CHECK_DEADLOCK FALSE
