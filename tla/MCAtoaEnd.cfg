SPECIFICATION Spec
CONSTANTS
  N = 2
  Requests <- MCRequests
  MaxRuns = 2
PROPERTY ReceiversEnd
CHECK_DEADLOCK FALSE
