CONSTANTS
  Requests <- MCRequests
  MaxMsgs = 3
  MaxPuntCalls = 2
INIT Init
NEXT Next
INVARIANT AcceptedSessionInstalled
CHECK_DEADLOCK FALSE
