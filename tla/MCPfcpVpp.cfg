CONSTANTS
  Requests <- MCRequests
  MaxMsgs = 4
  MaxPuntCalls = 2
INIT Init
NEXT Next
INVARIANTS
  VppTypeOK
  VppStateOnlyForLiveSessions
  PuntRegMeansRegistered
  AcceptedRulesStored
CHECK_DEADLOCK FALSE
