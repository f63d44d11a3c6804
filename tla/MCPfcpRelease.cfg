CONSTANTS
  CPF = CPF
  UPF = UPF
  CpHb = CpHb
  UpMain = UpMain
  UpHb = UpHb
  NoCaller = NoCaller
  NoMsg = NoMsg
  ApiCaller <- MCApiCaller
  MaxCalls = 1
  MaxHeartbeats = 0
  MaxUpSessions = 2
  PeerMayRelease = TRUE
  SeqMax = 4
  N1 = 2
SPECIFICATION Spec
INVARIANT
  SessionsOwnedByAssociation
CHECK_DEADLOCK FALSE
