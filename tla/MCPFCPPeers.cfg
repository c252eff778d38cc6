SPECIFICATION FairSpec
CONSTANTS
  CP = CP
  HB = HB
  NoCaller = NoCaller
  NoRules = NoRules
  w1 = w1
  u1 = u1
  Worker = {w1}
  UP = {u1}
  Endpoint = {CP, u1}
  Caller = {w1, HB, u1}
  Home <- MCHome
  Rules = {"punt"}
  Request <- RequestBody
  Response <- ResponseBody
  MaxSeqNum = 3
  MaxRetries <- MCMaxRetries
  N1 = 2
  MaxRequests <- MCMaxRequests
  CPRequests = 2
  UPRequests = 2
  Window = 2
  Unreachable = {u1}
  MaxSEID = 1
  MaxInFlight = 20
  MaxDuplicates = 0
  MaxRestarts = 0
CHECK_DEADLOCK FALSE
INVARIANTS
  CauseIsAnswer
  AssociationAgreed
  SessionCopiesBounded
  SessionBacked
PROPERTY
  GRPCCallsReturn
  StartDecides
  TransportSpec
