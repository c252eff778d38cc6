SPECIFICATION Spec
CONSTANTS
  CP = CP
  HB = HB
  NoCaller = NoCaller
  NoRules = NoRules
  w1 = w1
  w2 = w2
  u1 = u1
  Worker = {w1, w2}
  UP = {u1}
  Endpoint = {CP, u1}
  Caller = {w1, w2, HB, u1}
  Home <- MCHome
  Rules = {"punt"}
  Request <- RequestBody
  Response <- ResponseBody
  MaxSeqNum = 4
  MaxRetries <- MCMaxRetries
  N1 = 1
  MaxRequests <- MCMaxRequests
  CPRequests = 2
  UPRequests = 1
  Window = 3
  Unreachable = {}
  MaxSEID = 2
  MaxInFlight = 20
  MaxDuplicates = 1
  MaxRestarts = 1
CHECK_DEADLOCK FALSE
CONSTRAINT OneFault
SYMMETRY WorkerSymmetry
INVARIANTS
  SEIDsUnique
  StoreFollowsSessions
  CauseIsAnswer
  AssociationAgreed
  SessionCopiesBounded
