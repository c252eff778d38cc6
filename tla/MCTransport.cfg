SPECIFICATION FairTransportSpec
CONSTANTS
  cp = cp
  up = up
  w1 = w1
  w2 = w2
  Endpoint = {cp, up}
  Caller = {w1, w2}
  Home <- MCHome
  Request = {"request"}
  Response = {"response"}
  MaxSeqNum = 2
  MaxRetries <- MCMaxRetries
  Window = 1
  Unreachable = {up}
  NoCaller = NoCaller
  MaxInFlight = 1
  MaxDuplicates = 1
  MaxRestarts = 1
CHECK_DEADLOCK FALSE
INVARIANTS
 TransportTypeOK
 SlotsMatchCalls
 OutcomeSound
 CopiesBounded
PROPERTY
  CallsReturn
  ImplementsRemoteCall
