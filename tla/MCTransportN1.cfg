SPECIFICATION TransportSpec
CONSTANTS
  cp = cp
  up = up
  w1 = w1
  w2 = w2
  Endpoint = {cp, up}
  Caller = {w1, w2}
  Home <- MCHome
  Request = {"request"}
  Response = {"response"}
  MaxSeqNum = 2
  MaxRetries <- MCMaxRetries
  Window = 1
  Unreachable = {up}
  NoCaller = NoCaller
  MaxInFlight = 1
  MaxDuplicates = 0
  MaxRestarts = 0
CHECK_DEADLOCK FALSE
INVARIANT
  RetransmittedN1Times
