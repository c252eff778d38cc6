SPECIFICATION Spec
CONSTANTS
  Radix = 16
  IPv4 <- MCIPv4
  IPv6 <- MCIPv6
  ClientRequest <- MCAddressed
  OtherMessage <- MCOtherMessage
  SeqNum <- MCSeqNum
  Packet <- MCPacket
  MaxDatagram = 227
  MaxMessages = 1
CHECK_DEADLOCK FALSE
INVARIANT
  FiveTupleMatched
