SPECIFICATION Spec
CONSTANTS
  Radix = 16
  IPv4 <- MCIPv4
  IPv6 <- MCIPv6
  ClientRequest <- MCClientRequest
  OtherMessage <- MCOtherMessage
  SeqNum <- MCSeqNum
  Packet <- MCPacket
  MaxDatagram = 227
  MaxMessages = 2
CHECK_DEADLOCK FALSE
INVARIANTS
  RoundTrip
  RulesDelivered
  PDRsKept
  
