SPECIFICATION FairSpec
CONSTANTS
  Radix = 16
  IPv4 <- MCIPv4
  IPv6 <- MCIPv6
  Establishment <- MCEstablishment
  MaxPort <- MCMaxPort
  MaxSessions = 2
  MaxCrashes = 1
INVARIANTS
  TypeOK
  PuntComplete
  FreshSEID
PROPERTY
  HandlerEnds
  ImplementsSessionTable
