SPECIFICATION FairSpec
CONSTANTS
  Radix = 16
  IPv4 <- MCIPv4
  IPv6 <- MCIPv6
  Establishment <- MCLastPort
  MaxPort <- MCMaxPort
  MaxSessions = 2
  MaxCrashes = 0
PROPERTY
  HandlerEnds
