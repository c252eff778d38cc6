SPECIFICATION Spec
CONSTANTS
  Radix = 16
  IPv4 <- MCIPv4
  IPv6 <- MCIPv6
  Establishment <- MCReadmeExample
  MaxPort <- MCMaxPort
  MaxSessions = 2
  MaxCrashes = 0
INVARIANT
  NoPuntWithoutSession
