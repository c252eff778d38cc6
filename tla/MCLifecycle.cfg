SPECIFICATION FairSpec
CONSTANTS
  Worker = {w1, w2}
  MaxTargets = 2
  MaxInbox = 2
CHECK_DEADLOCK FALSE
INVARIANTS
  TypeOK
  NoCallCutOff
  StopIsQuiet
  OneLateDatagram
PROPERTY
  ShutdownCompletes
