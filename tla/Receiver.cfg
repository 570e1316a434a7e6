CONSTANTS
  DataPackets = 2
  MaxPending = 2
  FlushEvery = 2
  WaitTimeout = 1
  IdleTimeout = 1
  EndGrace = 1
  MaxExtras = 2
SPECIFICATION FairSpec
CHECK_DEADLOCK FALSE
INVARIANTS VerdictIsExact BundleNeverLies
PROPERTY ReceiveEnds
