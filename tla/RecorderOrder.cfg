CONSTANTS
  Shots = 3
  DataPackets = 1
  ShotEndTerminal = FALSE
  Window = 4
  MaxDamage = 3
  MaxExtras = 0
  MaxActive = 3
  MaxPending = 10
  FlushEvery = 1
  Faults = {"loss"}
SPECIFICATION FairSpec
CHECK_DEADLOCK FALSE
INVARIANTS ReorderingHarmless AcceptedRunHasNoGap LossIsContained
PROPERTY RunCloses
