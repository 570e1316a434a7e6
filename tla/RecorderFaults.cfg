CONSTANTS
  Shots = 2
  DataPackets = 2
  ShotEndTerminal = FALSE
  Window = 1
  MaxDamage = 2
  MaxExtras = 1
  MaxActive = 2
  MaxPending = 1
  FlushEvery = 1
  Faults = {"loss", "drop", "alter", "malform", "foreign", "io", "interrupt", "crash", "timeout"}
SPECIFICATION Spec
CHECK_DEADLOCK FALSE
INVARIANT PublishedExact
