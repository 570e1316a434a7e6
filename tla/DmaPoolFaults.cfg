CONSTANTS
  MaxBanks = 2
  MaxRuns = 2
  MaxTriggers = 2
  Faults = {"reset", "submit", "arm", "drain", "status", "dma", "signal"}
SPECIFICATION Spec
INVARIANTS TypeOK CountsExact UnreadDataIntact TokensExact DmaOwnsFilling
PROPERTIES NeverResetUnderDma ImplementsQueue
