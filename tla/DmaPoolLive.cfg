CONSTANTS
  MaxBanks = 2
  MaxRuns = 1
  MaxTriggers = 3
  Faults = {"drain"}
SPECIFICATION FairSpec
PROPERTIES StopCompletes FreeBankIsArmed AcceptedShotDelivered
