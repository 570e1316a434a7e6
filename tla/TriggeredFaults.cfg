CONSTANTS
  MaxTriggers = 2
  Faults = {"reset", "submit", "arm", "drain", "status", "dma", "signal"}
SPECIFICATION Spec
INVARIANTS ReleasedMeansQuiet CompletionIsCurrent
PROPERTY WaitOkMeansShot
