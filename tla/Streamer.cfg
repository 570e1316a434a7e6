CONSTANTS
  Banks = 2
  Shots = 3
  PerShot = 2
  Faults = {"start", "thread", "sequence", "dma", "timeout", "evidence", "send", "stop", "signal"}
SPECIFICATION FairSpec
CHECK_DEADLOCK FALSE
INVARIANTS WireInOrder CleanEndMeansAll NoTriggerMissed
PROPERTY RunEnds
