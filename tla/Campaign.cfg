SPECIFICATION Spec
CONSTANTS
  Points = 2
  MaxFaults = 2
  MaxLaunches = 1
INVARIANTS ManifestBelongs PassIsEarned
PROPERTIES ToolsCleanUp SweepFinishes
