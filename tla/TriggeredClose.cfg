CONSTANTS
  MaxTriggers = 2
  Faults = {}
SPECIFICATION Spec
INVARIANT CloseCancels

