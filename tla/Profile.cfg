CONSTANTS
  MaxTick = 4
  MaxEvents = 4
  PhaseModulus = 4
  FullScale = 4
  SampleRate = 2
  MaxSeed = 2
  Den = 8
  MaxFrameLength = 3
  MaxFrameCount = 3
  MaxWords = 6
  Inputs <- MCInputs
  Others <- MCOthers
SPECIFICATION Spec
INVARIANTS CompilesExactly OutputAlwaysWhole RunsWhatIdentityNames TargetRefusesOnlyRounding
