SPECIFICATION Spec
CONSTANTS
  GPUCount = 2
  ConfigProfiles <- AllSkippedProfile
  MemoryModes <- TwoModes
  ComputeModes = {"SPX", "CPX"}
  Caps <- TwoModes
  Available <- Combos
  OneHive = FALSE
  NonGPUs = {}
  kmmDriverEnabled = FALSE
  SmiMayFail = FALSE
  ReadsMayFail = FALSE
  ApiMayFail = FALSE
  MaxCalls = 1
INVARIANT NoPanic
