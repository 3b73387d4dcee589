SPECIFICATION Spec
CONSTANTS
  GPUCount = 2
  ConfigProfiles <- UniformProfile
  MemoryModes <- TwoModes
  ComputeModes = {"SPX", "CPX"}
  Caps <- TwoModes
  Available <- Combos
  OneHive = TRUE
  NonGPUs = {}
  kmmDriverEnabled = TRUE
  SmiMayFail = TRUE
  ReadsMayFail = FALSE
  ApiMayFail = FALSE
  MaxCalls = 1
INVARIANT SuccessMeansPartitioned
