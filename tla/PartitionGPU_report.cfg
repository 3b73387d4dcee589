SPECIFICATION Spec
CONSTANTS
  GPUCount = 2
  ConfigProfiles <- SomeProfiles
  MemoryModes <- TwoModes
  ComputeModes = {"SPX", "CPX"}
  Caps <- TwoModes
  Available <- Combos
  OneHive = TRUE
  NonGPUs = {}
  kmmDriverEnabled = FALSE
  SmiMayFail = TRUE
  ReadsMayFail = FALSE
  ApiMayFail = FALSE
  MaxCalls = 3
INVARIANT SuccessMeansPartitioned
INVARIANT ReportIsConsistent
INVARIANT IndexSafety
