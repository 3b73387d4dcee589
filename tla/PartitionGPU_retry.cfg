SPECIFICATION Spec
CONSTANTS
  GPUCount = 2
  ConfigProfiles <- UnsupportedProfile
  MemoryModes <- OneMode
  ComputeModes = {"SPX", "CPX"}
  Caps <- OneMode
  Available <- Combos
  OneHive = TRUE
  NonGPUs = {}
  kmmDriverEnabled = FALSE
  SmiMayFail = TRUE
  ReadsMayFail = FALSE
  ApiMayFail = FALSE
  MaxCalls = 1
INVARIANT UnsupportedIsNotRetried
