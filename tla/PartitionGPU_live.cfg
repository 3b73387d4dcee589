SPECIFICATION FairSpec
CONSTANTS
  GPUCount = 2
  ConfigProfiles <- AllProfiles
  MemoryModes <- TwoModes
  ComputeModes = {"SPX", "CPX"}
  Caps <- TwoModes
  Available <- Combos
  OneHive = FALSE
  NonGPUs = {1}
  kmmDriverEnabled = TRUE
  SmiMayFail = TRUE
  ReadsMayFail = TRUE
  ApiMayFail = TRUE
  MaxCalls = 3
INVARIANT TypeOK
INVARIANT SkippedNeverCommanded
INVARIANT OutcomeAsPromised
PROPERTY CallReturns
