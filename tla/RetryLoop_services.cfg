SPECIFICATION FairSpec
CONSTANTS
  p1 = p1
  p2 = p2
  s1 = s1
  s2 = s2
  NoProfile = NoProfile
  Profiles = {p1}
  Services = {s1, s2}
  Configs <- TwoLists
  DBusMayFail = TRUE
  ApiMayFail = FALSE
  MaxRuns = 3
  MaxAttempts = 2
  MaxEdits = 1
  MaxFlips = 1
INVARIANT ServicesStoppedDuringPartition
INVARIANT NoServiceLeftStopped
PROPERTY ServicesAreRestored
