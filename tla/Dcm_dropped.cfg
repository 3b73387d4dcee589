SPECIFICATION DcmSpec
CONSTANTS
  p1 = p1
  p2 = p2
  s1 = s1
  NoProfile = NoProfile
  Profiles = {p1, p2}
  Services = {}
  Configs <- NoServiceConfig
  DBusMayFail = FALSE
  ApiMayFail = FALSE
  GetMayFail = FALSE
  MaxRuns = 4
  MaxAttempts = 1
  MaxEdits = 0
  MaxFlips = 0
  MaxRelabels = 3
  MaxCrashes = 0
INVARIANT SuccessIsForSelected
