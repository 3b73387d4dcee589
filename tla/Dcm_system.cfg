SPECIFICATION DcmSpec
CONSTANTS
  p1 = p1
  p2 = p2
  s1 = s1
  NoProfile = NoProfile
  Profiles = {p1, p2}
  Services = {s1}
  Configs <- FileConfigs
  DBusMayFail = FALSE
  ApiMayFail = FALSE
  GetMayFail = TRUE
  MaxRuns = 4
  MaxAttempts = 1
  MaxEdits = 2
  MaxFlips = 0
  MaxRelabels = 1
  MaxCrashes = 1
INVARIANT DcmTypeOK
INVARIANT SelectedIsReported
INVARIANT NoReportFromTheDead
INVARIANT ConfigIsApplied
INVARIANT StoppedIsRemembered
PROPERTY ImplementsRestartableJob
