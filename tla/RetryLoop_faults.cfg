SPECIFICATION Spec
CONSTANTS
  p1 = p1
  p2 = p2
  s1 = s1
  s2 = s2
  NoProfile = NoProfile
  Profiles = {p1, p2}
  Services = {s1}
  Configs <- ManyConfigs
  DBusMayFail = TRUE
  ApiMayFail = TRUE
  MaxRuns = 3
  MaxAttempts = 2
  MaxEdits = 1
  MaxFlips = 1
INVARIANT TypeOK
INVARIANT AtMostOneRetryPartition
INVARIANT CancelIsPrompt
INVARIANT StoppedIsRemembered
PROPERTY LabelsInTriggerOrder
PROPERTY ImplementsLatestJob
