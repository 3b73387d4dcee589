SPECIFICATION FairSpec
CONSTANTS
  Watchers = {"watcher"}
  Values <- OneValue
  ApiMayFail = TRUE
  InitMayFail = TRUE
  MaxTries = 2
  MaxAdds = 1
  MaxForeign = 1
  MaxRestarts = 1
INVARIANT K8sTypeOK
INVARIANT ForeignLabelsKept
INVARIANT GivesUpOnlyIfDisturbed
INVARIANT NoInitRace
PROPERTY CallsReturn
PROPERTY ImplementsLabelStore
