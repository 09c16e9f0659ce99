SPECIFICATION ExperimentSpec
CONSTANTS
  NumReqs = 4
  MaxOutstanding = 2
  WaitPoints = {2}
  DryRun = 2
  ExptLen = 2
  NsecPerSec = 2
  Delays = {3}
  MaxKills = 1
INVARIANTS
  PermitsConserved
  WaitedAreDone
  ExperimentInv
  OnlyKillsHang
PROPERTIES
  ImplementsLimit
  ExperimentEnds
CHECK_DEADLOCK FALSE
