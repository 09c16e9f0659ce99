SPECIFICATION FairSpec
CONSTANTS
  NumReqs = 5
  MaxOutstanding = 2
  WaitPoints = {2, 5}
INVARIANTS
  PermitsConserved
  NoLostWakeup
  ListInv
  NoUseAfterFree
  LiveArgsBounded
  WaitedAreDone
PROPERTIES
  ImplementsLimit
  DriverFinishes
CHECK_DEADLOCK FALSE
