SPECIFICATION Spec
CONSTANTS
  NumReqs = 3
  MaxOutstanding = 1
  WaitPoints = {3}
INVARIANT OutstandingAtMostMax
CHECK_DEADLOCK FALSE
