SPECIFICATION FairSpec
CONSTANTS
  Threads = {w1, w2}
  Tasks = {a, b, c}
  NoTask = NoTask
INVARIANTS
  PoolInv
  NothingLeftBehind
PROPERTIES
  DestructorReturns
CHECK_DEADLOCK FALSE
