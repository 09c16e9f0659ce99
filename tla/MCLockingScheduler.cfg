SPECIFICATION FairSpec
CONSTANTS
  t1 = t1
  t2 = t2
  t3 = t3
  w1 = w1
  w2 = w2
  NoTxn = NoTxn
  NoTask = NoTxn
  Sched = Sched
  Txns <- ThreeTxns
  Tasks <- ThreeTxns
  Program <- MCProgram
  Threads <- MCThreads
  Executors = {Sched, w1, w2}
  Key = {0, 1, 2}
  InitKeys = {0, 1, 2}
  StaleStopped = {FALSE}
INVARIANTS
  LockingInv
  ResultsAreDecided
  NoUseWhenDrained
  UnconflictedAsIfAlone
PROPERTIES
  AllAnswered
  DestructorReturns
CHECK_DEADLOCK FALSE
