SPECIFICATION Spec
CONSTANTS
  rmw = rmw
  put = put
  expect = expect
  noop = noop
  NoTxn = NoTxn
  Sched = Sched
  Txns <- MCTxns
  Program <- MCProgram
  Executors = {Sched}
  Key = {0, 1, 2}
  InitKeys = {0, 1}
  StaleStopped = {FALSE}
INVARIANT CompletedNotDecided
CHECK_DEADLOCK FALSE
