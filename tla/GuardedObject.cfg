SPECIFICATION FairSpec
CONSTANTS
  Clients = {c1, c2}
  None = None
  MaxCalls = 4
  Item = {1, 2}
  NumberSize = 4
  Operand = {3}
INVARIANTS
  LockProtects
PROPERTIES
  Linearizable
  EveryCallReturns
CHECK_DEADLOCK FALSE
