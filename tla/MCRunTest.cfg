SPECIFICATION TestSpec
CONSTANTS
  r1 = r1
  r2 = r2
  r3 = r3
  NoOwner = NoOwner
  Requests <- MCRequests
  Executors <- MCRequests
  Order <- MCOrder
  NumRecords = 3
  NumFields = 2
  NumWrites = 2
  WordSize = 4
  RandomWords = {3}
  Updates <- MCUpdates
INVARIANTS
  ExecuteInv
  NoLostUpdate
  OrderedWaiting
  DeadlockFree
  DatabasesMatch
PROPERTIES
  Serializable
  TestEnds
CHECK_DEADLOCK FALSE
