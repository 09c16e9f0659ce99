SPECIFICATION StartSpec
CONSTANTS
  WordBytes = 8
  HeaderWords = 4
  TypeNumbers <- MCTypeNumbers
  SizeNumbers <- MCSizeNumbers
  TestDbSize = 2
  HighDbSize = 2
  LowDbSize = 3
  TxnSz = 2
  NumFields = 2
  RandMax = 2
  NumRequests = 2
  RqstBufSz = 64
INVARIANTS
  OptionsReachLauncher
  WriteSetsDistinct
  CopyIsFaithful
PROPERTIES
  GenerationEnds
CHECK_DEADLOCK FALSE
