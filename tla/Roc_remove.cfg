SPECIFICATION RocFairSpec
CONSTANT MaxRocs = 2
CHECK_DEADLOCK FALSE
PROPERTIES
  StaRemoveReturns
