SPECIFICATION RocFairSpec
CONSTANT MaxRocs = 3
CHECK_DEADLOCK FALSE
INVARIANTS
  RocNeverForgotten
PROPERTIES
  RocEnds
