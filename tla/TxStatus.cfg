SPECIFICATION FairSpec
CONSTANTS
  Frames = {1, 2, 3}
  NoFrame = 0
  Queues = {q1, q2}
  NPid = 1
  MaxSta = 2
INVARIANTS
  HandedOverOnce
  IdsAndFramesAgree
  StatusFitsItsFrame
  RemovedStationIsGone
PROPERTIES
  FrameIsHandedOver
CHECK_DEADLOCK FALSE
