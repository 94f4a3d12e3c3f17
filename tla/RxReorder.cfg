SPECIFICATION FairSpec
CONSTANTS
  SN = 16
  Sizes = {3, 4}
  Ssn = 13
  MaxSkip = 4
  LastFrame = 19
INVARIANTS
  DeliveredInOrder
  WindowHolds
  NothingLost
  NoWorkWithoutSession
PROPERTIES
  HeldFrameIsReleased
