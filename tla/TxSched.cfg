SPECIFICATION FairSpec
CONSTANTS
  Stas = {a, b}
  Leavers = {a}
  NoSta = nosta
  Room = 1
  MaxFrames = 2
  MaxResets = 1
INVARIANTS
  FramesKeepStationListed
  RemovedStationIsGone
PROPERTIES
  FramesLeave
