SPECIFICATION FairSpec
CONSTANTS
  NDesc = 2
  MaxFrames = 2
  MaxFaults = 1
  MaxSuspends = 1
  Tries = 2
  StaleTicks = 1
INVARIANTS
  OneOwner
  IntactRingInOrder
PROPERTIES
  FreshAndInOrder
  SuspendKeepsResetsOut
  DeafStationComesBack
