SPECIFICATION FairSpec
CONSTANTS
  DongleEvents = {"wedge", "heal"}
  MaxProbes = 1
  ChipResetTries = 1
  McuTimeoutMax = 1
  RescueThreshold = 1
  EscalateTicks = 1
PROPERTIES
  ImplementsBusLife
  ResetWorkEnds
  DisconnectReturns
