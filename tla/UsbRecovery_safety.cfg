SPECIFICATION Spec
CONSTANTS
  DongleEvents = {"wedge", "heal", "unplug", "replug"}
  MaxProbes = 2
  ChipResetTries = 1
  McuTimeoutMax = 1
  RescueThreshold = 2
  EscalateTicks = 1
INVARIANTS
  IInv
  HungBusIsBeingReset
  ParkedOnlyWhenHung
  WatchdogArmed
