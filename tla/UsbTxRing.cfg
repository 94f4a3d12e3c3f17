SPECIFICATION FairSpec
CONSTANTS
  N = 3
  FreeThr = 1
  HoldSettings = {TRUE, FALSE}
  Stoppers = {"stop", "reset"}
  Lossy = {"stop"}
  MaxFrames = 5
INVARIANTS
  RingIsConsistent
  FreedNotInFlight
PROPERTIES
  ImplementsFifo
  EveryFrameCompletes
