SPECIFICATION FairSpec
CONSTANTS
  Schedulers = {urb, mac80211}
  Disablers = {reset, stop}
INVARIANTS
  DisabledMeansParked
  NoLostWakeup
PROPERTIES
  EveryRequestRuns
  WaitersReturn
