\* The client subscribes again after its session has expired.
SPECIFICATION FairSpec
CONSTANTS
  Hosts <- TwoHosts
  Data = {"normal"}
  Faults = {"expiry"}
  EventCap = 6
  SessionPath = FALSE
  MaxChanges = 2
PROPERTIES
  WatchIsRearmed
CHECK_DEADLOCK FALSE
