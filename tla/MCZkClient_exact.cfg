\* NodeChange updates the cache on every change of the hosts.
SPECIFICATION Spec
CONSTANTS
  Hosts <- ThreeHosts
  Data = {"normal"}
  Faults = {}
  EventCap = 6
  SessionPath = FALSE
  MaxChanges = 3
INVARIANTS
  QuietCacheIsExact
CHECK_DEADLOCK FALSE
