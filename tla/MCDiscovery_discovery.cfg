\* Two servers that start, one of which crashes, loses its session or stops while a client looks for them.
SPECIFICATION OneStaysSpec
CONSTANTS
  Apps <- TwoApps
  Addresses <- TwoAddresses
  Services <- OneService
  DrainChecks = 0
  MaxConns = 0
  Faults = {}
  Watched = 1
  EventCap = 6
INVARIANTS
  DiscoveryTypeOK
  FoundArePublished
CHECK_DEADLOCK FALSE
