\* Three hosts come and go while the client starts and listens, with failing
\* calls, expired sessions and a full event channel.  SessionPath is TRUE only so
\* that OnSessionExpired runs at all; an expired session sets lost.
SPECIFICATION FairSpec
CONSTANTS
  Hosts <- ThreeHosts
  Data = {"pre"}
  Faults = {"call", "expiry"}
  EventCap = 3
  SessionPath = TRUE
  MaxChanges = 3
INVARIANTS
  TypeOK
  NothingMissed
  QuietCacheAgrees
PROPERTIES
  CacheConverges
CHECK_DEADLOCK FALSE
