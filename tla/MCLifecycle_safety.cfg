\* Two servers on two addresses, or one after the other on the same, with failing
\* calls, crashes and expired sessions.
SPECIFICATION FirstAddressSpec
CONSTANTS
  Apps <- TwoApps
  Addresses <- TwoAddresses
  Services <- TwoServices
  DrainChecks = 1
  MaxConns = 1
  Faults = {"call", "expiry"}
INVARIANTS
  TypeOK
  RegisteredWhileReady
  ShutdownIsUnannounced
PROPERTIES
  ServersKeepMembership
  DestroyTerminates
CHECK_DEADLOCK FALSE
