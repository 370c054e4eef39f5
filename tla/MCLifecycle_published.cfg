\* README: once a service is published, it can be called.
SPECIFICATION FairSpec
CONSTANTS
  Apps <- OneApp
  Addresses = {h1}
  Services <- OneService
  DrainChecks = 1
  MaxConns = 1
  Faults = {}
INVARIANTS
  PublishedIsServed
CHECK_DEADLOCK FALSE
