\* DestroyApplication makes sure that there are no connections.
SPECIFICATION FairSpec
CONSTANTS
  Apps <- OneApp
  Addresses = {h1}
  Services <- OneService
  DrainChecks = 9
  MaxConns = 1
  Faults = {}
PROPERTIES
  DrainedBeforeStop
CHECK_DEADLOCK FALSE
