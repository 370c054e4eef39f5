\* Three calls racing to create a map and its counters, pruned at any moment; clients
\* that disconnect for good.
SPECIFICATION UpToRenamingSpec
CONSTANTS
  Clients <- Two
  Methods <- Two
  Calls <- Three
INVARIANTS
  TypeOK
  CountsExact
  NeverOvercounted
PROPERTIES
  OrphansArePruned
