\* Two calls at once, each with a goroutine of its own.
SPECIFICATION Spec
CONSTANTS
  Requests <- TwoRequests
  Keys = {"env"}
INVARIANTS
  RacesAreHomemade
  OnlyGoroutinesCrash
  RequestPropertiesStay
CHECK_DEADLOCK FALSE
