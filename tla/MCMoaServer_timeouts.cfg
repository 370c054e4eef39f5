\* README: timeout is the number of timed-out calls.
SPECIFICATION FairSpec
CONSTANTS
  Requests = {r1}
  Frames <- ErrorFrames
  Timeout = 1
  PoolSize = 1
  MaxClock = 2
PROPERTIES
  TimeoutsAreCounted
CHECK_DEADLOCK FALSE
