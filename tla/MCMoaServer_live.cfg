\* Two frames of every kind and one worker, while each of the three timeouts may run out.
SPECIFICATION FairSpec
CONSTANTS
  Requests = {r1, r2}
  Frames <- SomeFrames
  Timeout = 1
  PoolSize = 1
  MaxClock = 1
INVARIANTS
  TypeOK
  AtMostOneReply
  SuccessIsGenuine
  CountersExact
PROPERTIES
  SilenceIsJustified
  EveryFrameSettles
  ImplementsRpc
CHECK_DEADLOCK FALSE
