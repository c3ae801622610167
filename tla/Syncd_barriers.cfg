CONSTANTS
  Name = {b1}
  NSock = 2
  MAXWAITERS = 3
  MaxCount = 2
  MaxConns = 3
  Requests = {"init", "nowait", "wait", "invalid", "udp", "abort"}
  Errors = {0, 1}
  Hups = 1
SPECIFICATION Spec
INVARIANTS TypeOK MapMatchesWaiters WaitersWatched NoDescriptorLeak RemovesOnlyWaiters LoopInvariant CountExact ErrorCovers
PROPERTY ReleasedTogether
CHECK_DEADLOCK FALSE
