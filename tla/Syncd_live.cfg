CONSTANTS
  Name = {b1}
  NSock = 2
  MAXWAITERS = 2
  MaxCount = 2
  MaxConns = 2
  Requests = {"init", "nowait", "wait", "invalid", "udp"}
  Errors = {0}
  Hups = 1
SPECIFICATION FairSpec
PROPERTY DepartureNoticed
CHECK_DEADLOCK FALSE
