CONSTANTS
  s1 = s1
  s2 = s2
  NoData = NoData
  Sockets <- MCSockets
  Clients <- MCSockets
  FdSetSize = 3
  MaxCreated = 2
  Slow = {}
  Urgent = {}
SPECIFICATION Spec
INVARIANT OtherEndClosedIsTrue
\* Once the sockets that may be created are gone, nothing is left to do.
CHECK_DEADLOCK FALSE
