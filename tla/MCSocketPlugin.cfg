CONSTANTS
  s1 = s1
  s2 = s2
  NoData = NoData
  Sockets <- MCSockets
  Clients <- MCSockets
  FdSetSize = 4
  MaxCreated = 2
  Slow = {2}
  Urgent = {2}
SPECIFICATION Spec
INVARIANTS
  TypeOK
  MaxFdIsAccurate
  
  
  
  
  WaiterIsArmed
\* Once the sockets that may be created are gone, nothing is left to do.
CHECK_DEADLOCK FALSE
