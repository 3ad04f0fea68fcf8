CONSTANTS
  r1 = r1
  r2 = r2
  Requestors <- MCRequestors
  NumSignalRequests = 3
  ExternalSemaphoreTableSize = 2
  CounterMod = 2
  MaxCalls = 3
SPECIFICATION FairSpec
INVARIANTS
  TypeOK
  NoRequestForgotten
  
PROPERTIES
  SignalsMatchRequests
  
CHECK_DEADLOCK FALSE
