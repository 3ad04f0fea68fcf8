CONSTANTS
  r1 = r1
  r2 = r2
  Requestors <- MCRequestors
  NumSignalRequests = 2
  ExternalSemaphoreTableSize = 2
  CounterMod = 4
  MaxCalls = 2
SPECIFICATION FairSpec
PROPERTY EveryRequestIsAnswered
CHECK_DEADLOCK FALSE
