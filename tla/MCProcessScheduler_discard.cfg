CONSTANTS
  idle = idle
  p1 = p1
  p2 = p2
  p3 = p3
  s1 = s1
  s2 = s2
  cs1 = cs1
  Nobody = Nobody
  NoList = NoList
  NoSemaphore = NoSemaphore
  Processes <- MCProcesses
  Semaphores <- MCSemaphores
  CriticalSections <- MCSections
  NumPriorities = 4
  priority <- MCPriority
  Idle = idle
  EventSemaphore <- MCEventSemaphore
  RaisedEvents = {"timer", "longRunning"}
  SuspendsEnterers = FALSE
  MaxExcess = 1
SPECIFICATION Spec
INVARIANT DiscardedAreDead
