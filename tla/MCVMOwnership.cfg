SPECIFICATION Spec
CONSTANTS
    idler = idler
    worker = worker
    NumThreads = 2
    Processes <- MCProcesses
    priority <- MCPriority
    Idle = idler
    Nobody = Nobody
    Images <- MCBothHabits
    MaxCalls = 2
    MaxSignals = 1
INVARIANTS
    OneThreadRuns
    
    AwayIsKept
    SaneThreadAndProcess
    RunsWhereAffined
PROPERTIES
    ReturnsToCaller
    CallsBackToCaller
CHECK_DEADLOCK FALSE
