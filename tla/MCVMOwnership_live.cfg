SPECIFICATION FairSpec
CONSTANTS
    idler = idler
    worker = worker
    NumThreads = 2
    Processes <- MCProcesses
    priority <- MCPriority
    Idle = idler
    Nobody = Nobody
    Images <- MCFewerHabits
    MaxCalls = 2
    MaxSignals = 1
INVARIANTS
    TypeOK
    RunsWhereAffined

    
    
    
CHECK_DEADLOCK FALSE
