SPECIFICATION Spec
CONSTANTS
    PollInterval = 1
    BootTimeout = 2
    IdleGrace = 1
    MaxJob = 1
    ShutdownMargin = 1
    Lifetime = 4
    DrainFallback = 2
    CapacityBase = 2
    CapacityMax = 4
    DeleteAfterStop = TRUE
    ComputeRate = 1
    ProjectedStartCost = 2
    UnarmedWindow = 2
    Permits <- OnePermit
    MaxTime = 10
    MaxJobs = 1
    FaultKinds = {"crash"}
    MaxFaults = 2
    TickTime = 1
    OperationTime = 1
    WatchdogWorks = TRUE
INVARIANTS
    CreateReconciledFirst
