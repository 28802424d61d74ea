SPECIFICATION Spec
CONSTANTS
    PollInterval = 1
    BootTimeout = 1
    IdleGrace = 1
    MaxJob = 1
    ShutdownMargin = 1
    Lifetime = 6
    DrainFallback = 2
    CapacityBase = 2
    CapacityMax = 4
    DeleteAfterStop = TRUE
    ComputeRate = 1
    ProjectedStartCost = 2
    UnarmedWindow = 2
    Permits <- ThreeStarts
    MaxTime = 10
    MaxJobs = 2
    FaultKinds <- AllFaults
    MaxFaults = 1
    TickTime = 1
    OperationTime = 1
    WatchdogWorks = TRUE
INVARIANTS
    TypeOK
    JournalReadable
    JournalConsistent
    BootsCounted
    GenerationsAgree
    GrantWithinPermit
    NoJobKilled
    SingleVm
PROPERTIES
    BackoffRespected
    JournalMonotone
