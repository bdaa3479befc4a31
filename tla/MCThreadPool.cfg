SPECIFICATION Spec
CONSTANTS
    NumThreads = 3
    j1 = j1
    j2 = j2
    j3 = j3
    j4 = j4
    Jobs <- FourJobs
    NoJob = NoJob
INVARIANTS
    TypeOK
    NoLostWakeup
    ShutdownReachesAll
    OwnerHasWaker
    DestructorDrains
PROPERTIES
    WaitReturnsQuiet
    ImplementsJobPool
