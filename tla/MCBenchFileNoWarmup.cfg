SPECIFICATION Spec
CONSTANTS
    Warmups <- UpToTwo
    Iters <- OneOrTwo
    DefaultWarmup = 1
    DefaultIters = 2
    MaxArgs = 1
    Times <- SomeTimes
INVARIANTS
    VerdictHonest
