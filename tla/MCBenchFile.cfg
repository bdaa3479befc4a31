SPECIFICATION Spec
CONSTANTS
    Warmups <- UpToTwo
    Iters <- UpToTwo
    DefaultWarmup = 1
    DefaultIters = 2
    MaxArgs = 9
    Times <- SomeTimes
INVARIANTS
    VerdictExact
    ErrorTellsProgress
    SamplerConfined
    StageIsMinimum
