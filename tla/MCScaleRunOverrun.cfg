SPECIFICATION Safe
CONSTANTS
    Files = {f1}
    Size <- MCSizes
    Decoders <- OneDecoder
    MemMax <- MCMemMax
    Runs <- TwoRuns
    Peaks = {1000}
    ExitCodes = {1, 137}
    Pct = 10
INVARIANTS
    OverrunIsRegression
