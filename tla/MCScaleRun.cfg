SPECIFICATION Spec
CONSTANTS
    Files = {f1, f2}
    Size <- MCSizes
    Decoders <- OneDecoder
    MemMax <- MCMemMax
    Runs <- TwoRuns
    Peaks = {1000, 1100, 1101}
    ExitCodes = {1, 137}
    Pct = 10
INVARIANTS
    OneLinePerReport
    HeaderOnceAndFirst
    GateFindsGrowth
PROPERTIES
    RunReportsAll
