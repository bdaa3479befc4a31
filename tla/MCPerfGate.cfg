SPECIFICATION Spec
CONSTANTS
    Records = {1, 2, 3}
    Axes = {rate, tile}
    Levels = {l1, l2}
    Target = 2
    Counts <- TwoCounts
    Effects <- Some
    Formats <- Both
    MaxMishaps = 1
    MaxOdd = 1
    NoRow = NoRow
SYMMETRY Symmetry
INVARIANTS
    EveryLevelCovered
    DropsOnlyTail
    LogTellsTheRun
    GateExact
    LevelRegressionCaught
