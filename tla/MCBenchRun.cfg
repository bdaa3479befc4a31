SPECIFICATION Spec
CONSTANTS
    NumFiles = 2
    Decoders <- OpjThenGrok
    Threads <- TwoCounts
    Concurrency = 2
    Verify = TRUE
    Formats <- Both
    NoJob = NoJob
INVARIANTS
    NoDanglingCapture
    RowsComplete
    ComparedWithOwnReference
PROPERTIES
    ImplementsStream
    RunEnds
