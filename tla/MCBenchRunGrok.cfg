SPECIFICATION Safe
CONSTANTS
    NumFiles = 1
    Decoders <- GrokOnly
    Threads <- EightOnly
    Concurrency = 1
    Verify = TRUE
    Formats <- OnlyJsonl
    NoJob = NoJob
INVARIANTS
    GrokPinnedToFirst
