SPECIFICATION SamplerSpec
CONSTANTS
    Sizes <- ThreeSizes
    MaxChanges = 3
INVARIANTS
    PeakIsLargestSample
PROPERTIES
    SecondStopAgrees
    StopReturns
