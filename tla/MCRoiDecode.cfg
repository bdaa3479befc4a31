SPECIFICATION Spec
CONSTANTS
    ByteBits = 2
    Word = 8
    MaxDim = 3
    MaxChans = 2
    Asked <- EveryAcross
    Values <- SomeValues
INVARIANTS
    CropIsRegion
    RoiHonoured
    VerdictTellsSamples
