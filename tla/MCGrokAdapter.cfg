SPECIFICATION Spec
CONSTANTS
    t1 = t1
    t2 = t2
    Callers <- TwoCallers
    NoThread = NoThread
    Sizes <- TwoSizes
    MaxCalls = 3
INVARIANTS
    TypeOK
    OneDecodeAtATime
    CodecConfined
    ErrorIsOwn
PROPERTIES
    CallsReturn
