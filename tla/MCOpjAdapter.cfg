SPECIFICATION Spec
CONSTANTS
    Callers = {t1, t2}
    Libs = {openjpeg, openjp2k}
    Symbols = 2
    Size = 1
    MaxCalls = 3
SYMMETRY Symmetry
INVARIANTS
    TypeOK
    ObjectsFollowTheCall
    ErrorIsOwn
    CallsThroughFullTable
