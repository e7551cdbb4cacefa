SPECIFICATION Spec
CONSTANTS
    MAXSIZEPKT = 60000
    HEADERS = 40
    U16 = 65536
    UIntMod = 2
    MaxCalls = 2
    FrameSizes <- RealSizes
INVARIANT EveryByteSent
CHECK_DEADLOCK FALSE
