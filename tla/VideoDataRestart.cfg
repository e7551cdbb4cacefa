SPECIFICATION Spec
CONSTANTS
    MAXSIZEPKT = 3
    HEADERS = 1
    U16 = 65536
    UIntMod = 2
    FrameSizes <- TwoThree
    Networks <- UncopiedNetworks
    Restarting = TRUE
    MaxFrames = 3
    MaxExtra = 0
INVARIANTS Placed InOrder
CHECK_DEADLOCK FALSE
