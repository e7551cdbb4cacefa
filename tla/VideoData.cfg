SPECIFICATION LiveSpec
CONSTANTS
    MAXSIZEPKT = 3
    HEADERS = 1
    U16 = 65536
    UIntMod = 8
    FrameSizes <- OneTwoTruncated
    Networks <- AnyNetwork
    Restarting = FALSE
    MaxFrames = 3
    MaxExtra = 1
INVARIANTS TypeOK Intact AtMostOnce CleanNetworkRejectsNothing
PROPERTIES ImplementsChannel EveryWholeFrameTaken
CHECK_DEADLOCK FALSE
