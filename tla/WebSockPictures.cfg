SPECIFICATION Spec
CONSTANTS
    MAX_FRAMES = 1
    MAX_BUFFERS = 2
    MAX_QUEUE_SUZE = 1
    Kinds = {"h264"}
    CodecOpen = TRUE
    Delay = 1
    MaxImages = 2
INVARIANT PicturesFreed
CHECK_DEADLOCK FALSE
