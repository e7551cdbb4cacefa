SPECIFICATION LiveSpec
CONSTANTS
    MAX_FRAMES = 1
    MAX_BUFFERS = 2
    MAX_QUEUE_SUZE = 1
    Kinds = {"jpeg", "h264"}
    CodecOpen = TRUE
    Delay = 1
    MaxImages = 4
INVARIANTS TypeOK FramesBound UnlockedReadsHold PipelineInOrder
    StuckOnlyWhenOvertaken
CHECK_DEADLOCK FALSE
PROPERTIES QueuedShown DestructorReturns
