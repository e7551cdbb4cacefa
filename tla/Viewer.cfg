SPECIFICATION Spec
CONSTANTS
    Sizes = {1, 2}
    NoSize = 0
    cameraSize = 1
    m_max_frames = 1
    MaxImages = 2
    MaxCalls = 2
    MaxSettings = 1
    MaxStream = 1
INVARIANTS TypeOK CameraFollows EncoderServed DrawsLast
PROPERTY DestructorReturns
CHECK_DEADLOCK FALSE
