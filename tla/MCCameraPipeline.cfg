SPECIFICATION FairSpec
CONSTANTS
    MaxOpens = 2
    NumBuffers = 2
    MaxFrames = 3
    MaxProcessors = 1
INVARIANTS
    TypeOK
    BuffersKept
    OneForeignBuffer
    ThreadServesCamera
    ReleaseFindsThreadOnlyAfterLateStart
PROPERTIES
    HandlersReturn
    FramesReachDetection
    FeedSpec
CHECK_DEADLOCK FALSE
