SPECIFICATION FairSpec
CONSTANTS
    MaxOpens = 1
    NumBuffers = 2
    MaxFrames = 1
    MaxProcessors = 1
PROPERTIES
    ReleaseReturns
CHECK_DEADLOCK FALSE
