SPECIFICATION Spec
CONSTANTS
    MaxOpens = 1
    NumBuffers = 2
    MaxFrames = 3
    MaxProcessors = 1
PROPERTIES
    DetectsItsFrame
CHECK_DEADLOCK FALSE
