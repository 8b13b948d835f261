SPECIFICATION FairSpec
CONSTANTS
    MaxPosts = 2
    MaxSessions = 3
INVARIANTS
    TypeOK
    FramesFindRunningSession
    EmptyScreenExplained
PROPERTIES
    FramesFollow
    GeometryFollows
