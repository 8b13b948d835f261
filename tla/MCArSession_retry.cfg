SPECIFICATION Spec
CONSTANTS
    MaxPosts = 1
    MaxSessions = 2
PROPERTIES
    RecreatedSessionStays
