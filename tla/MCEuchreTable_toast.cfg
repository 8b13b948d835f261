\* The toast of a Submit can be consumed before the winner is written.
SPECIFICATION FairSpec
CONSTANTS
    QueueCapacity = 1
    MaxAnchors = 2
    DEMO = TRUE
    MaxTaps = 1
    ValueItems = {12}
    SuitItems = {3}
    NULL = NULL
PROPERTIES
    WinnerIsShown
