\* Eviction at the cap takes away the card of the wrong anchor.
SPECIFICATION Spec
CONSTANTS
    QueueCapacity = 1
    MaxAnchors = 2
    DEMO = TRUE
    MaxTaps = 3
    ValueItems = {13}
    SuitItems = {3}
    NULL = NULL
INVARIANTS
    EachAnchorHasCard
