SPECIFICATION FairSpec
CONSTANTS
    QueueCapacity = 1
    MaxAnchors = 2
    DEMO = TRUE
    MaxTaps = 3
    ValueItems = {13}
    SuitItems = {3}
    NULL = NULL
INVARIANTS
    TypeOK
    AnchorCap
    MarkOrder
    SubmitReadsOneMoment
    ListsAgreeUnlessRaced
    TableIsTracked
    CrashNeedsRaceOrEviction
PROPERTIES
    TapsServed
