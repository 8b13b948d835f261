SPECIFICATION Spec
CONSTANTS
    MaxImages = 2
    MaxRequests = 4
INVARIANTS
    TypeOK
    NewestIsSelected
    PreviewIsOfImage
    StaleOnlyIfOverlapped
    MeasuredAfterLayout
PROPERTIES
    RecreationKeepsImage
