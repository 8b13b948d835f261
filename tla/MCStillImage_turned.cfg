SPECIFICATION Spec
CONSTANTS
    MaxImages = 1
    MaxRequests = 1
INVARIANTS
    NeverScaledToNothing
