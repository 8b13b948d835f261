SPECIFICATION Spec
CONSTANTS
    Values <- MCValues
    TrickSize = 4
INVARIANTS
    TypeOK
    WinnerIsStrongest
PROPERTIES
    LaterCardTakesOrLoses
