SPECIFICATION Spec
CONSTANTS
    Values <- MCValues
    InSuits <- MCInSuits
    HandSize = 5
    Editable = {1}
    NewValues = {1}
    MaxEdits = 1
INVARIANTS
    TypeOK
    RankFollowsRules
    PredicatesInclusive
