SPECIFICATION Spec
CONSTANTS
    Docs = {1, 2, 3, 4, 5, 6}
    Points <- Ruler6
    Invalid = Invalid
    Tags = {red}
    NoFilter = NoFilter
    TopKs = {1, 2}
    Threshold = 3
    Busy = 3
INVARIANTS
    TypeOK
    SelectiveExact
    NearestFirst
CHECK_DEADLOCK FALSE
