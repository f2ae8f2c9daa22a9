SPECIFICATION Spec
CONSTANTS
    Docs = {1, 2, 3, 4}
    Points <- Ruler4
    Filters = {{2, 3}}
    M = 2
    EfConstruction = 2
    MaxLevel = 1
    Busy = 4
INVARIANTS
    ReplaceKeepsOthers
