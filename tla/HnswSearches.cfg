SPECIFICATION Spec
CONSTANTS
    Docs = {1, 2, 3}
    Points <- Ruler3
    M = 2
    EfConstruction = 2
    Searchers = {s1, s2}
    Requests <- MCRequests
    EfSearch = 1
    Generations = 8
    StartSize = 1
    MaxSize = 3
    MaxLevel = 1
    MaxSearches = 2
    MaxOpen = 4
INVARIANTS
    TypeOK
    AloneExact
    OnlyRepeatsHide
PROPERTY
    SearchesReturn
CHECK_DEADLOCK FALSE
